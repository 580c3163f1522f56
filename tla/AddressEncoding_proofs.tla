----------------------- MODULE AddressEncoding_proofs -----------------------
(***************************************************************************)
(* For every set of addresses and tokens: which orders and withdrawals can *)
(* be built, and that what is signed has one meaning.                      *)
(***************************************************************************)
EXTENDS AddressEncoding, TLAPS

\* The message in hand is what the last call makes.
EncodingInv ==
    \/ call = [op |-> "none"] /\ message = <<>>
    \/ call \in Orders \cup Withdrawals /\ message = encoded(call)

LEMMA EncodingInvariant == EncodingSpec => []EncodingInv
<1>1. EncodingInit => EncodingInv
  BY DEF EncodingInit, EncodingInv
<1>2. EncodingInv /\ [EncodingNext]_encodingVars => EncodingInv'
  <2> SUFFICES ASSUME EncodingInv, [EncodingNext]_encodingVars
               PROVE  EncodingInv'
    OBVIOUS
  <2>1. ASSUME NEW c \in Orders \cup Withdrawals, Encodes(c)
        PROVE  EncodingInv'
    BY <2>1 DEF Encodes, EncodingInv
  <2>2. CASE UNCHANGED encodingVars
    BY <2>2 DEF EncodingInv, encodingVars
  <2> QED
    BY <2>1, <2>2 DEF EncodingNext
<1> QED
  BY <1>1, <1>2, PTL DEF EncodingSpec

-----------------------------------------------------------------------------
LEMMA AddressFacts ==
    ASSUME NEW a \in Address
    PROVE  /\ a.value \in Nat
           /\ a.base58 \in Nat \cup {NotBase58}
  BY DEF Address

LEMMA TokenFacts ==
    ASSUME NEW t \in Tokens
    PROVE  t.address \in Address /\ t.chain \in Nat
  BY EncodingAssumption

\* A piece of numbers never is what a conversion that raises leaves.
LEMMA PiecesStand ==
    ASSUME NEW width \in Nat, NEW value
    PROVE  Piece(width, value) # Raises
  BY DEF Piece, Raises

\* What normalize_address raises on, for an account and for a token.
LEMMA AccountsNormalize ==
    ASSUME NEW a \in Address, NEW chain \in Nat
    PROVE  normalize_address(a, determine_address_type(chain, FALSE, FALSE)) # Raises
               <=> AccountOn(a, chain)
  BY AddressFacts DEF normalize_address, determine_address_type, AccountOn, Piece,
        Raises, SOLANA, ALGORAND, NotBase58

LEMMA BoxTokensNormalize ==
    ASSUME NEW t \in Tokens
    PROVE  box_token(t) # Raises <=> TokenOn(t.address, t.chain)
<1>1. t.address \in Address /\ t.chain \in Nat
  BY TokenFacts
<1>2. t.address.base58 \in Nat \cup {NotBase58}
  BY <1>1, AddressFacts
<1> QED
  BY <1>1, <1>2 DEF box_token, normalize_address, determine_address_type, TokenOn, Piece,
        Raises, SOLANA, ALGORAND, NotBase58

LEMMA OrderTokensNormalize ==
    ASSUME NEW t \in Tokens
    PROVE  order_token(t) # Raises <=> Tradable(t)
<1>1. t.address \in Address /\ t.chain \in Nat
  BY TokenFacts
<1>2. t.address.base58 \in Nat \cup {NotBase58}
  BY <1>1, AddressFacts
<1> QED
  BY <1>1, <1>2 DEF order_token, normalize_address, determine_address_type, TokenOn,
        Tradable, Unified, Piece, Raises, SOLANA, ALGORAND, NotBase58

LEMMA PiecesOfAWithdrawal ==
    ASSUME NEW a, NEW b, NEW c, NEW d, NEW e, NEW f
    PROVE  Message(<<a, b, c, d, e, f>>) # <<>>
               <=> \A x \in {a, b, c, d, e, f} : x # Raises
<1> DEFINE s == <<a, b, c, d, e, f>>
<1>1. DOMAIN s = 1 .. 6 /\ s # <<>>
  OBVIOUS
<1>2. (\E i \in 1 .. 6 : s[i] = Raises) <=> \E x \in {a, b, c, d, e, f} : x = Raises
  OBVIOUS
<1> HIDE DEF s
<1>3. Message(s) # <<>> <=> ~ \E i \in 1 .. 6 : s[i] = Raises
  BY <1>1 DEF Message
<1> QED
  BY <1>2, <1>3 DEF s

LEMMA BoxAndRest ==
    ASSUME NEW a, NEW b, NEW c, NEW d, NEW e, NEW f
    PROVE  <<a, b, c>> \o <<d, e, f>> = <<a, b, c, d, e, f>>
<1> DEFINE all == <<a, b, c>> \o <<d, e, f>>
<1>1. Len(all) = 6 /\ all[1] = a /\ all[2] = b /\ all[3] = c
          /\ all[4] = d /\ all[5] = e /\ all[6] = f
  OBVIOUS
<1>2. all \in Seq({a, b, c, d, e, f})
  OBVIOUS
<1> HIDE DEF all
<1>3. all = <<a, b, c, d, e, f>>
  BY <1>1, <1>2
<1> QED
  BY <1>3 DEF all

LEMMA PiecesOfAnOrder ==
    ASSUME NEW a, NEW b, NEW c, NEW d, NEW e, NEW f, NEW g, NEW h
    PROVE  Message(<<a, b, c, d, e, f, g, h>>) # <<>>
               <=> \A x \in {a, b, c, d, e, f, g, h} : x # Raises
<1> DEFINE s == <<a, b, c, d, e, f, g, h>>
<1>1. DOMAIN s = 1 .. 8 /\ s # <<>>
  OBVIOUS
<1>2. (\E i \in 1 .. 8 : s[i] = Raises) <=> \E x \in {a, b, c, d, e, f, g, h} : x = Raises
  OBVIOUS
<1> HIDE DEF s
<1>3. Message(s) # <<>> <=> ~ \E i \in 1 .. 8 : s[i] = Raises
  BY <1>1 DEF Message
<1> QED
  BY <1>2, <1>3 DEF s

LEMMA MessageOfPieces ==
    ASSUME NEW s, Message(s) # <<>>
    PROVE  Message(s) = s
  BY DEF Message

\* An address that takes 32 bytes is encoded as the number it stands for.
LEMMA NumbersAreKept ==
    ASSUME NEW a \in Address, NEW type,
           normalize_address(a, type) # Raises,
           normalize_address(a, type).width = 32
    PROVE  normalize_address(a, type).value = a.value
  BY AddressFacts DEF normalize_address, Piece, Raises, NotBase58

-----------------------------------------------------------------------------
\* The pieces of a withdrawal.
LoginPiece(a) ==
    normalize_address(a, determine_address_type(wormhole_chain_id(a), FALSE, FALSE))

LEMMA WithdrawalPieces ==
    ASSUME NEW c \in Withdrawals
    PROVE  encoded(c) = Message(<<LoginPiece(c.account), Piece(8, wormhole_chain_id(c.account)),
                                  box_token(c.token), recipient_address(c.recipient, c.token),
                                  Piece(8, c.token.chain), Piece(73, c.numbers)>>)
<1>1. c.op = "withdraw"
  BY DEF Withdrawals
<1>2. encoded(c) = make_withdraw_msg(c.account, c.recipient, c.token, c.numbers)
  BY <1>1 DEF encoded
<1>3. get_account_balance_box_name(c.account, c.token)
        = <<LoginPiece(c.account), Piece(8, wormhole_chain_id(c.account)), box_token(c.token)>>
  BY DEF get_account_balance_box_name, LoginPiece
<1>4. get_account_balance_box_name(c.account, c.token)
          \o <<recipient_address(c.recipient, c.token), Piece(8, c.token.chain),
               Piece(73, c.numbers)>>
        = <<LoginPiece(c.account), Piece(8, wormhole_chain_id(c.account)), box_token(c.token),
            recipient_address(c.recipient, c.token), Piece(8, c.token.chain),
            Piece(73, c.numbers)>>
  BY <1>3, BoxAndRest
<1> QED
  BY <1>2, <1>4, Zenon DEF make_withdraw_msg

LEMMA LoginsEncode ==
    ASSUME NEW a \in Logins
    PROVE  LoginPiece(a) = Piece(32, a.value)
  BY DEF Logins, LoginPiece, wormhole_chain_id, determine_address_type, normalize_address,
        SOLANA, ALGORAND, POLYGON

\* The unified asset's key never gets into a box: no recipient is replaced.
LEMMA RecipientsAreSentTo ==
    ASSUME NEW r, NEW t \in Tokens, box_token(t) # Raises
    PROVE  recipient_address(r, t)
               = normalize_address(r, determine_address_type(t.chain, FALSE, FALSE))
<1>1. TokenOn(t.address, t.chain)
  BY BoxTokensNormalize
<1>2. ~ (t.chain = SOLANA /\ Unified(t.address))
  BY <1>1, EncodingAssumption DEF TokenOn, Unified, SOLANA, ALGORAND
<1>3. determine_address_type(t.chain, FALSE, Unified(t.address)) # "SolanaCctp"
  BY <1>2 DEF determine_address_type, SOLANA, ALGORAND
<1> QED
  BY <1>3 DEF recipient_address

LEMMA WithdrawalFacts ==
    ASSUME NEW c \in Withdrawals
    PROVE  /\ c.op = "withdraw"
           /\ c.account \in Logins
           /\ c.recipient \in Address
           /\ c.token \in Tokens
           /\ c.token.address \in Address
           /\ c.token.chain \in Nat
           /\ wormhole_chain_id(c.account) \in Nat
  BY EncodingAssumption, TokenFacts DEF Withdrawals, wormhole_chain_id, ALGORAND, POLYGON

LEMMA WithdrawalIsBuilt ==
    ASSUME NEW c \in Withdrawals
    PROVE  encoded(c) # <<>> <=> box_token(c.token) # Raises
                                 /\ recipient_address(c.recipient, c.token) # Raises
<1> DEFINE login     == LoginPiece(c.account)
           chain     == Piece(8, wormhole_chain_id(c.account))
           token     == box_token(c.token)
           recipient == recipient_address(c.recipient, c.token)
           sent_to   == Piece(8, c.token.chain)
           numbers   == Piece(73, c.numbers)
<1>1. login # Raises
  BY WithdrawalFacts, LoginsEncode, PiecesStand
<1>2. chain # Raises /\ sent_to # Raises /\ numbers # Raises
  BY PiecesStand
<1>3. encoded(c) = Message(<<login, chain, token, recipient, sent_to, numbers>>)
  BY WithdrawalPieces
<1> HIDE DEF login, chain, token, recipient, sent_to, numbers
<1>4. encoded(c) # <<>> <=> token # Raises /\ recipient # Raises
  BY <1>1, <1>2, <1>3, PiecesOfAWithdrawal
<1> QED
  BY <1>4 DEF token, recipient

(***************************************************************************)
(* make_withdraw_msg builds a withdrawal exactly for recipients and tokens *)
(* of the token's chain, and never one of the unified asset.               *)
(***************************************************************************)
THEOREM WithdrawalsAreThoseOfTheChain == EncodingSpec => []WithdrawalsBuilt
<1>1. EncodingInv => WithdrawalsBuilt
  <2> SUFFICES ASSUME EncodingInv, call.op = "withdraw"
               PROVE  message # <<>> <=> /\ AccountOn(call.recipient, call.token.chain)
                                         /\ TokenOn(call.token.address, call.token.chain)
    BY DEF WithdrawalsBuilt
  <2>1. call \in Withdrawals /\ message = encoded(call)
    BY DEF EncodingInv, Orders
  <2>2. box_token(call.token) # Raises <=> TokenOn(call.token.address, call.token.chain)
    BY <2>1, WithdrawalFacts, BoxTokensNormalize
  <2>3. ASSUME box_token(call.token) # Raises
        PROVE  recipient_address(call.recipient, call.token) # Raises
                   <=> AccountOn(call.recipient, call.token.chain)
    BY <2>1, <2>3, WithdrawalFacts, RecipientsAreSentTo, AccountsNormalize
  <2> QED
    BY <2>1, <2>2, <2>3, WithdrawalIsBuilt
<1> QED
  BY <1>1, EncodingInvariant, PTL

-----------------------------------------------------------------------------
\* The pieces of an order, once its account has a chain.
AccountPiece(a, chain) == normalize_address(a, determine_address_type(chain, FALSE, FALSE))

LEMMA OrderFacts ==
    ASSUME NEW c \in Orders
    PROVE  /\ c.op = "order"
           /\ c.account \in Address
           /\ c.base \in Tokens /\ c.price \in Tokens
           /\ c.base.address \in Address /\ c.price.address \in Address
           /\ c.method \in {"LOGIN", "TRADING_KEY"}
           /\ c.method = "LOGIN" => c.account \in Logins
           /\ account_chain(c.method, c.account) \in {-1, SOLANA, POLYGON, ALGORAND}
  BY EncodingAssumption, TokenFacts DEF Orders, Logins, account_chain, wormhole_chain_id,
        get_wh_id_by_address

LEMMA OrderPieces ==
    ASSUME NEW c \in Orders, NEW chain, chain = account_chain(c.method, c.account)
    PROVE  encoded(c) =
               IF chain = -1 THEN <<>>
               ELSE Message(<<Piece(72, c.numbers), AccountPiece(c.account, chain),
                              Piece(2, chain), order_token(c.base), Piece(4, c.base.chain),
                              order_token(c.price), Piece(4, c.price.chain),
                              Piece(68, c.numbers)>>)
<1>1. encoded(c) = build_order(c.method, c.account, c.base, c.price, c.numbers)
  BY OrderFacts DEF encoded
<1> QED
  BY <1>1, Zenon DEF build_order, get_order_bytes, AccountPiece

\* An account with a chain has the form of that chain.
LEMMA AccountsFit ==
    ASSUME NEW c \in Orders, NEW chain, chain = account_chain(c.method, c.account)
    PROVE  /\ Placeable(c.account) <=> chain # -1
           /\ chain # -1 => AccountPiece(c.account, chain) # Raises
<1>1. c.account \in Address /\ chain \in {-1, SOLANA, POLYGON, ALGORAND}
  BY OrderFacts
<1>2. Placeable(c.account) <=> chain # -1
  BY OrderFacts DEF Placeable, Logins, account_chain, wormhole_chain_id,
        get_wh_id_by_address, SOLANA, POLYGON, ALGORAND
<1>3. ASSUME chain # -1
      PROVE  AccountOn(c.account, chain) /\ chain \in Nat
  BY <1>1, <1>3, OrderFacts DEF AccountOn, Logins, account_chain, wormhole_chain_id,
        get_wh_id_by_address, SOLANA, POLYGON, ALGORAND, NotBase58
<1> QED
  BY <1>1, <1>2, <1>3, AccountsNormalize DEF AccountPiece

LEMMA OrderIsBuilt ==
    ASSUME NEW c \in Orders
    PROVE  encoded(c) # <<>> <=> /\ Placeable(c.account)
                                 /\ order_token(c.base) # Raises
                                 /\ order_token(c.price) # Raises
<1> DEFINE chain == account_chain(c.method, c.account)
<1>1. CASE chain = -1
  <2>1. encoded(c) = <<>>
    BY <1>1, OrderPieces, Zenon
  <2> QED
    BY <1>1, <2>1, AccountsFit
<1>2. CASE chain # -1
  <2> DEFINE first  == Piece(72, c.numbers)
             who    == AccountPiece(c.account, chain)
             home   == Piece(2, chain)
             base   == order_token(c.base)
             baseOn == Piece(4, c.base.chain)
             price  == order_token(c.price)
             priceOn == Piece(4, c.price.chain)
             last   == Piece(68, c.numbers)
  <2>1. who # Raises /\ Placeable(c.account)
    BY <1>2, AccountsFit
  <2>2. first # Raises /\ home # Raises /\ baseOn # Raises /\ priceOn # Raises /\ last # Raises
    BY PiecesStand
  <2>3. encoded(c) = Message(<<first, who, home, base, baseOn, price, priceOn, last>>)
    BY <1>2, OrderPieces, Zenon
  <2> HIDE DEF first, who, home, base, baseOn, price, priceOn, last
  <2>4. encoded(c) # <<>> <=> base # Raises /\ price # Raises
    BY <2>1, <2>2, <2>3, PiecesOfAnOrder
  <2> QED
    BY <2>1, <2>4 DEF base, price
<1> QED
  BY <1>1, <1>2

(***************************************************************************)
(* get_order_bytes builds an order exactly for accounts of a known chain   *)
(* and for tokens of their chains, the unified asset outside Solana and    *)
(* Algorand among them.                                                    *)
(***************************************************************************)
THEOREM OrdersAreThoseOfTheChains == EncodingSpec => []OrdersBuilt
<1>1. EncodingInv => OrdersBuilt
  <2> SUFFICES ASSUME EncodingInv, call.op = "order"
               PROVE  message # <<>> <=> /\ Placeable(call.account)
                                         /\ Tradable(call.base)
                                         /\ Tradable(call.price)
    BY DEF OrdersBuilt
  <2>1. call \in Orders /\ message = encoded(call)
    BY DEF EncodingInv, Withdrawals
  <2> QED
    BY <2>1, OrderFacts, OrderIsBuilt, OrderTokensNormalize
<1> QED
  BY <1>1, EncodingInvariant, PTL

(***************************************************************************)
(* Under a trading key the chain of an account is guessed from its         *)
(* address; the guess is the chain its signer would have had.              *)
(***************************************************************************)
THEOREM KeysSpeakForLogins == EncodingSpec => []KeySpeaksForLogin
<1>1. EncodingInv => KeySpeaksForLogin
  <2> SUFFICES ASSUME EncodingInv, call.op = "order", call.account \in Logins
               PROVE  message = encoded([call EXCEPT !.method = "LOGIN"])
    BY DEF KeySpeaksForLogin
  <2>1. call \in Orders /\ message = encoded(call)
    BY DEF EncodingInv, Withdrawals
  <2> DEFINE asLogin == [call EXCEPT !.method = "LOGIN"]
  <2>2. /\ asLogin.method = "LOGIN" /\ asLogin.op = "order"
        /\ asLogin.account = call.account /\ asLogin.base = call.base
        /\ asLogin.price = call.price /\ asLogin.numbers = call.numbers
    BY <2>1 DEF Orders
  <2>3. account_chain("LOGIN", call.account) = account_chain(call.method, call.account)
    BY DEF Logins, account_chain, wormhole_chain_id, get_wh_id_by_address
  <2> HIDE DEF asLogin
  <2>4. encoded(asLogin)
            = build_order("LOGIN", call.account, call.base, call.price, call.numbers)
    BY <2>2, Zenon DEF encoded
  <2>5. encoded(call)
            = build_order(call.method, call.account, call.base, call.price, call.numbers)
    BY Zenon DEF encoded
  <2>6. encoded(asLogin) = encoded(call)
    BY <2>3, <2>4, <2>5 DEF build_order
  <2> QED
    BY <2>1, <2>6 DEF asLogin
<1> QED
  BY <1>1, EncodingInvariant, PTL

-----------------------------------------------------------------------------
\* A message that follows its layout was built, and its addresses are 32 bytes wide.
LEMMA LayoutMeansBuilt ==
    ASSUME NEW op \in {"order", "withdraw"}, FollowsLayout(op)
    PROVE  /\ message # <<>>
           /\ op = "order" => message[2].width = 32 /\ message[4].width = 32
                              /\ message[6].width = 32
           /\ op = "withdraw" => message[3].width = 32 /\ message[4].width = 32
<1>1. CASE op = "order"
  <2> DEFINE widths == <<72, 32, 2, 32, 4, 32, 4, 68>>
  <2>1. Layout(op) = widths
    BY <1>1 DEF Layout
  <2>2. Len(widths) = 8 /\ widths[2] = 32 /\ widths[4] = 32 /\ widths[6] = 32
    OBVIOUS
  <2> HIDE DEF widths
  <2>3. Len(message) = 8 /\ \A i \in DOMAIN message : message[i].width = widths[i]
    BY <2>1, <2>2 DEF FollowsLayout
  <2>4. message # <<>> /\ {2, 4, 6} \subseteq DOMAIN message
    BY <2>3
  <2> QED
    BY <1>1, <2>2, <2>3, <2>4
<1>2. CASE op = "withdraw"
  <2>1. Len(message) = 6 /\ \A i \in DOMAIN message : message[i].width = Layout(op)[i]
    BY <1>2 DEF FollowsLayout, Layout
  <2> QED
    BY <1>2, <2>1 DEF Layout
<1> QED
  BY <1>1, <1>2

LEMMA PieceFacts ==
    ASSUME NEW width, NEW value
    PROVE  Piece(width, value).width = width /\ Piece(width, value).value = value
  BY DEF Piece

\* What a withdrawal means can be read off its pieces.
WithdrawalReading(m) ==
    <<m[2].value, m[1].value, m[5].value, m[3].value, m[4].value, m[6].value>>

LEMMA WithdrawalSays ==
    ASSUME NEW c \in Withdrawals, encoded(c) # <<>>,
           encoded(c)[3].width = 32, encoded(c)[4].width = 32
    PROVE  Meaning(c) = WithdrawalReading(encoded(c))
<1> DEFINE login     == LoginPiece(c.account)
           chain     == Piece(8, wormhole_chain_id(c.account))
           token     == box_token(c.token)
           recipient == recipient_address(c.recipient, c.token)
           sent_to   == Piece(8, c.token.chain)
           numbers   == Piece(73, c.numbers)
<1>1. token # Raises /\ recipient # Raises
  BY WithdrawalIsBuilt
<1>2. encoded(c) = Message(<<login, chain, token, recipient, sent_to, numbers>>)
  BY WithdrawalPieces
<1>3. encoded(c) = <<login, chain, token, recipient, sent_to, numbers>>
  BY <1>2, MessageOfPieces, Zenon
<1>4. /\ encoded(c)[1] = login /\ encoded(c)[2] = chain /\ encoded(c)[3] = token
      /\ encoded(c)[4] = recipient /\ encoded(c)[5] = sent_to /\ encoded(c)[6] = numbers
  <2> HIDE DEF login, chain, token, recipient, sent_to, numbers
  <2> QED
    BY <1>3
<1>5. /\ login.value = c.account.value
      /\ chain.value = wormhole_chain_id(c.account)
      /\ sent_to.value = c.token.chain
      /\ numbers.value = c.numbers
  BY WithdrawalFacts, LoginsEncode, PieceFacts
<1>6. token.value = c.token.address.value
  BY <1>1, <1>4, WithdrawalFacts, NumbersAreKept, Zenon DEF box_token
<1>7. recipient = normalize_address(c.recipient,
                      determine_address_type(c.token.chain, FALSE, FALSE))
  BY <1>1, WithdrawalFacts, RecipientsAreSentTo
<1>8. recipient.value = c.recipient.value
  <2> DEFINE type == determine_address_type(c.token.chain, FALSE, FALSE)
  <2>1. recipient # Raises /\ recipient.width = 32 /\ recipient = normalize_address(c.recipient, type)
    BY <1>1, <1>4, <1>7
  <2>2. c.recipient \in Address
    BY WithdrawalFacts
  <2> HIDE DEF type, recipient
  <2> QED
    BY <2>1, <2>2, NumbersAreKept
<1>9. Meaning(c) = <<wormhole_chain_id(c.account), c.account.value, c.token.chain,
                     c.token.address.value, c.recipient.value, c.numbers>>
  BY WithdrawalFacts DEF Meaning
<1> HIDE DEF login, chain, token, recipient, sent_to, numbers
<1> QED
  BY <1>4, <1>5, <1>6, <1>8, <1>9 DEF WithdrawalReading

\* So can what an order means.
OrderReading(m) ==
    <<m[3].value, m[2].value, m[5].value, m[4].value, m[7].value, m[6].value, m[1].value>>

LEMMA OrderSays ==
    ASSUME NEW c \in Orders, encoded(c) # <<>>, encoded(c)[2].width = 32,
           encoded(c)[4].width = 32, encoded(c)[6].width = 32
    PROVE  Meaning(c) = OrderReading(encoded(c))
<1> DEFINE chain  == account_chain(c.method, c.account)
           first  == Piece(72, c.numbers)
           who    == AccountPiece(c.account, chain)
           home   == Piece(2, chain)
           base   == order_token(c.base)
           baseOn == Piece(4, c.base.chain)
           price  == order_token(c.price)
           priceOn == Piece(4, c.price.chain)
           last   == Piece(68, c.numbers)
<1>1. Placeable(c.account) /\ base # Raises /\ price # Raises
  BY OrderIsBuilt
<1>2. chain # -1 /\ who # Raises
  BY <1>1, AccountsFit
<1>3. encoded(c) = Message(<<first, who, home, base, baseOn, price, priceOn, last>>)
  BY <1>2, OrderPieces, Zenon
<1>4. encoded(c) = <<first, who, home, base, baseOn, price, priceOn, last>>
  BY <1>3, MessageOfPieces, Zenon
<1>5. /\ encoded(c)[1] = first /\ encoded(c)[2] = who /\ encoded(c)[3] = home
      /\ encoded(c)[4] = base /\ encoded(c)[5] = baseOn /\ encoded(c)[6] = price
      /\ encoded(c)[7] = priceOn
  <2> HIDE DEF first, who, home, base, baseOn, price, priceOn, last
  <2> QED
    BY <1>4
<1>6. /\ first.value = c.numbers
      /\ home.value = chain
      /\ baseOn.value = c.base.chain
      /\ priceOn.value = c.price.chain
  BY PieceFacts
<1>7. who.value = c.account.value
  BY <1>2, <1>5, OrderFacts, NumbersAreKept, Zenon DEF AccountPiece
<1>8. base.value = c.base.address.value
  BY <1>1, <1>5, OrderFacts, NumbersAreKept, Zenon DEF order_token
<1>9. price.value = c.price.address.value
  BY <1>1, <1>5, OrderFacts, NumbersAreKept, Zenon DEF order_token
<1>10. Meaning(c) = <<chain, c.account.value, c.base.chain, c.base.address.value,
                      c.price.chain, c.price.address.value, c.numbers>>
  BY OrderFacts DEF Meaning
<1> HIDE DEF chain, first, who, home, base, baseOn, price, priceOn, last
<1> QED
  BY <1>5, <1>6, <1>7, <1>8, <1>9, <1>10 DEF OrderReading

(***************************************************************************)
(* No two orders, and no two withdrawals, that mean different things are   *)
(* signed as the same bytes, when every address in them is 32 bytes wide.  *)
(***************************************************************************)
THEOREM SignedBytesHaveOneMeaning == EncodingSpec => []MessagesAreUnambiguous
<1>1. EncodingInv => MessagesAreUnambiguous
  <2> SUFFICES ASSUME EncodingInv, call.op # "none", FollowsLayout(call.op),
                      NEW other \in SameOp(call.op), encoded(other) = message
               PROVE  Meaning(other) = Meaning(call)
    BY DEF MessagesAreUnambiguous
  <2>1. call \in Orders \cup Withdrawals /\ message = encoded(call)
    BY DEF EncodingInv
  <2>2. CASE call \in Orders
    <3>1. call.op = "order" /\ other \in Orders
      BY <2>2, OrderFacts DEF SameOp
    <3> QED
      BY <2>1, <2>2, <3>1, LayoutMeansBuilt, OrderSays
  <2>3. CASE call \in Withdrawals
    <3>1. call.op = "withdraw" /\ other \in Withdrawals
      BY <2>3, WithdrawalFacts DEF SameOp
    <3> QED
      BY <2>1, <2>3, <3>1, LayoutMeansBuilt, WithdrawalSays
  <2> QED
    BY <2>1, <2>2, <2>3
<1> QED
  BY <1>1, EncodingInvariant, PTL

=============================================================================
