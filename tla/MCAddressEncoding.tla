------------------------- MODULE MCAddressEncoding -------------------------
(***************************************************************************)
(* Addresses of every form, chosen so that different ones are the same     *)
(* bytes: an EVM address, an Algorand address, an asset and a Solana       *)
(* address of the number 7, and a Solana address of the number the unified *)
(* asset's key has.                                                        *)
(***************************************************************************)
EXTENDS AddressEncoding

A(form, value, base58) == [form |-> form, value |-> value, base58 |-> base58]

evm7      == A("evm", 7, NotBase58)
evm8      == A("evm", 8, NotBase58)
algorand7 == A("algorand", 7, NotBase58)
solana7   == A("solana", 7, 32)
short7    == A("other", 7, 31)
asset7    == A("asset", 7, 1)
solana9   == A("solana", 9, 32)
unified9  == A("unified", 9, NotBase58)
nothing   == A("empty", 0, 0)
nonsense  == A("other", 0, NotBase58)

T(address, chain) == [address |-> address, chain |-> chain]

MCAccounts   == {evm7, evm8, algorand7, solana7, short7}
MCRecipients == {evm7, evm8, algorand7, solana7, short7, nothing, nonsense}
MCTokens ==
    {T(evm7, 2), T(evm7, POLYGON), T(evm8, POLYGON), T(evm7, ALGORAND),
     T(asset7, ALGORAND), T(asset7, POLYGON), T(asset7, SOLANA),
     T(solana9, SOLANA), T(unified9, POLYGON), T(unified9, SOLANA)}
MCNumbers == {0, 1}
=============================================================================
