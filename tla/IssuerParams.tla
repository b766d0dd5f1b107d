---------------------------- MODULE IssuerParams ----------------------------
(***************************************************************************)
(* The numbers of an issuer: the arguments of bin/deploy_issuer.rs, the    *)
(* faucet that deploy_issuer_account makes of them, what mints and burns   *)
(* do to its issuance, and what is printed and read back.  Operations has  *)
(* the steps of a mint and a burn; here each is one step, and the widths   *)
(* of the numbers matter.                                                  *)
(***************************************************************************)
EXTENDS Integers, Sequences

CONSTANTS
    HalfWord,     \* k: a u64 has 2k bits, the field 2^2k - 2^k + 1 elements
    MaxAmount,    \* FungibleAsset::MAX_AMOUNT
    MaxDecimals,  \* 12
    DefaultDecimals,
    DefaultSupply,
    Valid,        \* symbols that TokenSymbol::new takes
    Invalid,      \* texts that it refuses
    Typed,        \* numbers typed as arguments; -1 is not of an unsigned type
    Amounts       \* amounts that mint_tokens and burn_tokens are called with

U8  == 2 ^ 8
U64 == 2 ^ (2 * HalfWord)
Prime == U64 - 2 ^ HalfWord + 1

ASSUME IssuerParamsAssumption ==
    /\ HalfWord \in Nat \ {0}
    /\ MaxAmount \in 0 .. Prime - 1
    /\ MaxDecimals \in 0 .. U8 - 1
    /\ DefaultDecimals \in 0 .. MaxDecimals
    /\ DefaultSupply \in 0 .. MaxAmount
    /\ "USDB" \in Valid
    /\ Typed \subseteq Int
    /\ Amounts \subseteq 1 .. U64 - 1

Symbols == Valid \cup Invalid

\* std::env::args() from nth(1): an argument is there only with those before.
ArgLists == {<<>>} \cup {<<s>> : s \in Symbols}
                \cup (Symbols \X Typed) \cup (Symbols \X Typed \X Typed)

VARIABLES
    faucet,   \* metadata slot of the issuer's account, <<>> before
    issued,   \* sysdata slot: total issuance
    printed   \* arguments that main used and printed, <<>> before

vars == <<faucet, issued, printed>>

-----------------------------------------------------------------------------
\* .parse().ok().unwrap_or(default), for an unsigned type of `size` values.
Parsed(args, n, size, default) ==
    IF Len(args) >= n /\ args[n] \in 0 .. size - 1 THEN args[n] ELSE default

Arguments(args) ==
    [symbol     |-> IF args = <<>> THEN "USDB" ELSE args[1],
     decimals   |-> Parsed(args, 2, U8, DefaultDecimals),
     max_supply |-> Parsed(args, 3, U64, DefaultSupply)]

\* Felt::new.
Felt(x) == x % Prime

\* The faucet's metadata word, [max_supply, decimals, token_symbol, 0].
Metadata(a) == <<Felt(a.max_supply), a.decimals, a.symbol>>

\* (mutant: deploy_issuer_account is called with the numbers swapped)
deploy_issuer_account_Swapped(a) ==
    /\ a.symbol \in Valid
    /\ a.max_supply <= MaxDecimals
    /\ faucet' = Metadata([a EXCEPT !.decimals = a.max_supply,
                                    !.max_supply = a.decimals])

\* TokenSymbol::new and BasicFungibleFaucet::new check what they are given,
\* and the latter is given the field element.
deploy_issuer_account(a) ==
    /\ a.symbol \in Valid
    /\ a.decimals <= MaxDecimals
    /\ Felt(a.max_supply) <= MaxAmount
    /\ faucet' = Metadata(a)

DeployIssuer(args) ==
    /\ faucet = <<>>
    /\ deploy_issuer_account(Arguments(args))
    /\ printed' = Arguments(args)
    /\ UNCHANGED issued

-----------------------------------------------------------------------------
\* (mutant: each amount is checked, their sum is not)
Mintable_Amount(amount) == amount <= MaxAmount /\ amount <= faucet[1]

\* FungibleAsset::new refuses an amount above MAX_AMOUNT, the faucet one that
\* would take the issuance above its max_supply.
Mintable(amount) == amount <= MaxAmount /\ issued + amount <= faucet[1]

MintTokens(amount) ==
    /\ faucet # <<>>
    /\ Mintable(amount)
    /\ issued' = issued + amount
    /\ UNCHANGED <<faucet, printed>>

\* Only tokens that were issued can be in a burn note.
BurnTokens(amount) ==
    /\ faucet # <<>>
    /\ amount <= issued
    /\ issued' = issued - amount
    /\ UNCHANGED <<faucet, printed>>

\* (mutant: the slots of the metadata word in another order)
ReadTokenMetadata_Order ==
    [symbol |-> faucet[3], decimals |-> faucet[1] % U8, max_supply |-> faucet[2]]

ReadTokenMetadata ==
    [symbol |-> faucet[3], decimals |-> faucet[2] % U8, max_supply |-> faucet[1]]

ReadTotalSupply == issued

-----------------------------------------------------------------------------
Init ==
    /\ faucet = <<>>
    /\ issued = 0
    /\ printed = <<>>

Next ==
    \/ \E args \in ArgLists : DeployIssuer(args)
    \/ \E amount \in Amounts : MintTokens(amount) \/ BurnTokens(amount)

Spec == Init /\ [][Next]_vars

-----------------------------------------------------------------------------
(* Properties *)

\* Every variable has the values its checks leave; the issuance stays an
\* amount that one asset could hold, so no sum leaves 64 bits or the field.
TypeOK ==
    /\ faucet \in {<<>>} \cup (0 .. Prime - 1) \X (0 .. U8 - 1) \X Valid
    /\ issued \in 0 .. MaxAmount
    /\ printed \in {<<>>} \cup
           [symbol : Valid, decimals : 0 .. MaxDecimals, max_supply : 0 .. U64 - 1]

\* Whatever was typed, the total supply that is read never exceeds the max
\* supply that deploy_issuer printed, nor the one in the metadata.
SupplyWithinPrinted ==
    faucet # <<>> =>
        /\ ReadTotalSupply <= ReadTokenMetadata.max_supply
        /\ ReadTotalSupply <= printed.max_supply

\* An issuer is the one that was printed: read_token_metadata returns the
\* symbol and the decimals used, an argument that did not parse being printed
\* as the default that replaced it, and the max supply whenever that is an
\* element of the field.
PrintedIsDeployed ==
    faucet # <<>> =>
        /\ ReadTokenMetadata.symbol = printed.symbol
        /\ ReadTokenMetadata.decimals = printed.decimals
        /\ printed.max_supply < Prime =>
               ReadTokenMetadata.max_supply = printed.max_supply

\* What makes them inductive: the metadata is that of the arguments printed,
\* which passed the checks, and the issuance is within it.
DeployedAsPrinted ==
    /\ faucet = <<>> => issued = 0
    /\ faucet # <<>> =>
           /\ printed \in [symbol : Valid, decimals : 0 .. MaxDecimals, max_supply : 0 .. U64 - 1]
           /\ faucet = Metadata(printed)
           /\ faucet[1] <= MaxAmount
           /\ issued <= faucet[1]

\* What the documentation of deploy_issuer_account says of max_supply,
\* "Maximum total supply as a raw amount": minting up to it is not refused.
\* Not so: an argument from the prime on is reduced by Felt::new before it is
\* checked, and the issuer has a small max supply.
MintableUpToMax ==
    faucet # <<>> =>
        \A amount \in Amounts :
            /\ amount <= MaxAmount
            /\ issued + amount <= printed.max_supply
            => Mintable(amount)
=============================================================================
