------------------------- MODULE IssuerParamsProofs -------------------------
(***************************************************************************)
(* The invariants of IssuerParams, for a u64 of any even width, the prime  *)
(* that goes with it, and any arguments.                                   *)
(***************************************************************************)
EXTENDS IssuerParams, FiniteSetTheorems, TLAPS

\* A power of two counts subsets.
LEMMA PowerOfTwo ==
    ASSUME NEW j \in Nat, NEW k \in Nat, j <= k
    PROVE  2 ^ j \in Nat \ {0} /\ 2 ^ k \in Nat /\ 2 ^ j <= 2 ^ k
<1>1. \A n \in Nat : /\ IsFiniteSet(1 .. n) /\ Cardinality(1 .. n) = n
  BY FS_Interval
<1>2. \A n \in Nat : /\ IsFiniteSet(SUBSET (1 .. n)) /\ Cardinality(SUBSET (1 .. n)) = 2 ^ n
                     /\ Cardinality(SUBSET (1 .. n)) \in Nat
  BY <1>1, FS_SUBSET, FS_CardinalityType
<1>3. SUBSET (1 .. j) \subseteq SUBSET (1 .. k) /\ {} \in SUBSET (1 .. j)
  OBVIOUS
<1>4. Cardinality(SUBSET (1 .. j)) <= Cardinality(SUBSET (1 .. k))
  BY <1>2, <1>3, FS_Subset
<1>5. Cardinality(SUBSET (1 .. j)) # 0
  BY <1>2, <1>3, FS_EmptySet
<1> QED
  BY <1>2, <1>4, <1>5

LEMMA Widths == /\ U64 \in Nat /\ Prime \in Nat \ {0} /\ Prime <= U64 /\ U8 = 256
                /\ \A x \in Nat : Felt(x) \in 0 .. Prime - 1 /\ Felt(x) <= x
                /\ \A x \in 0 .. Prime - 1 : Felt(x) = x
<1>1. HalfWord \in Nat /\ 2 * HalfWord \in Nat /\ HalfWord <= 2 * HalfWord
  BY IssuerParamsAssumption
<1>2. U64 \in Nat /\ 2 ^ HalfWord \in Nat \ {0} /\ 2 ^ HalfWord <= U64
  BY <1>1, PowerOfTwo DEF U64
<1>3. Prime \in Nat \ {0} /\ Prime <= U64
  BY <1>2 DEF Prime
<1>4. U8 = 256
  BY DEF U8
<1>5. \A P \in Nat \ {0} : /\ \A x \in Nat : x % P \in 0 .. P - 1 /\ x % P <= x
                           /\ \A x \in 0 .. P - 1 : x % P = x
  OBVIOUS
<1> QED
  BY <1>2, <1>3, <1>4, <1>5 DEF Felt

LEMMA DecimalsFit ==
    /\ MaxDecimals \in Nat
    /\ \A d \in 0 .. MaxDecimals : d \in 0 .. U8 - 1 /\ d % U8 = d
<1>1. MaxDecimals \in 0 .. 255
  BY Widths, IssuerParamsAssumption
<1>2. \A d \in 0 .. 255 : d % 256 = d
  OBVIOUS
<1>3. \A d \in 0 .. MaxDecimals : d \in 0 .. 255
  BY <1>1
<1> QED
  BY <1>1, <1>2, <1>3, Widths

-----------------------------------------------------------------------------
IssuerInv == TypeOK /\ DeployedAsPrinted

PrintedArguments == [symbol : Valid, decimals : 0 .. MaxDecimals, max_supply : 0 .. U64 - 1]

\* The metadata word of arguments that passed the checks.
LEMMA MetadataType ==
    ASSUME NEW a \in PrintedArguments
    PROVE  /\ Metadata(a) \in (0 .. Prime - 1) \X (0 .. U8 - 1) \X Valid
           /\ Metadata(a)[1] = Felt(a.max_supply)
           /\ Metadata(a)[2] = a.decimals /\ Metadata(a)[3] = a.symbol
           /\ Metadata(a) # <<>>
<1>1. a.max_supply \in Nat /\ a.decimals \in 0 .. U8 - 1 /\ a.symbol \in Valid
  <2>1. a.symbol \in Valid /\ a.decimals \in 0 .. MaxDecimals /\ a.max_supply \in 0 .. U64 - 1
    BY DEF PrintedArguments
  <2>2. a.max_supply \in Nat
    BY <2>1, Widths
  <2> QED
    BY <2>1, <2>2, DecimalsFit
<1>2. Felt(a.max_supply) \in 0 .. Prime - 1
  BY <1>1, Widths
<1> QED
  BY <1>1, <1>2 DEF Metadata

\* Arguments that do not parse are replaced by defaults of their type.
LEMMA ParsedType ==
    ASSUME NEW args, NEW n, NEW size \in Nat, NEW default \in 0 .. size - 1
    PROVE  Parsed(args, n, size, default) \in 0 .. size - 1
BY DEF Parsed

LEMMA DeployKeeps ==
    ASSUME IssuerInv, NEW args \in ArgLists, DeployIssuer(args)
    PROVE  IssuerInv'
<1> DEFINE a == Arguments(args)
<1>1. /\ a.symbol \in Valid /\ a.decimals <= MaxDecimals /\ Felt(a.max_supply) <= MaxAmount
      /\ faucet = <<>> /\ faucet' = Metadata(a) /\ printed' = a /\ issued' = issued
  BY DEF DeployIssuer, deploy_issuer_account
<1>2. a.decimals \in 0 .. U8 - 1 /\ a.max_supply \in 0 .. U64 - 1
  <2>1. /\ U8 \in Nat /\ U64 \in Nat /\ DefaultDecimals \in 0 .. U8 - 1
        /\ DefaultSupply \in 0 .. U64 - 1
    BY Widths, IssuerParamsAssumption
  <2> QED
    BY <2>1, ParsedType DEF Arguments
<1>3. a \in PrintedArguments
  <2>1. a = [symbol |-> a.symbol, decimals |-> a.decimals, max_supply |-> a.max_supply]
    BY DEF Arguments
  <2>2. a.decimals \in 0 .. MaxDecimals
    <3> HIDE DEF a
    <3> QED
      BY <1>1, <1>2, DecimalsFit
  <2> HIDE DEF a
  <2> QED
    BY <1>1, <1>2, <2>1, <2>2 DEF PrintedArguments
<1> HIDE DEF a
<1>4. PICK b \in PrintedArguments : b = a
  BY <1>3
<1>5. /\ faucet' \in (0 .. Prime - 1) \X (0 .. U8 - 1) \X Valid
      /\ faucet' # <<>> /\ faucet'[1] = Felt(b.max_supply) /\ faucet'[1] \in Nat
      /\ printed' = b /\ faucet' = Metadata(b)
  <2>1. Felt(b.max_supply) \in Nat
    BY Widths DEF PrintedArguments
  <2> QED
    BY <1>1, <1>4, <2>1, MetadataType
<1>6. issued' = 0 /\ 0 \in 0 .. MaxAmount
  BY <1>1, Widths, IssuerParamsAssumption DEF IssuerInv, DeployedAsPrinted
<1>7. TypeOK'
  BY <1>5, <1>6 DEF TypeOK, PrintedArguments
<1>8. DeployedAsPrinted'
  BY <1>1, <1>4, <1>5, <1>6 DEF DeployedAsPrinted, PrintedArguments, Metadata, Felt
<1> QED
  BY <1>7, <1>8 DEF IssuerInv

\* What a mint or a burn does to the issuance.
LEMMA IssuedKeeps ==
    ASSUME IssuerInv, NEW amount \in Amounts, MintTokens(amount) \/ BurnTokens(amount)
    PROVE  IssuerInv'
<1>1. /\ faucet # <<>> /\ faucet' = faucet /\ printed' = printed
      /\ MaxAmount \in Nat /\ issued \in Nat /\ amount \in Nat
      /\ faucet[1] \in Nat /\ faucet[1] <= MaxAmount /\ issued <= faucet[1]
  BY Widths, IssuerParamsAssumption
     DEF MintTokens, BurnTokens, IssuerInv, TypeOK, DeployedAsPrinted
<1>2. issued' \in Nat /\ issued' <= faucet[1]
  BY <1>1 DEF MintTokens, Mintable, BurnTokens
<1>3. TypeOK' /\ DeployedAsPrinted'
  BY <1>1, <1>2 DEF IssuerInv, TypeOK, DeployedAsPrinted, Metadata, Felt
<1> QED
  BY <1>3 DEF IssuerInv

LEMMA IssuerInductive == Spec => []IssuerInv
<1>1. Init => IssuerInv
  BY Widths, IssuerParamsAssumption DEF Init, IssuerInv, TypeOK, DeployedAsPrinted
<1>2. IssuerInv /\ [Next]_vars => IssuerInv'
  <2> SUFFICES ASSUME IssuerInv, [Next]_vars PROVE IssuerInv'
    OBVIOUS
  <2>1. CASE UNCHANGED vars
    BY <2>1 DEF vars, IssuerInv, TypeOK, DeployedAsPrinted, Metadata, Felt
  <2> QED
    BY <2>1, DeployKeeps, IssuedKeeps DEF Next
<1> QED
  BY <1>1, <1>2, PTL DEF Spec

\* The issuance stays an amount that one asset can hold: no sum that a mint
\* makes leaves the u64 or the field.
THEOREM IssuerTypes == Spec => []TypeOK
<1>1. IssuerInv => TypeOK
  BY DEF IssuerInv
<1> QED
  BY <1>1, IssuerInductive, PTL

\* The total supply that is read is within the max supply that deploy_issuer
\* printed and within that of the metadata, whatever was typed.
THEOREM SupplyAsPrinted == Spec => []SupplyWithinPrinted
<1>1. IssuerInv => SupplyWithinPrinted
  <2> SUFFICES ASSUME IssuerInv, faucet # <<>>
               PROVE  issued <= faucet[1] /\ issued <= printed.max_supply
    BY DEF SupplyWithinPrinted, ReadTotalSupply, ReadTokenMetadata
  <2>1. PICK b \in PrintedArguments : b = printed /\ faucet = Metadata(b)
    BY DEF IssuerInv, DeployedAsPrinted, PrintedArguments
  <2>2. /\ issued \in Nat /\ issued <= faucet[1] /\ faucet[1] = Felt(b.max_supply)
        /\ b.max_supply \in Nat
    BY <2>1, MetadataType, Widths
       DEF IssuerInv, TypeOK, DeployedAsPrinted, PrintedArguments
  <2>3. Felt(b.max_supply) \in Nat /\ Felt(b.max_supply) <= b.max_supply
    BY <2>2, Widths
  <2> QED
    BY <2>1, <2>2, <2>3
<1> QED
  BY <1>1, IssuerInductive, PTL

\* read_token_metadata returns what deploy_issuer printed; of the max supply
\* only if that is an element of the field.
THEOREM IssuerAsPrinted == Spec => []PrintedIsDeployed
<1>1. IssuerInv => PrintedIsDeployed
  <2> SUFFICES ASSUME IssuerInv, faucet # <<>>
               PROVE  /\ faucet[3] = printed.symbol
                      /\ faucet[2] % U8 = printed.decimals
                      /\ printed.max_supply < Prime => faucet[1] = printed.max_supply
    BY DEF PrintedIsDeployed, ReadTokenMetadata
  <2>1. PICK b \in PrintedArguments : b = printed /\ faucet = Metadata(b)
    BY DEF IssuerInv, DeployedAsPrinted, PrintedArguments
  <2>2. /\ faucet[1] = Felt(b.max_supply) /\ faucet[2] = b.decimals /\ faucet[3] = b.symbol
        /\ b.max_supply \in Nat /\ b.decimals \in 0 .. MaxDecimals
    BY <2>1, MetadataType, Widths DEF PrintedArguments
  <2>3. b.decimals % U8 = b.decimals
    BY <2>2, DecimalsFit
  <2>4. b.max_supply < Prime => Felt(b.max_supply) = b.max_supply
    BY <2>2, Widths
  <2> QED
    BY <2>1, <2>2, <2>3, <2>4
<1> QED
  BY <1>1, IssuerInductive, PTL
=============================================================================
