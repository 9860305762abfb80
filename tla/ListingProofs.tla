---------------------------- MODULE ListingProofs -----------------------------
(* Proofs about the listing of series: the composition of factory,          *)
(* whitelist and controller is a controller, and its vouchers hold.         *)
EXTENDS Listing, BooksProofs

(***************************************************************************)
(* Every step of the composition is a step of the controller, or none, or  *)
(* a wallet mints oTokens of a mint that is its own.                       *)
(***************************************************************************)
WalletMints == \E s \in Series, to \in Key, n \in 1..MaxU64 : MintOutside(s, to, n)

LEMMA FactoryStutters == FactoryNext => UNCHANGED vars
  BY DEF FactoryNext, InitializeFactory, SetController, SetOperator, CreateOtoken

LEMMA WalletSteps == WalletNext => UNCHANGED vars \/ WalletMints
  BY DEF WalletNext, WalletMints, HandOver

LEMMA WhitelistSteps == WhitelistNext => [Next]_vars
<1>1. ASSUME NEW k \in Signer, NEW s \in Series, WhitelistCreated(k, s)
      PROVE  Next
  BY <1>1 DEF WhitelistCreated, Next, SeriesNext
<1>2. ASSUME NEW k \in WhitelistAdmins, InitializeWhitelist(k) PROVE UNCHANGED vars
  BY <1>2 DEF InitializeWhitelist
<1>3. ASSUME NEW k \in WhitelistAdmins, NEW f \in FactoryKeys, SetFactory(k, f)
      PROVE  UNCHANGED vars
  BY <1>3 DEF SetFactory
<1> QED
  BY <1>1, <1>2, <1>3 DEF WhitelistNext

LEMMA ListedSteps == ListedNext => Next
<1>1. ASSUME NEW k \in Signer, NEW s \in Series, RegisterListed(k, s)
      PROVE  Next
  BY <1>1 DEF RegisterListed, Next, SeriesNext
<1>2. ASSUME NEW k \in Key, NEW id \in VaultId, NEW s \in Series, NEW d \in Key,
             NEW n \in 1..MaxU64, MintListed(k, id, s, d, n)
      PROVE  Next
  BY <1>2 DEF MintListed, Next, MintNext
<1> QED
  BY <1>1, <1>2 DEF ListedNext

LEMMA RestSteps == RestOfController => Next
  BY DEF RestOfController, RestNext, Next

LEMMA ListingSteps == [ListingNext]_all_listing_vars => [Next]_vars \/ WalletMints
  BY FactoryStutters, WalletSteps, WhitelistSteps, ListedSteps, RestSteps
  DEF ListingNext, all_listing_vars

(***************************************************************************)
(* Types of the accounts of all three programs.                            *)
(***************************************************************************)
LEMMA OutsideTyped ==
  ASSUME TypeOK, WalletMints
  PROVE  TypeOK'
<1>1. PICK s \in Series, to \in Key, n \in 1..MaxU64 : MintOutside(s, to, n)
  BY DEF WalletMints
<1>2. balance[s] \in [Account -> Nat] /\ to \in Account /\ n \in Nat
  BY AmountType DEF TypeOK, Account
<1>3. Minted(balance[s], to, n) \in [Account -> Nat]
  BY <1>2 DEF Minted
<1>4. balance' \in [Mint \cup Series -> [Account -> Nat]]
  BY <1>1, <1>3 DEF MintOutside, TypeOK
<1> QED
  BY <1>1, <1>4 DEF MintOutside, TypeOK, accounts, outside, history

LEMMA FactoryTyped ==
  ASSUME TypeOK, ListingTypeOK, FactoryNext
  PROVE  ListingTypeOK'
<1>1. ASSUME NEW k \in FactoryAdmins, InitializeFactory(k) PROVE ListingTypeOK'
  BY <1>1 DEF InitializeFactory, ListingTypeOK, FactoryConfig
<1>2. ASSUME NEW k \in FactoryAdmins, NEW c \in Authorities, SetController(k, c)
      PROVE  ListingTypeOK'
  <2>1. factory_config \in FactoryConfig
    BY <1>2 DEF SetController, IsFactoryAdmin, ListingTypeOK
  <2>2. factory_config' \in FactoryConfig
    BY <1>2, <2>1 DEF SetController, FactoryConfig
  <2> QED
    BY <1>2, <2>2 DEF SetController, ListingTypeOK
<1>3. ASSUME NEW k \in FactoryAdmins, NEW o \in Operators, SetOperator(k, o)
      PROVE  ListingTypeOK'
  BY <1>3 DEF SetOperator, ListingTypeOK
<1>4. ASSUME NEW k \in Signer, NEW s \in Series, CreateOtoken(k, s)
      PROVE  ListingTypeOK'
  <2>1. factory_config \in FactoryConfig
    BY <1>4 DEF CreateOtoken, ListingTypeOK
  <2>2. factory_config' \in FactoryConfig
    BY <1>4, <2>1 DEF CreateOtoken, FactoryConfig
  <2>3. [mint_authority |-> factory_config.controller,
         created_for |-> factory_config.controller, created_at |-> now] \in OToken
    BY <1>4, <2>1 DEF CreateOtoken, OToken, FactoryConfig, TypeOK
  <2>4. otoken' \in [Series -> OToken \cup {NoAccount}]
    BY <1>4, <2>3 DEF CreateOtoken, ListingTypeOK
  <2> QED
    BY <1>4, <2>2, <2>4 DEF CreateOtoken, ListingTypeOK
<1> QED
  BY <1>1, <1>2, <1>3, <1>4 DEF FactoryNext

LEMMA WalletTyped ==
  ASSUME ListingTypeOK, WalletNext
  PROVE  ListingTypeOK'
<1>1. ASSUME NEW s \in Series, NEW to \in Key, NEW n \in 1..MaxU64, MintOutside(s, to, n)
      PROVE  ListingTypeOK'
  BY <1>1 DEF MintOutside, ListingTypeOK, listing_vars
<1>2. ASSUME NEW s \in Series, NEW authority \in Authorities, HandOver(s, authority)
      PROVE  ListingTypeOK'
  <2>1. otoken[s] \in OToken
    BY <1>2 DEF HandOver, HeldByWallet, ListingTypeOK
  <2>2. [otoken[s] EXCEPT !.mint_authority = authority] \in OToken
    BY <2>1 DEF OToken
  <2>3. otoken' \in [Series -> OToken \cup {NoAccount}]
    BY <1>2, <2>2 DEF HandOver, ListingTypeOK
  <2> QED
    BY <1>2, <2>3 DEF HandOver, ListingTypeOK
<1> QED
  BY <1>1, <1>2 DEF WalletNext

LEMMA WhitelistTyped ==
  ASSUME ListingTypeOK, WhitelistNext
  PROVE  ListingTypeOK'
<1>1. ASSUME NEW k \in WhitelistAdmins, InitializeWhitelist(k) PROVE ListingTypeOK'
  BY <1>1 DEF InitializeWhitelist, ListingTypeOK, WhitelistConfig
<1>2. ASSUME NEW k \in WhitelistAdmins, NEW f \in FactoryKeys, SetFactory(k, f)
      PROVE  ListingTypeOK'
  <2>1. whitelist_config \in WhitelistConfig
    BY <1>2 DEF SetFactory, ListingTypeOK
  <2>2. whitelist_config' \in WhitelistConfig
    BY <1>2, <2>1 DEF SetFactory, WhitelistConfig
  <2> QED
    BY <1>2, <2>2 DEF SetFactory, ListingTypeOK
<1>3. ASSUME NEW k \in Signer, NEW s \in Series, WhitelistCreated(k, s)
      PROVE  ListingTypeOK'
  BY <1>3 DEF WhitelistCreated, ListingTypeOK, listing_vars
<1> QED
  BY <1>1, <1>2, <1>3 DEF WhitelistNext

LEMMA OthersKeepListing ==
  ListedNext \/ RestOfController => UNCHANGED listing_vars
  BY DEF ListedNext, RestOfController, RegisterListed, MintListed

LEMMA NextListingTyped ==
  TypeOK /\ ListingTypeOK /\ [ListingNext]_all_listing_vars =>
    TypeOK' /\ ListingTypeOK'
<1> SUFFICES ASSUME TypeOK, ListingTypeOK, [ListingNext]_all_listing_vars
             PROVE  TypeOK' /\ ListingTypeOK'
  OBVIOUS
<1>1. TypeOK'
  BY ListingSteps, NextTypeOK, OutsideTyped
<1>2. CASE UNCHANGED listing_vars
  BY <1>1, <1>2 DEF ListingTypeOK, listing_vars
<1> QED
  BY <1>1, <1>2, FactoryTyped, WalletTyped, WhitelistTyped, OthersKeepListing
  DEF ListingNext, all_listing_vars

\* All accounts of the three programs keep their types in the composition,
\* whatever wallets do with the mints they own.
THEOREM ListingTyping == ListingSpec => [](TypeOK /\ ListingTypeOK)
<1>1. ListingInit => TypeOK /\ ListingTypeOK
  BY InitTypeOK DEF ListingInit, ListingTypeOK
<1> QED
  BY <1>1, NextListingTyped, PTL DEF ListingSpec

(***************************************************************************)
(* With the controller named, every mint is the controller's.              *)
(***************************************************************************)
OnlyController ==
  \A s \in Series : otoken[s] # NoAccount => otoken[s].mint_authority = ControllerPDA

LEMMA NobodyElseMints ==
  ASSUME ListingTypeOK, OnlyController, ControllerNamed, [ListingNext]_all_listing_vars
  PROVE  [Next]_vars /\ OnlyController'
<1>1. ~WalletNext
  BY DEF WalletNext, MintOutside, HandOver, HeldByWallet, OnlyController
<1>2. [Next]_vars
  BY <1>1, FactoryStutters, WhitelistSteps, ListedSteps, RestSteps
  DEF ListingNext, all_listing_vars
<1>3. ASSUME NEW k \in Signer, NEW r \in Series, CreateOtoken(k, r) PROVE OnlyController'
  <2>1. factory_config.controller = ControllerPDA
    BY <1>3 DEF CreateOtoken, ControllerNamed
  <2>2. \A s \in Series : \/ otoken'[s] = otoken[s]
                         \/ otoken'[s].mint_authority = ControllerPDA
    BY <1>3, <2>1 DEF CreateOtoken, ListingTypeOK
  <2> QED
    BY <2>2 DEF OnlyController
<1>4. CASE otoken' = otoken
  BY <1>2, <1>4 DEF OnlyController
<1>5. otoken' = otoken \/ \E k \in Signer, r \in Series : CreateOtoken(k, r)
  BY <1>1, OthersKeepListing
  DEF ListingNext, FactoryNext, WhitelistNext, InitializeFactory, SetController,
      SetOperator, InitializeWhitelist, SetFactory, WhitelistCreated,
      all_listing_vars, listing_vars
<1> QED
  BY <1>2, <1>3, <1>4, <1>5

\* The composition implements the controller, whoever lists the series, if the
\* factory was never told another address than the controller's.  A wallet's
\* mint is beyond it: its oTokens come to exist without the controller.
THEOREM ListingRefines == ListingSpec => ImplementsController
<1>1. ListingInit => Init /\ OnlyController
  BY DEF ListingInit, OnlyController
<1>2. /\ TypeOK /\ ListingTypeOK /\ OnlyController
      /\ ControllerNamed /\ [ListingNext]_all_listing_vars
      => [Next]_vars /\ OnlyController'
  BY NobodyElseMints
<1> QED
  BY <1>1, <1>2, ListingTyping, PTL DEF ListingSpec, ImplementsController, Spec

(***************************************************************************)
(* The vouchers.  Each step of the controller keeps supply and writings    *)
(* equal where they are (SupplyDrift); a wallet's mint changes the supply   *)
(* of a series that was not made for the controller.                       *)
(***************************************************************************)
CreatedInTime(s) ==
  otoken[s] # NoAccount =>
    /\ Terms[s].strike_price > 0
    /\ Terms[s].expiry > otoken[s].created_at + MinLifetime

MadeForController(s) ==
  otoken[s] # NoAccount => otoken[s].created_for = ControllerPDA

\* A mint made for the controller stays with it.
Kept(s) == MadeForController(s) => ~HeldByWallet(s)

Chain(s) ==
  /\ \A v \in VaultKey : Wrote(v, s) => Registered(s) /\ MintSigned(s)
  /\ Registered(s) => s \in whitelisted
  /\ s \in whitelisted => otoken[s] # NoAccount
  /\ CreatedInTime(s)
  /\ Kept(s)
  /\ MadeForController(s) => SupplyOf(s) = WrittenOf(s)

VouchedInv == \A s \in Series : Chain(s)

LEMMA InvIsVouched == VouchedInv => Vouched
  BY DEF VouchedInv, Chain, CreatedInTime, MadeForController, Vouched, Written,
         SupplyOf, WrittenOf, Shorts, Writers

LEMMA ListingInitChain == ListingInit => Collateralised /\ VouchedInv
<1> SUFFICES ASSUME ListingInit PROVE Collateralised /\ VouchedInv
  OBVIOUS
<1>1. Init
  BY DEF ListingInit
<1>2. \A v \in VaultKey : ~Exists(v)
  BY <1>1 DEF Init, Exists
<1>3. \A s \in Series : SupplyOf(s) = WrittenOf(s)
  BY <1>1, InitAccounted, AccountedByParts
<1>4. \A s \in Series : ~Registered(s) /\ otoken[s] = NoAccount /\ s \notin whitelisted
  BY <1>1 DEF ListingInit, Init, Registered
<1>5. ASSUME NEW s \in Series PROVE Chain(s)
  BY <1>2, <1>3, <1>4 DEF Chain, Wrote, CreatedInTime, Kept, HeldByWallet
<1> QED
  BY <1>2, <1>5 DEF VouchedInv, Collateralised, Short

(***************************************************************************)
(* What steps of the controller do to the parts of the chain.              *)
(***************************************************************************)
LEMMA StillAccounted ==
  ASSUME TypeOK, Collateralised, [Next]_vars, NEW s \in Series,
         SupplyOf(s) = WrittenOf(s)
  PROVE  SupplyOf(s)' = WrittenOf(s)'
<1>1. SupplyOf(s) \in Nat /\ SupplyOf(s)' \in Nat /\ WrittenOf(s)' \in Nat
  BY NextTypeOK, SuppliesTyped, SuppliesTypedNext
<1> QED
  BY <1>1, SupplyDrift

\* A step of the controller that lists nothing and binds no vault.
LEMMA NothingListed ==
  ASSUME TypeOK, Collateralised, VouchedInv, [Next]_vars, UNCHANGED listing_vars,
         whitelisted' = whitelisted,
         \A s \in Series : expiry_price[s] # NoAccount <=> expiry_price'[s] # NoAccount,
         \A s \in Series, v \in VaultKey : Wrote(v, s)' => Wrote(v, s)
  PROVE  VouchedInv'
<1> SUFFICES ASSUME NEW s \in Series PROVE Chain(s)'
  BY DEF VouchedInv
<1>1. Chain(s)
  BY DEF VouchedInv
<1>2. /\ Registered(s)' = Registered(s)
      /\ MintSigned(s)' = MintSigned(s)
      /\ CreatedInTime(s)' = CreatedInTime(s)
      /\ MadeForController(s)' = MadeForController(s)
      /\ Kept(s)' = Kept(s)
      /\ otoken'[s] = otoken[s]
  BY DEF Registered, MintSigned, CreatedInTime, MadeForController, Kept, HeldByWallet,
         listing_vars
<1>3. SupplyOf(s) = WrittenOf(s) => SupplyOf(s)' = WrittenOf(s)'
  BY StillAccounted
<1> QED
  BY <1>1, <1>2, <1>3 DEF Chain

(***************************************************************************)
(* The steps of the composition.                                           *)
(***************************************************************************)
\* Nothing of the controller changes, and this series' mint neither.
LEMMA ChainStays ==
  ASSUME UNCHANGED vars, NEW s \in Series, Chain(s), otoken'[s] = otoken[s]
  PROVE  Chain(s)'
<1>1. /\ balance' = balance /\ expiry_price' = expiry_price /\ vault' = vault
      /\ whitelisted' = whitelisted /\ redeemed' = redeemed
  BY DEF vars, accounts, outside, history
<1>2. /\ SupplyOf(s)' = SupplyOf(s) /\ WrittenOf(s)' = WrittenOf(s)
      /\ \A v \in VaultKey : Wrote(v, s)' = Wrote(v, s)
  BY <1>1 DEF SupplyOf, Supply, WrittenOf, Shorts, Writers, Wrote, Exists
<1> QED
  BY <1>1, <1>2 DEF Chain, CreatedInTime, Registered, MintSigned, MadeForController,
                    Kept, HeldByWallet

LEMMA FactoryChain ==
  ASSUME TypeOK, ListingTypeOK, VouchedInv, FactoryNext
  PROVE  VouchedInv'
<1>0. UNCHANGED vars
  BY FactoryStutters
<1>1. CASE otoken' = otoken
  BY <1>0, <1>1, ChainStays DEF VouchedInv
<1>2. ASSUME NEW k \in Signer, NEW s \in Series, CreateOtoken(k, s) PROVE VouchedInv'
  <2> SUFFICES ASSUME NEW r \in Series PROVE Chain(r)'
    BY DEF VouchedInv
  <2>1. Chain(r)
    BY DEF VouchedInv
  <2>2. CASE r # s
    <3>1. otoken'[r] = otoken[r]
      BY <1>2, <2>2 DEF CreateOtoken, ListingTypeOK
    <3> QED
      BY <1>0, <2>1, <3>1, ChainStays
  <2>3. CASE r = s
    <3>1. otoken[s] = NoAccount /\ Terms[s].strike_price > 0 /\ LongEnough(s)
      BY <1>2 DEF CreateOtoken
    <3>2. /\ ~Registered(s) /\ s \notin whitelisted
          /\ \A v \in VaultKey : ~Wrote(v, s)
          /\ SupplyOf(s) = WrittenOf(s)
      BY <2>1, <2>3, <3>1 DEF Chain, MadeForController
    <3>3. /\ otoken'[s].created_at = now
          /\ otoken'[s].created_for = factory_config.controller
          /\ otoken'[s].mint_authority = factory_config.controller
      BY <1>2 DEF CreateOtoken, ListingTypeOK
    <3>4. CreatedInTime(s)' /\ Kept(s)'
      BY <3>1, <3>3 DEF CreatedInTime, LongEnough, Kept, HeldByWallet, MadeForController
    <3>5. /\ balance' = balance /\ expiry_price' = expiry_price /\ vault' = vault
          /\ whitelisted' = whitelisted /\ redeemed' = redeemed
      BY <1>0 DEF vars, accounts, outside, history
    <3>6. /\ SupplyOf(s)' = SupplyOf(s) /\ WrittenOf(s)' = WrittenOf(s)
          /\ \A v \in VaultKey : Wrote(v, s)' = Wrote(v, s)
      BY <3>5 DEF SupplyOf, Supply, WrittenOf, Shorts, Writers, Wrote, Exists
    <3> QED
      BY <2>3, <3>2, <3>4, <3>5, <3>6 DEF Chain, Registered
  <2> QED
    BY <2>2, <2>3
<1> QED
  BY <1>1, <1>2 DEF FactoryNext, InitializeFactory, SetController, SetOperator

\* A wallet mints of its own mint, or hands it over: vaults that wrote the
\* series would have had the controller's signature, so there are none.
LEMMA WalletChain ==
  ASSUME TypeOK, ListingTypeOK, VouchedInv, WalletNext
  PROVE  VouchedInv'
<1>1. ASSUME NEW s \in Series, NEW to \in Key, NEW n \in 1..MaxU64, MintOutside(s, to, n)
      PROVE  VouchedInv'
  <2> SUFFICES ASSUME NEW r \in Series PROVE Chain(r)'
    BY DEF VouchedInv
  <2>1. Chain(r)
    BY DEF VouchedInv
  <2>2. /\ expiry_price' = expiry_price /\ vault' = vault /\ whitelisted' = whitelisted
        /\ redeemed' = redeemed /\ otoken' = otoken
        /\ balance' = [balance EXCEPT ![s] = Minted(@, to, n)]
    BY <1>1 DEF MintOutside, accounts, outside, history, listing_vars
  <2>3. /\ WrittenOf(r)' = WrittenOf(r)
        /\ \A v \in VaultKey : Wrote(v, r)' = Wrote(v, r)
    BY <2>2 DEF WrittenOf, Shorts, Writers, Wrote, Exists
  <2>4. MadeForController(r) => SupplyOf(r)' = SupplyOf(r)
    <3>1. CASE r = s
      <4>1. ~MadeForController(s)
        BY <1>1, <2>1, <3>1 DEF MintOutside, Chain, Kept
      <4> QED
        BY <3>1, <4>1
    <3>2. CASE r # s
      <4>1. balance'[r] = balance[r]
        BY <2>2, <3>2 DEF TypeOK
      <4> QED
        BY <2>2, <4>1 DEF SupplyOf, Supply
    <3> QED
      BY <3>1, <3>2
  <2> QED
    BY <2>1, <2>2, <2>3, <2>4 DEF Chain, CreatedInTime, Registered, MintSigned,
                                  MadeForController, Kept, HeldByWallet
<1>2. ASSUME NEW s \in Series, NEW authority \in Authorities, HandOver(s, authority)
      PROVE  VouchedInv'
  <2> SUFFICES ASSUME NEW r \in Series PROVE Chain(r)'
    BY DEF VouchedInv
  <2>0. UNCHANGED vars
    BY <1>2 DEF HandOver
  <2>1. Chain(r)
    BY DEF VouchedInv
  <2>2. CASE r # s
    <3>1. otoken'[r] = otoken[r]
      BY <1>2, <2>2 DEF HandOver, ListingTypeOK
    <3> QED
      BY <2>0, <2>1, <3>1, ChainStays
  <2>3. CASE r = s
    <3>1. HeldByWallet(s) /\ otoken[s] \in OToken
      BY <1>2 DEF HandOver, HeldByWallet, ListingTypeOK
    <3>2. otoken'[s] = [otoken[s] EXCEPT !.mint_authority = authority]
      BY <1>2 DEF HandOver, ListingTypeOK
    <3>3. /\ otoken'[s].created_for = otoken[s].created_for
          /\ otoken'[s].created_at = otoken[s].created_at
      BY <3>1, <3>2 DEF OToken
    <3>4. otoken'[s] # NoAccount
      <4>1. otoken'[s] \in OToken
        BY <3>1, <3>2 DEF OToken
      <4> QED
        BY <4>1, ListingAccountAssumption
    <3>5. ~MadeForController(s) /\ ~MintSigned(s)
      BY <2>1, <2>3, <3>1 DEF Chain, Kept, HeldByWallet, MintSigned
    <3>6. ~MadeForController(s)' /\ CreatedInTime(s)'
      BY <2>1, <2>3, <3>1, <3>3, <3>4, <3>5
      DEF Chain, MadeForController, CreatedInTime, HeldByWallet
    <3>7. /\ expiry_price' = expiry_price /\ vault' = vault /\ whitelisted' = whitelisted
      BY <2>0 DEF vars, accounts, outside
    <3>8. \A v \in VaultKey : ~Wrote(v, s)'
      BY <2>1, <2>3, <3>5, <3>7 DEF Chain, Wrote, Exists
    <3> QED
      BY <2>1, <2>3, <3>4, <3>6, <3>7, <3>8 DEF Chain, Kept, Registered
  <2> QED
    BY <2>2, <2>3
<1> QED
  BY <1>1, <1>2 DEF WalletNext

LEMMA WhitelistChain ==
  ASSUME VouchedInv, WhitelistNext
  PROVE  VouchedInv'
<1>1. ASSUME UNCHANGED vars, otoken' = otoken PROVE VouchedInv'
  BY <1>1, ChainStays DEF VouchedInv
<1>2. ASSUME NEW k \in Signer, NEW s \in Series, WhitelistCreated(k, s)
      PROVE  VouchedInv'
  <2> SUFFICES ASSUME NEW r \in Series PROVE Chain(r)'
    BY DEF VouchedInv
  <2>1. Chain(r)
    BY DEF VouchedInv
  <2>2. /\ balance' = balance /\ expiry_price' = expiry_price /\ otoken' = otoken
        /\ vault' = vault /\ redeemed' = redeemed
        /\ whitelisted' = whitelisted \cup {s} /\ otoken[s] # NoAccount
    BY <1>2 DEF WhitelistCreated, WhitelistOtoken, accounts, history, listing_vars
  <2>3. /\ SupplyOf(r)' = SupplyOf(r) /\ WrittenOf(r)' = WrittenOf(r)
        /\ \A v \in VaultKey : Wrote(v, r)' = Wrote(v, r)
    BY <2>2 DEF SupplyOf, Supply, WrittenOf, Shorts, Writers, Wrote, Exists
  <2> QED
    BY <2>1, <2>2, <2>3 DEF Chain, CreatedInTime, Registered, MintSigned,
                            MadeForController, Kept, HeldByWallet
<1> QED
  BY <1>1, <1>2 DEF WhitelistNext, InitializeWhitelist, SetFactory

LEMMA ListedChain ==
  ASSUME TypeOK, Collateralised, VouchedInv, ListedNext
  PROVE  VouchedInv'
<1>1. ASSUME NEW k \in Signer, NEW s \in Series, RegisterListed(k, s)
      PROVE  VouchedInv'
  <2> SUFFICES ASSUME NEW r \in Series PROVE Chain(r)'
    BY DEF VouchedInv
  <2>1. Chain(r)
    BY DEF VouchedInv
  <2>2. /\ balance' = balance /\ otoken' = otoken /\ whitelisted' = whitelisted
        /\ vault' = vault /\ redeemed' = redeemed
        /\ s \in whitelisted
        /\ expiry_price' = [expiry_price EXCEPT ![s] = 0]
    BY <1>1 DEF RegisterListed, CreateOTokenInfo, outside, history, listing_vars
  <2>3. /\ Registered(r) => Registered(r)'
        /\ Registered(r)' => Registered(r) \/ r = s
    <3>1. NoAccount # 0 /\ expiry_price \in [Series -> (0..MaxU64) \cup {NoAccount}]
      BY ControllerAssumption DEF TypeOK
    <3> QED
      BY <2>2, <3>1 DEF Registered
  <2>4. /\ SupplyOf(r)' = SupplyOf(r) /\ WrittenOf(r)' = WrittenOf(r)
        /\ \A v \in VaultKey : Wrote(v, r)' = Wrote(v, r)
    BY <2>2 DEF SupplyOf, Supply, WrittenOf, Shorts, Writers, Wrote, Exists
  <2> QED
    BY <2>1, <2>2, <2>3, <2>4 DEF Chain, CreatedInTime, MintSigned,
                                  MadeForController, Kept, HeldByWallet
<1>2. ASSUME NEW k \in Key, NEW id \in VaultId, NEW s \in Series, NEW d \in Key,
             NEW n \in 1..MaxU64, MintListed(k, id, s, d, n)
      PROVE  VouchedInv'
  <2> SUFFICES ASSUME NEW r \in Series PROVE Chain(r)'
    BY DEF VouchedInv
  <2>1. Chain(r)
    BY DEF VouchedInv
  <2>2. MintOtoken(k, id, s, d, n) /\ MintSigned(s) /\ UNCHANGED listing_vars
    BY <1>2 DEF MintListed
  <2>3. /\ expiry_price' = expiry_price /\ otoken' = otoken
        /\ whitelisted' = whitelisted
    BY <2>2 DEF MintOtoken, outside, listing_vars
  <2>4. Registered(s)
    BY <2>2 DEF MintOtoken, CanMint, MintFits, Registered
  <2>5. [Next]_vars
    BY <2>2 DEF Next, MintNext
  <2>6. ASSUME NEW v \in VaultKey, Wrote(v, r)' PROVE Wrote(v, r) \/ r = s
    <3>1. /\ vault'[<<k, id>>].otoken_mint = s
          /\ \A u \in VaultKey : u # <<k, id>> => vault'[u] = vault[u]
      BY <2>2, MintedVault
    <3> QED
      BY <2>6, <3>1 DEF Wrote, Exists
  <2>7. SupplyOf(r) = WrittenOf(r) => SupplyOf(r)' = WrittenOf(r)'
    BY <2>5, StillAccounted
  <2> QED
    BY <2>1, <2>2, <2>3, <2>4, <2>6, <2>7 DEF Chain, CreatedInTime, Registered,
       MintSigned, MadeForController, Kept, HeldByWallet
<1> QED
  BY <1>1, <1>2 DEF ListedNext

LEMMA RestListsNothing ==
  ASSUME TypeOK, RestNext
  PROVE  /\ whitelisted' = whitelisted
         /\ \A s \in Series :
              expiry_price[s] # NoAccount <=> expiry_price'[s] # NoAccount
<1>1. ASSUME NEW k \in Key, NEW r \in Series, SetExpiryPrice(k, r),
             NEW s \in Series
      PROVE  expiry_price[s] # NoAccount <=> expiry_price'[s] # NoAccount
  BY <1>1, ControllerAssumption DEF SetExpiryPrice, TypeOK
<1>2. \/ expiry_price' = expiry_price
      \/ \E k \in Key, r \in Series : SetExpiryPrice(k, r)
  BY DEF RestNext, AdminNext, OwnerNext, HolderNext, ChainNext, accounts,
         Initialize, InitializeCounter, SetPartialPauser, SetPartiallyPaused,
         SetFullyPaused, OpenVault, DepositCollateral, SettleVault, Redeem,
         EmergencyWithdrawVault, TransferTokens, FinalizeOraclePrice, TurnFeeOn, Tick
<1>3. whitelisted' = whitelisted
  BY DEF RestNext, AdminNext, OwnerNext, HolderNext, ChainNext, outside,
         Initialize, InitializeCounter, SetPartialPauser, SetPartiallyPaused,
         SetFullyPaused, OpenVault, DepositCollateral, SettleVault, Redeem,
         SetExpiryPrice, EmergencyWithdrawVault, TransferTokens,
         FinalizeOraclePrice, TurnFeeOn, Tick
<1> QED
  BY <1>1, <1>2, <1>3

\* A vault is bound to a series by mint_otoken alone.
LEMMA RestBindsNothing ==
  ASSUME TypeOK, RestNext, NEW s \in Series, NEW v \in VaultKey, Wrote(v, s)'
  PROVE  Wrote(v, s)
<1> SUFFICES ASSUME ~Wrote(v, s) PROVE FALSE
  OBVIOUS
<1>1. CASE vault' = vault
  BY <1>1 DEF Wrote, Exists
<1>2. ASSUME NEW k \in Key, NEW b \in Key, NEW m \in Mint, OpenVault(k, m, b)
      PROVE  FALSE
  <2>1. PICK w : w = <<k, next_id[k]>>
    OBVIOUS
  <2>2. vault' = [vault EXCEPT ![w] = OpenedVault(m, b)]
    BY <1>2, <2>1 DEF OpenVault
  <2>3. CASE v # w
    BY <2>2, <2>3 DEF TypeOK, Wrote, Exists
  <2>4. CASE v = w
    BY <2>2, <2>4, DefaultNotSeries DEF TypeOK, Wrote, Exists, OpenedVault
  <2> QED
    BY <2>3, <2>4
<1>3. ASSUME NEW k \in Key, NEW id \in VaultId, NEW p \in PoolAccount,
             NEW n \in 1..MaxU64, DepositCollateral(k, id, p, n)
      PROVE  FALSE
  <2>1. PICK w : w = <<k, id>>
    OBVIOUS
  <2>2. w \in VaultKey /\ Exists(w) /\ vault[w] \in Vault
    BY <1>3, <2>1, VaultNotNoAccount DEF DepositCollateral, VaultKey
  <2>3. vault' = [vault EXCEPT ![w] = [vault[w] EXCEPT !.collateral_amount = @ + n]]
    BY <1>3, <2>1 DEF DepositCollateral, WithCollateral
  <2>4. [vault[w] EXCEPT !.collateral_amount = @ + n].otoken_mint = vault[w].otoken_mint
    BY <2>2 DEF Vault
  <2> QED
    BY <2>2, <2>3, <2>4 DEF TypeOK, Wrote, Exists
<1>4. ASSUME NEW w \in VaultKey, Exists(w), vault' = [vault EXCEPT ![w].settled = TRUE]
      PROVE  FALSE
  <2>1. vault[w] \in Vault /\ vault'[w] = [vault[w] EXCEPT !.settled = TRUE]
    BY <1>4, VaultNotNoAccount DEF TypeOK
  <2>2. vault'[w].otoken_mint = vault[w].otoken_mint
    BY <2>1, ClosedVault
  <2>3. v # w => vault'[v] = vault[v]
    BY <1>4 DEF TypeOK
  <2> QED
    BY <1>4, <2>2, <2>3 DEF Wrote, Exists
<1>5. ASSUME NEW k \in Key, NEW w \in VaultKey, NEW p \in PoolAccount,
             SettleVault(k, w, p)
      PROVE  FALSE
  BY <1>4, <1>5 DEF SettleVault
<1>6. ASSUME NEW k \in Key, NEW id \in VaultId, NEW p \in PoolAccount,
             EmergencyWithdrawVault(k, id, p)
      PROVE  FALSE
  <2>1. <<k, id>> \in VaultKey
    BY DEF VaultKey
  <2> QED
    BY <1>4, <1>6, <2>1 DEF EmergencyWithdrawVault, CanEmergencyWithdraw
<1>7. \/ vault' = vault
      \/ \E k, b \in Key, m \in Mint : OpenVault(k, m, b)
      \/ \E k \in Key, id \in VaultId, p \in PoolAccount, n \in 1..MaxU64 :
           DepositCollateral(k, id, p, n)
      \/ \E k \in Key, w \in VaultKey, p \in PoolAccount : SettleVault(k, w, p)
      \/ \E k \in Key, id \in VaultId, p \in PoolAccount :
           EmergencyWithdrawVault(k, id, p)
  BY DEF RestNext, AdminNext, OwnerNext, HolderNext, ChainNext, accounts,
     Initialize, InitializeCounter, SetPartialPauser, SetPartiallyPaused,
     SetFullyPaused, SetExpiryPrice, Redeem, FinalizeOraclePrice,
     TransferTokens, TurnFeeOn, Tick
<1> QED
  BY <1>1, <1>2, <1>3, <1>5, <1>6, <1>7

LEMMA NextChain ==
  /\ TypeOK /\ ListingTypeOK /\ Collateralised /\ VouchedInv
  /\ [ListingNext]_all_listing_vars
  => Collateralised' /\ VouchedInv'
<1> SUFFICES ASSUME TypeOK, ListingTypeOK, Collateralised, VouchedInv,
                    [ListingNext]_all_listing_vars
             PROVE  Collateralised' /\ VouchedInv'
  OBVIOUS
<1>0. Collateralised'
  <2>1. CASE WalletMints
    <3>1. vault' = vault /\ expiry_price' = expiry_price
      BY <2>1 DEF WalletMints, MintOutside, accounts
    <3> QED
      BY <3>1 DEF Collateralised, Short, Backed, Exists
  <2> QED
    BY <2>1, ListingSteps, NextCollateralised
<1>1. CASE RestOfController
  <2>1. RestNext /\ UNCHANGED listing_vars /\ [Next]_vars
    BY <1>1, RestSteps DEF RestOfController
  <2>2. /\ whitelisted' = whitelisted
        /\ \A s \in Series : expiry_price[s] # NoAccount <=> expiry_price'[s] # NoAccount
    BY <2>1, RestListsNothing
  <2>3. ASSUME NEW s \in Series, NEW v \in VaultKey PROVE Wrote(v, s)' => Wrote(v, s)
    BY <2>1, RestBindsNothing
  <2> QED
    BY <1>0, <2>1, <2>2, <2>3, NothingListed
<1>2. CASE UNCHANGED all_listing_vars
  <2>1. UNCHANGED vars /\ otoken' = otoken
    BY <1>2 DEF all_listing_vars, listing_vars
  <2> QED
    BY <1>0, <2>1, ChainStays DEF VouchedInv
<1> QED
  BY <1>0, <1>1, <1>2, FactoryChain, WalletChain, WhitelistChain, ListedChain
  DEF ListingNext

\* No vault writes a series, and no series is registered or whitelisted, unless
\* every program before it in the chain vouched for it, and the oTokens of a
\* series the factory made for the controller are those that vaults wrote,
\* whatever wallets mint of theirs.
THEOREM VouchedTheorem == ListingSpec => []Vouched
<1>1. ListingInit => Collateralised /\ VouchedInv
  BY ListingInitChain
<1>2. VouchedInv => Vouched
  BY InvIsVouched
<1> QED
  BY <1>1, <1>2, NextChain, ListingTyping, PTL DEF ListingSpec
=============================================================================
