------------------------------ MODULE Listing -------------------------------
(***************************************************************************)
(* How a series comes to exist: the otoken_factory and whitelist programs  *)
(* (programs/otoken_factory/src/lib.rs, programs/whitelist/src/lib.rs)     *)
(* composed with the controller, which reads their accounts.               *)
(*                                                                         *)
(* A series goes through three programs, in three transactions: the        *)
(* factory creates its mint and terms, the whitelist an entry for it, the  *)
(* controller its OTokenInfo.  Controller.tla leaves open who may do the   *)
(* last two, and when; here they carry the authorities of the code.        *)
(*                                                                         *)
(* The factory gives the mint to the address it was told is the            *)
(* controller's, and nothing compares that address with the controller.    *)
(* If it is a wallet's key, the wallet owns the mint and uses it with the  *)
(* token program, without any of the three programs.                       *)
(***************************************************************************)
EXTENDS Controller

CONSTANTS
  ControllerPDA,   \* the controller_config PDA, which signs mint_to
  Authorities,     \* what the factory's admin calls set_controller with, and
                   \* whom a wallet hands a mint over to
  FactoryAdmins,   \* keys the factory is initialized with
  WhitelistAdmins, \* keys the whitelist is initialized with
  Operators,       \* keys the factory's admin appoints as operator
  FactoryKeys,     \* keys the whitelist's admin calls set_factory with
  MaxIssued,       \* bound on what a wallet ever mints of a series
  MinLifetime      \* MIN_OTOKEN_LIFETIME_SECS: 60 in the code

\* Whoever signs for one of the three programs, wallets of the protocol's
\* users or not.
Signer == Key \cup FactoryAdmins \cup WhitelistAdmins \cup Operators \cup FactoryKeys

FactoryConfig ==
  [admin : FactoryAdmins, controller : Authorities \cup {Default}, otoken_count : Nat]

WhitelistConfig == [admin : WhitelistAdmins, factory : FactoryKeys \cup {Default}]

\* An OToken account with its mint.  created_for, the mint's first authority,
\* and created_at are history.
OToken == [mint_authority : Authorities, created_for : Authorities, created_at : Time]

ASSUME ListingAssumption ==
  /\ Default \notin Authorities /\ Default \notin FactoryKeys
  /\ NoAccount \notin Operators
  /\ MaxIssued \in Nat /\ MinLifetime \in Nat

ASSUME ListingAccountAssumption ==
  NoAccount \notin FactoryConfig \cup WhitelistConfig \cup OToken

VARIABLES
  factory_config,   \* FactoryConfig, or NoAccount
  factory_operator, \* operator of the FactoryOperatorConfig, or NoAccount
  otoken,           \* [Series -> OToken, or NoAccount]
  whitelist_config  \* WhitelistConfig, or NoAccount

listing_vars == <<factory_config, factory_operator, otoken, whitelist_config>>

ListingInit ==
  /\ Init
  /\ factory_config = NoAccount
  /\ factory_operator = NoAccount
  /\ otoken = [s \in Series |-> NoAccount]
  /\ whitelist_config = NoAccount

-----------------------------------------------------------------------------
(* The factory.                                                            *)

IsFactoryAdmin(signer) ==
  factory_config # NoAccount /\ signer = factory_config.admin

\* Anybody's transaction names the admin.
InitializeFactory(admin) ==
  /\ factory_config = NoAccount
  /\ admin # Default
  /\ factory_config' = [admin |-> admin, controller |-> Default, otoken_count |-> 0]
  /\ UNCHANGED <<vars, factory_operator, otoken, whitelist_config>>

SetController(admin, controller) ==
  /\ IsFactoryAdmin(admin)
  /\ controller # Default
  /\ factory_config' = [factory_config EXCEPT !.controller = controller]
  /\ UNCHANGED <<vars, factory_operator, otoken, whitelist_config>>

\* The operator's account is created by the first call.
SetOperator(admin, operator) ==
  /\ IsFactoryAdmin(admin)
  /\ operator # Default
  /\ factory_operator' = operator
  /\ UNCHANGED <<vars, factory_config, otoken, whitelist_config>>

\* Mutant of LongEnough: the boundary is let through.
LongEnoughOrEqual(s) == Terms[s].expiry >= now + MinLifetime

LongEnough(s) == Terms[s].expiry > now + MinLifetime

IsFactoryOperator(signer) == factory_operator # NoAccount /\ signer = factory_operator

\* create_otoken writes the terms and makes the mint, once for each terms.
CreateOtoken(signer, s) ==
  /\ factory_config # NoAccount
  /\ factory_config.controller # Default
  /\ factory_operator # NoAccount
  /\ IsFactoryAdmin(signer) \/ IsFactoryOperator(signer)
  /\ Terms[s].strike_price > 0
  /\ LongEnough(s)
  /\ otoken[s] = NoAccount
  /\ otoken' = [otoken EXCEPT ![s] =
                 [mint_authority |-> factory_config.controller,
                  created_for |-> factory_config.controller, created_at |-> now]]
  /\ factory_config' = [factory_config EXCEPT !.otoken_count = @ + 1]
  /\ UNCHANGED <<vars, factory_operator, whitelist_config>>

-----------------------------------------------------------------------------
(* A mint made for a wallet's key, in the hands of that wallet.            *)

\* The controller's PDA signs for mint_otoken alone.
HeldByWallet(s) ==
  otoken[s] # NoAccount /\ otoken[s].mint_authority # ControllerPDA

MintOutside(s, to, n) ==
  /\ HeldByWallet(s)
  /\ SupplyFits(s, n)
  /\ Supply(s) + redeemed[s] + n <= MaxIssued
  /\ balance' = [balance EXCEPT ![s] = Minted(@, to, n)]
  /\ UNCHANGED <<accounts, outside, history, listing_vars>>

\* set_authority
HandOver(s, authority) ==
  /\ HeldByWallet(s)
  /\ otoken' = [otoken EXCEPT ![s].mint_authority = authority]
  /\ UNCHANGED <<vars, factory_config, factory_operator, whitelist_config>>

WalletNext ==
  \/ \E s \in Series, to \in Key, n \in 1..MaxU64 : MintOutside(s, to, n)
  \/ \E s \in Series, authority \in Authorities : HandOver(s, authority)

-----------------------------------------------------------------------------
(* The whitelist.                                                          *)

InitializeWhitelist(admin) ==
  /\ whitelist_config = NoAccount
  /\ admin # Default
  /\ whitelist_config' = [admin |-> admin, factory |-> Default]
  /\ UNCHANGED <<vars, factory_config, factory_operator, otoken>>

SetFactory(admin, factory) ==
  /\ whitelist_config # NoAccount
  /\ admin = whitelist_config.admin
  /\ factory # Default
  /\ whitelist_config' = [whitelist_config EXCEPT !.factory = factory]
  /\ UNCHANGED <<vars, factory_config, factory_operator, otoken>>

\* Mutant of MayWhitelist: only the key set as factory may.
MayWhitelistFactoryOnly(caller) ==
  /\ whitelist_config # NoAccount
  /\ whitelist_config.factory # Default /\ caller = whitelist_config.factory

MayWhitelist(caller) ==
  /\ whitelist_config # NoAccount
  /\ \/ caller = whitelist_config.admin
     \/ whitelist_config.factory # Default /\ caller = whitelist_config.factory
     \/ IsFactoryOperator(caller)

\* whitelist_otoken, with the factory's OToken of the mint.
WhitelistCreated(caller, s) ==
  /\ MayWhitelist(caller)
  /\ otoken[s] # NoAccount
  /\ WhitelistOtoken(s)
  /\ UNCHANGED listing_vars

-----------------------------------------------------------------------------
(* The controller's use of both.                                           *)

\* create_otoken_info
RegisterListed(signer, s) ==
  /\ IsAdmin(signer) \/ IsFactoryOperator(signer)
  /\ otoken[s] # NoAccount
  /\ CreateOTokenInfo(s)
  /\ UNCHANGED listing_vars

\* mint_to is signed by the controller's PDA and fails for any other mint
\* authority.
MintSigned(s) == otoken[s] # NoAccount /\ otoken[s].mint_authority = ControllerPDA

MintListed(k, id, s, d, n) ==
  /\ MintSigned(s)
  /\ MintOtoken(k, id, s, d, n)
  /\ UNCHANGED listing_vars

FactoryNext ==
  \/ \E k \in FactoryAdmins : InitializeFactory(k)
  \/ \E k \in FactoryAdmins, c \in Authorities : SetController(k, c)
  \/ \E k \in FactoryAdmins, o \in Operators : SetOperator(k, o)
  \/ \E k \in Signer, s \in Series : CreateOtoken(k, s)

WhitelistNext ==
  \/ \E k \in WhitelistAdmins : InitializeWhitelist(k)
  \/ \E k \in WhitelistAdmins, f \in FactoryKeys : SetFactory(k, f)
  \/ \E k \in Signer, s \in Series : WhitelistCreated(k, s)

ListedNext ==
  \/ \E k \in Signer, s \in Series : RegisterListed(k, s)
  \/ \E k \in Key, id \in VaultId, s \in Series, d \in Key, n \in 1..MaxU64 :
       MintListed(k, id, s, d, n)

\* What the controller does without asking either program.
RestNext ==
  \/ \E k \in Key : Initialize(k)
  \/ AdminNext(Key) \/ OwnerNext(Key) \/ HolderNext(Key) \/ ChainNext

RestOfController == RestNext /\ UNCHANGED listing_vars

ListingNext ==
  FactoryNext \/ WalletNext \/ WhitelistNext \/ ListedNext \/ RestOfController

all_listing_vars == <<vars, listing_vars>>

ListingSpec == ListingInit /\ [][ListingNext]_all_listing_vars

OperatorWhitelists(s) ==
  \E o \in Operators : IsFactoryOperator(o) /\ WhitelistCreated(o, s)

OperatorRegisters(s) ==
  \E o \in Operators : IsFactoryOperator(o) /\ RegisterListed(o, s)

\* The backend's operator bots list what was created.  Everybody else, the
\* three admins among them where they list series themselves, acts when he
\* pleases.
ListingFairness ==
  \A s \in Series :
    /\ WF_all_listing_vars(OperatorWhitelists(s))
    /\ WF_all_listing_vars(OperatorRegisters(s))

ListingFairSpec == ListingSpec /\ ListingFairness

-----------------------------------------------------------------------------
(* Properties.                                                             *)

Registered(s) == expiry_price[s] # NoAccount

ListingTypeOK ==
  /\ factory_config \in FactoryConfig \cup {NoAccount}
  /\ factory_operator \in Operators \cup {NoAccount}
  /\ otoken \in [Series -> OToken \cup {NoAccount}]
  /\ whitelist_config \in WhitelistConfig \cup {NoAccount}

\* The factory's admin never named anything but the controller's PDA.
ControllerNamed ==
  factory_config # NoAccount => factory_config.controller \in {Default, ControllerPDA}

\* What the vaults wrote of a series.
Written(s) ==
  Total([v \in VaultKey |-> vault[v].short_amount], {v \in VaultKey : Wrote(v, s)})

\* The chain of vouchers across the three programs, each of which only reads
\* the account before it: a series that any vault wrote was registered and has
\* a mint the controller signs for; a registered series was whitelisted; a
\* whitelisted one was created by the factory, with a strike, more than the
\* minimum lifetime before its expiry.  And the oTokens of a series,
\* circulating or redeemed, are those its vaults wrote, unless the factory
\* made its mint for another key than the controller's: later choices of that
\* address, handovers between wallets and mints of other series do not matter.
Vouched ==
  \A s \in Series :
    /\ \A v \in VaultKey : Wrote(v, s) => Registered(s) /\ MintSigned(s)
    /\ Registered(s) => s \in whitelisted
    /\ s \in whitelisted =>
         /\ otoken[s] # NoAccount
         /\ Terms[s].strike_price > 0
         /\ Terms[s].expiry > otoken[s].created_at + MinLifetime
    /\ Supply(s) + redeemed[s] # Written(s) =>
         /\ otoken[s] # NoAccount
         /\ otoken[s].created_for # ControllerPDA

\* Once a series that the controller supports was created and the three
\* programs are configured, it gets its whitelist entry and its metadata from
\* the operator alone, who is no admin of any program, may have been appointed
\* after the series was created and may be replaced between any two steps.
ListingCompletes ==
  \A s \in Series :
    (/\ otoken[s] # NoAccount /\ whitelist_config # NoAccount /\ Initialized
     /\ DecimalsSupported(Terms[s]))
      ~> Registered(s)

\* If the factory only ever makes mints for the controller, the composition is
\* a controller whose environment lists series when the authorities say so,
\* and everything that holds of Controller's Spec holds here.
ImplementsController == []ControllerNamed => Spec
=============================================================================
