------------------------------- MODULE Oracle -------------------------------
(***************************************************************************)
(* The oracle program (programs/oracle/src/lib.rs): feed registration,     *)
(* validation of a Pyth price update, and the one-time finalization of the *)
(* price an underlying's options settle at.                                *)
(*                                                                         *)
(* Pyth is external: the price of an underlying at each time, Market, is   *)
(* what its signed updates say, and anybody may post any of them at any    *)
(* later time, so an old update stays available next to newer ones.        *)
(***************************************************************************)
EXTENDS OracleMath

CONSTANTS
  Key, Default, NoAccount,
  Underlying,
  Market,          \* [Underlying -> [Time -> [price, conf, exponent]]]
  Expiries,        \* expiries prices are finalized for
  SubmittedPrices, \* prices an operator submits
  Thresholds,      \* deviation thresholds an admin sets, in bps
  Stalenesses,     \* staleness limits an admin sets
  Confidences,     \* confidence limits an admin sets, in bps
  MaxTime          \* bound on the clock

Time   == 0..MaxTime
Fixing == Underlying \X Expiries

ASSUME OracleAssumption ==
  /\ Default \notin Key
  /\ NoAccount \notin Nat
  /\ MaxTime \in Nat /\ Expiries \subseteq Time
  /\ SubmittedPrices \subseteq Nat
  /\ Thresholds \subseteq Nat /\ Stalenesses \subseteq Nat /\ Confidences \subseteq Nat
  /\ Bps \in Nat \ {0} /\ MaxU64 \in Nat
  /\ Market \in [Underlying -> [Time -> [price : Int, conf : Nat, exponent : Int]]]

VARIABLES
  config,        \* OracleConfig, or NoAccount
  feed,          \* [Underlying -> the active flag of the PriceFeed, or NoAccount]
  expiry_price,  \* [Fixing -> price of the ExpiryPrice, or NoAccount]
  now,
  evidence       \* history: [Fixing -> what the price was checked against]

vars == <<config, feed, expiry_price, now, evidence>>

Config ==
  [admin : Key, pending_admin : Key \cup {Default}, operator : Key \cup {Default},
   max_staleness_secs : Stalenesses, max_confidence_bps : Confidences,
   price_deviation_threshold_bps : Thresholds]

Evidence == [at : Time, limits : Config]

ASSUME OracleAccountAssumption == NoAccount \notin Config \cup Evidence

Init ==
  /\ config = NoAccount
  /\ feed = [u \in Underlying |-> NoAccount]
  /\ expiry_price = [f \in Fixing |-> NoAccount]
  /\ now = 0
  /\ evidence = [f \in Fixing |-> NoAccount]

IsAdmin(signer) == config # NoAccount /\ signer = config.admin

MayFinalize(caller) ==
  config # NoAccount /\ caller \in {config.admin, config.operator}

Initialize(admin, operator, staleness, confidence, threshold) ==
  /\ config = NoAccount
  /\ admin # Default
  /\ threshold > 0
  /\ config' = [admin |-> admin, pending_admin |-> Default, operator |-> operator,
                max_staleness_secs |-> staleness,
                max_confidence_bps |-> confidence,
                price_deviation_threshold_bps |-> threshold]
  /\ UNCHANGED <<feed, expiry_price, now, evidence>>

RegisterFeed(admin, u) ==
  /\ IsAdmin(admin)
  /\ feed[u] = NoAccount
  /\ feed' = [feed EXCEPT ![u] = TRUE]
  /\ UNCHANGED <<config, expiry_price, now, evidence>>

DeregisterFeed(admin, u) ==
  /\ IsAdmin(admin)
  /\ feed[u] # NoAccount
  /\ feed[u]
  /\ feed' = [feed EXCEPT ![u] = FALSE]
  /\ UNCHANGED <<config, expiry_price, now, evidence>>

SetFeedActive(admin, u, active) ==
  /\ IsAdmin(admin)
  /\ feed[u] # NoAccount
  /\ feed' = [feed EXCEPT ![u] = active]
  /\ UNCHANGED <<config, expiry_price, now, evidence>>

-----------------------------------------------------------------------------
(* A Pyth update for u published at time t, and what get_price and         *)
(* set_expiry_price both require of it.                                    *)

Update(u, t) == Market[u][t]

\* Parsing refuses an account of another program, of another layout or of
\* another feed; what is left is an update of u's own feed, with a price
\* that must be positive.
ValidUpdate(u, t) ==
  LET pyth == Update(u, t)
  IN /\ feed[u] # NoAccount
     /\ feed[u]
     /\ pyth.price > 0
     /\ Fresh(now, t, config.max_staleness_secs)
     /\ Confident(pyth.price, pyth.conf, config.max_confidence_bps)
     /\ Normalizable(pyth.price, pyth.exponent)

NormalizedUpdate(u, t) == Normalized(Update(u, t).price, Update(u, t).exponent)

\* Mutant of Unfinalized: the account may exist already.
Refinalizable(f) == TRUE

\* The ExpiryPrice account is created by the instruction.
Unfinalized(f) == expiry_price[f] = NoAccount

SetExpiryPrice(caller, u, expiry, price, t) ==
  LET f == <<u, expiry>>
  IN /\ MayFinalize(caller)
     /\ Unfinalized(f)
     /\ price > 0
     /\ now >= expiry
     /\ config.price_deviation_threshold_bps > 0
     /\ ValidUpdate(u, t)
     /\ WithinDeviation(price, NormalizedUpdate(u, t),
                        config.price_deviation_threshold_bps)
     /\ expiry_price' = [expiry_price EXCEPT ![f] = price]
     /\ evidence' = [evidence EXCEPT ![f] =
                       [at |-> now, limits |-> config]]
     /\ UNCHANGED <<config, feed, now>>

-----------------------------------------------------------------------------
(* Administration.                                                         *)

SetOperator(admin, operator) ==
  /\ IsAdmin(admin)
  /\ operator # Default
  /\ config' = [config EXCEPT !.operator = operator]
  /\ UNCHANGED <<feed, expiry_price, now, evidence>>

SetPriceDeviationThreshold(admin, threshold) ==
  /\ IsAdmin(admin)
  /\ threshold > 0
  /\ config' = [config EXCEPT !.price_deviation_threshold_bps = threshold]
  /\ UNCHANGED <<feed, expiry_price, now, evidence>>

SetMaxStaleness(admin, staleness) ==
  /\ IsAdmin(admin)
  /\ config' = [config EXCEPT !.max_staleness_secs = staleness]
  /\ UNCHANGED <<feed, expiry_price, now, evidence>>

SetMaxConfidence(admin, confidence) ==
  /\ IsAdmin(admin)
  /\ config' = [config EXCEPT !.max_confidence_bps = confidence]
  /\ UNCHANGED <<feed, expiry_price, now, evidence>>

TransferOwnership(admin, new_admin) ==
  /\ IsAdmin(admin)
  /\ new_admin # Default
  /\ config' = [config EXCEPT !.pending_admin = new_admin]
  /\ UNCHANGED <<feed, expiry_price, now, evidence>>

\* Mutant of AcceptOwnership: the nomination is cleared before it is used.
AcceptOwnershipCleared(new_admin) ==
  /\ config # NoAccount
  /\ new_admin = config.pending_admin
  /\ config' = [config EXCEPT !.pending_admin = Default, !.admin = Default]
  /\ UNCHANGED <<feed, expiry_price, now, evidence>>

AcceptOwnership(new_admin) ==
  /\ config # NoAccount
  /\ new_admin = config.pending_admin
  /\ config' = [config EXCEPT !.admin = config.pending_admin,
                              !.pending_admin = Default]
  /\ UNCHANGED <<feed, expiry_price, now, evidence>>

Tick ==
  /\ now < MaxTime
  /\ now' = now + 1
  /\ UNCHANGED <<config, feed, expiry_price, evidence>>

Next ==
  \/ \E k \in Key, o \in Key \cup {Default}, s \in Stalenesses,
       c \in Confidences, d \in Thresholds : Initialize(k, o, s, c, d)
  \/ \E k \in Key, u \in Underlying : RegisterFeed(k, u) \/ DeregisterFeed(k, u)
  \/ \E k \in Key, u \in Underlying, active \in BOOLEAN : SetFeedActive(k, u, active)
  \/ \E k \in Key, u \in Underlying, expiry \in Expiries,
       price \in SubmittedPrices, t \in Time : SetExpiryPrice(k, u, expiry, price, t)
  \/ \E k, o \in Key : SetOperator(k, o) \/ TransferOwnership(k, o)
  \/ \E k \in Key, d \in Thresholds : SetPriceDeviationThreshold(k, d)
  \/ \E k \in Key, s \in Stalenesses : SetMaxStaleness(k, s)
  \/ \E k \in Key, c \in Confidences : SetMaxConfidence(k, c)
  \/ \E k \in Key : AcceptOwnership(k)
  \/ Tick

Spec == Init /\ [][Next]_vars

-----------------------------------------------------------------------------
(* Properties.                                                             *)

\* Every account of the oracle keeps its type; in particular the admin is a
\* wallet after any sequence of nominations and acceptances.
TypeOK ==
  /\ config \in Config \cup {NoAccount}
  /\ feed \in [Underlying -> BOOLEAN \cup {NoAccount}]
  /\ expiry_price \in [Fixing -> SubmittedPrices \cup {NoAccount}]
  /\ now \in Time
  /\ evidence \in [Fixing -> Evidence \cup {NoAccount}]

\* An update published at t was recent for a finalization at time at: neither
\* older than the staleness limit nor from the future.
Recent(t, at, limits) ==
  limits.max_staleness_secs > 0 => t <= at /\ at <= t + limits.max_staleness_secs

\* The price is near the update of u from time t, which stands for the
\* interval of prices that round down to its normalized value.
Near(price, u, t, limits) ==
  LET m == Update(u, t)
      n == NormalizedUpdate(u, t)
  IN /\ limits.max_confidence_bps > 0 =>
          m.conf * Bps < (limits.max_confidence_bps + 1) * m.price
     /\ Distance(price, n) * Bps < (limits.price_deviation_threshold_bps + 1) * n

\* A finalized price was near the market: after the expiry it was within the
\* deviation limit of one update that was both recent and confident, under
\* the limits then in force (0 turns a limit off).  Later changes of limits,
\* feeds, operator or admin never make an unchecked price appear.
FinalizedNearMarket ==
  \A f \in Fixing : expiry_price[f] # NoAccount =>
    LET e == evidence[f] IN
      /\ e # NoAccount
      /\ e.at >= f[2]
      /\ \E t \in Time :
           Recent(t, e.at, e.limits) /\ Near(expiry_price[f], f[1], t, e.limits)

\* The oracle program implements the write-once board of expiry prices.
Board == INSTANCE PriceBoard
           WITH board <- expiry_price, Unset <- NoAccount, Prices <- SubmittedPrices
ImplementsBoard == Board!Spec
=============================================================================
