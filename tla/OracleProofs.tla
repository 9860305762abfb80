---------------------------- MODULE OracleProofs ----------------------------
(***************************************************************************)
(* The oracle implements the write-once price board, and every price it    *)
(* finalized was near the market, for every market and all limits.         *)
(***************************************************************************)
EXTENDS Oracle, TLAPS

(***************************************************************************)
(* The board.  Only set_expiry_price writes a price account and it creates *)
(* the account, so no invariant is needed: every step publishes, lets time *)
(* pass or leaves the board alone.                                         *)
(***************************************************************************)
LEMMA InitImplementsBoard == Init => Board!Init
  BY DEF Init, Board!Init

\* The instructions that neither write a price nor move the clock.
LEMMA QuietSteps ==
  ASSUME Next
  PROVE  \/ UNCHANGED <<expiry_price, now, evidence>>
         \/ Tick
         \/ \E k \in Key, u \in Underlying, expiry \in Expiries,
               price \in SubmittedPrices, t \in Time :
              SetExpiryPrice(k, u, expiry, price, t)
  BY DEF Next, Initialize, RegisterFeed, DeregisterFeed, SetFeedActive, SetOperator,
     TransferOwnership, SetPriceDeviationThreshold, SetMaxStaleness,
     SetMaxConfidence, AcceptOwnership

LEMMA StepImplementsBoard == [Next]_vars => [Board!Next]_<<expiry_price, now>>
<1> SUFFICES ASSUME [Next]_vars PROVE [Board!Next]_<<expiry_price, now>>
  OBVIOUS
<1>1. ASSUME NEW k \in Key, NEW u \in Underlying, NEW expiry \in Expiries,
             NEW price \in SubmittedPrices, NEW t \in Time,
             SetExpiryPrice(k, u, expiry, price, t)
      PROVE  Board!Next
  <2> DEFINE f == <<u, expiry>>
  <2>1. f \in Fixing /\ f[2] = expiry
    BY DEF Fixing
  <2>2. Board!Publish(f, price)
    BY <1>1, <2>1 DEF SetExpiryPrice, Unfinalized, Board!Publish, Board!Expiry
  <2> QED
    BY <2>1, <2>2 DEF Board!Next
<1>2. CASE Tick
  BY <1>2 DEF Tick, Board!Advance, Board!Next
<1>3. CASE UNCHANGED <<expiry_price, now, evidence>>
  BY <1>3
<1>4. CASE UNCHANGED vars
  BY <1>4 DEF vars
<1> QED
  BY <1>1, <1>2, <1>3, <1>4, QuietSteps

\* The oracle program implements the price board that settlement relies on.
THEOREM BoardTheorem == Spec => ImplementsBoard
<1> QED
  BY InitImplementsBoard, StepImplementsBoard, PTL DEF Spec, ImplementsBoard, Board!Spec

(***************************************************************************)
(* The market.  What is kept about a finalized price never changes, so it  *)
(* suffices that the instruction establishes it, which is arithmetic.      *)
(***************************************************************************)

\* A quotient rounded down that is at most n is below n + 1 before rounding.
LEMMA FloorBound ==
  ASSUME NEW x \in Nat, NEW y \in Nat, y > 0, NEW n \in Nat, x \div y <= n
  PROVE  x < (n + 1) * y
<1> DEFINE q == x \div y
<1>1. q \in Nat /\ x < (q + 1) * y
  BY SMT
<1>2. (q + 1) * y <= (n + 1) * y
  BY <1>1, SMT
<1>3. (q + 1) * y \in Nat /\ (n + 1) * y \in Nat
  BY <1>1, SMT
<1> HIDE DEF q
<1> QED
  BY <1>1, <1>2, <1>3

\* The conjunct of FinalizedNearMarket for one fixing.
Checked(f) ==
  LET e == evidence[f]
  IN expiry_price[f] # NoAccount =>
       /\ e # NoAccount
       /\ e.at >= f[2]
       /\ \E t \in Time :
            Recent(t, e.at, e.limits) /\ Near(expiry_price[f], f[1], t, e.limits)

LEMMA CheckedIsNearMarket == FinalizedNearMarket <=> \A f \in Fixing : Checked(f)
  BY DEF FinalizedNearMarket, Checked

LEMMA StalenessTyped ==
  ASSUME NEW c \in Config, Stalenesses \subseteq Nat
  PROVE  c.max_staleness_secs \in Nat
  BY DEF Config

LEMMA ConfigAccount == TypeOK /\ config # NoAccount => config \in Config
  BY DEF TypeOK

LEMMA InitTypeOK == Init => TypeOK
  BY OracleAssumption DEF Init, TypeOK, Time

LEMMA ConfigTypeOK ==
  ASSUME TypeOK, config' \in Config,
         UNCHANGED <<feed, expiry_price, now, evidence>>
  PROVE  TypeOK'
  BY DEF TypeOK

LEMMA FeedSteps ==
  ASSUME TypeOK, NEW k \in Key, NEW u \in Underlying, NEW active \in BOOLEAN,
         \/ RegisterFeed(k, u) \/ DeregisterFeed(k, u)
         \/ SetFeedActive(k, u, active)
  PROVE  TypeOK'
<1>1. feed' \in [Underlying -> BOOLEAN \cup {NoAccount}]
  BY DEF TypeOK, RegisterFeed, DeregisterFeed, SetFeedActive
<1>2. UNCHANGED <<config, expiry_price, now, evidence>>
  BY DEF RegisterFeed, DeregisterFeed, SetFeedActive
<1> QED
  BY <1>1, <1>2 DEF TypeOK

LEMMA FinalizeTypeOK ==
  ASSUME TypeOK, NEW k \in Key, NEW u \in Underlying, NEW expiry \in Expiries,
         NEW price \in SubmittedPrices, NEW t \in Time,
         SetExpiryPrice(k, u, expiry, price, t)
  PROVE  TypeOK'
<1>1. config \in Config
  BY ConfigAccount DEF SetExpiryPrice, MayFinalize
<1>2. [at |-> now, limits |-> config] \in Evidence
  BY <1>1 DEF TypeOK, Evidence
<1> QED
  BY <1>2 DEF SetExpiryPrice, TypeOK

LEMMA NextTypeOK == TypeOK /\ [Next]_vars => TypeOK'
<1> SUFFICES ASSUME TypeOK, [Next]_vars PROVE TypeOK'
  OBVIOUS
<1>1. ASSUME NEW k \in Key, NEW o \in Key \cup {Default}, NEW s \in Stalenesses,
             NEW c \in Confidences, NEW d \in Thresholds, Initialize(k, o, s, c, d)
      PROVE  TypeOK'
  BY <1>1, ConfigTypeOK DEF Initialize, Config
<1>2. ASSUME NEW k \in Key, NEW o \in Key, SetOperator(k, o)
      PROVE  TypeOK'
  BY <1>2, ConfigAccount, ConfigTypeOK DEF SetOperator, IsAdmin, Config
<1>3. ASSUME NEW k \in Key, NEW o \in Key, TransferOwnership(k, o)
      PROVE  TypeOK'
  BY <1>3, ConfigAccount, ConfigTypeOK DEF TransferOwnership, IsAdmin, Config
<1>4. ASSUME NEW k \in Key, NEW d \in Thresholds, SetPriceDeviationThreshold(k, d)
      PROVE  TypeOK'
  BY <1>4, ConfigAccount, ConfigTypeOK DEF SetPriceDeviationThreshold, IsAdmin, Config
<1>5. ASSUME NEW k \in Key, NEW s \in Stalenesses, SetMaxStaleness(k, s)
      PROVE  TypeOK'
  BY <1>5, ConfigAccount, ConfigTypeOK DEF SetMaxStaleness, IsAdmin, Config
<1>6. ASSUME NEW k \in Key, NEW c \in Confidences, SetMaxConfidence(k, c)
      PROVE  TypeOK'
  BY <1>6, ConfigAccount, ConfigTypeOK DEF SetMaxConfidence, IsAdmin, Config
<1>7. ASSUME NEW k \in Key, AcceptOwnership(k)
      PROVE  TypeOK'
  BY <1>7, ConfigAccount, ConfigTypeOK DEF AcceptOwnership, Config
<1>8. ASSUME NEW k \in Key, NEW u \in Underlying, NEW active \in BOOLEAN,
             \/ RegisterFeed(k, u) \/ DeregisterFeed(k, u)
             \/ SetFeedActive(k, u, active)
      PROVE  TypeOK'
  BY <1>8, FeedSteps
<1>9. ASSUME NEW k \in Key, NEW u \in Underlying, NEW expiry \in Expiries,
             NEW price \in SubmittedPrices, NEW t \in Time,
             SetExpiryPrice(k, u, expiry, price, t)
      PROVE  TypeOK'
  BY <1>9, FinalizeTypeOK
<1>10. CASE Tick
  BY <1>10, OracleAssumption DEF Tick, TypeOK, Time
<1>11. CASE UNCHANGED vars
  BY <1>11 DEF vars, TypeOK
<1>12. TRUE \in BOOLEAN
  OBVIOUS
<1> QED
  BY <1>1, <1>2, <1>3, <1>4, <1>5, <1>6, <1>7, <1>8, <1>9, <1>10, <1>11, <1>12 DEF Next

\* Every account the oracle leaves behind has its type; in particular the admin
\* is never the null key, whatever sequence of nominations and acceptances.
THEOREM OracleTyping == Spec => []TypeOK
<1> QED
  BY InitTypeOK, NextTypeOK, PTL DEF Spec

\* The instruction checks what FinalizedNearMarket says.
LEMMA FinalizedIsNear ==
  ASSUME TypeOK, NEW k \in Key, NEW u \in Underlying, NEW expiry \in Expiries,
         NEW price \in SubmittedPrices, NEW t \in Time,
         SetExpiryPrice(k, u, expiry, price, t)
  PROVE  Near(price, u, t, config)
<1> DEFINE m == Update(u, t)
           n == NormalizedUpdate(u, t)
           d == Distance(price, n)
<1>1. config \in Config
  BY ConfigAccount DEF SetExpiryPrice, MayFinalize
<1>2. /\ config.max_confidence_bps \in Nat
      /\ config.price_deviation_threshold_bps \in Nat
      /\ config.price_deviation_threshold_bps > 0
  BY <1>1, OracleAssumption DEF Config, SetExpiryPrice
<1>3. m.price \in Nat /\ m.price > 0 /\ m.conf \in Nat
  BY OracleAssumption DEF SetExpiryPrice, ValidUpdate, Update
<1>4. n \in Nat /\ n > 0
  BY OracleAssumption DEF SetExpiryPrice, ValidUpdate, Normalizable, NormalizedUpdate
<1>5. price \in Nat
  BY OracleAssumption
<1>6. d \in Nat
  BY <1>4, <1>5 DEF Distance
<1>7. config.max_confidence_bps > 0 =>
        (m.conf * Bps) \div m.price <= config.max_confidence_bps
  BY <1>2 DEF SetExpiryPrice, ValidUpdate, Confident
<1>8. (d * Bps) \div n <= config.price_deviation_threshold_bps
  BY <1>2 DEF SetExpiryPrice, WithinDeviation
<1>9. m.conf * Bps \in Nat /\ d * Bps \in Nat
  BY <1>3, <1>6, OracleAssumption
<1>10. config.max_confidence_bps > 0 =>
         m.conf * Bps < (config.max_confidence_bps + 1) * m.price
  BY <1>2, <1>3, <1>7, <1>9, FloorBound
<1>11. d * Bps < (config.price_deviation_threshold_bps + 1) * n
  BY <1>2, <1>4, <1>8, <1>9, FloorBound
<1> QED
  BY <1>10, <1>11, Zenon DEF Near

LEMMA FinalizeChecked ==
  ASSUME TypeOK, FinalizedNearMarket, NEW k \in Key, NEW u \in Underlying,
         NEW expiry \in Expiries, NEW price \in SubmittedPrices, NEW t \in Time,
         SetExpiryPrice(k, u, expiry, price, t)
  PROVE  FinalizedNearMarket'
<1> DEFINE f == <<u, expiry>>
           e == [at |-> now, limits |-> config]
<1> SUFFICES ASSUME NEW g \in Fixing PROVE Checked(g)'
  BY Zenon DEF FinalizedNearMarket, Checked
<1>1. f \in Fixing /\ f[1] = u /\ f[2] = expiry
  BY DEF Fixing
<1>2. CASE g # f
  <2>1. expiry_price'[g] = expiry_price[g] /\ evidence'[g] = evidence[g]
    BY <1>2 DEF SetExpiryPrice, TypeOK
  <2> QED
    BY <2>1, CheckedIsNearMarket DEF Checked, Recent, Near, NormalizedUpdate, Update
<1>3. CASE g = f
  <2>1. expiry_price'[f] = price /\ evidence'[f] = e
    BY <1>1 DEF SetExpiryPrice, TypeOK
  <2>2. config \in Config /\ e \in Evidence
    BY ConfigAccount DEF SetExpiryPrice, MayFinalize, TypeOK, Evidence
  <2>3. e # NoAccount
    BY <2>2, OracleAccountAssumption
  <2>4. e.at = now /\ e.limits = config /\ now >= expiry
    BY DEF SetExpiryPrice
  <2>5. now \in Int /\ expiry \in Int /\ t \in Int
    BY OracleAssumption DEF TypeOK, Time
  <2>6. config.max_staleness_secs \in Nat
    BY <2>2, OracleAssumption, StalenessTyped
  <2>7. Recent(t, now, config)
    <3>1. config.max_staleness_secs > 0 => now - t \in 0..config.max_staleness_secs
      BY <2>5, <2>6 DEF SetExpiryPrice, ValidUpdate, Fresh
    <3> QED
      BY <2>5, <2>6, <3>1 DEF Recent
  <2>8. Near(price, u, t, config)
    BY FinalizedIsNear
  <2> HIDE DEF e
  <2> QED
    BY <1>1, <1>3, <2>1, <2>3, <2>4, <2>7, <2>8
    DEF Checked, Recent, Near, NormalizedUpdate, Update
<1> QED
  BY <1>2, <1>3

LEMMA NextNearMarket ==
  TypeOK /\ FinalizedNearMarket /\ [Next]_vars => FinalizedNearMarket'
<1> SUFFICES ASSUME TypeOK, FinalizedNearMarket, [Next]_vars
             PROVE  FinalizedNearMarket'
  OBVIOUS
<1>1. CASE UNCHANGED <<expiry_price, evidence>>
  BY <1>1 DEF FinalizedNearMarket, Recent, Near, NormalizedUpdate, Update
<1>2. Tick => UNCHANGED <<expiry_price, evidence>>
  BY DEF Tick
<1>3. UNCHANGED vars => UNCHANGED <<expiry_price, evidence>>
  BY DEF vars
<1> QED
  BY <1>1, <1>2, <1>3, QuietSteps, FinalizeChecked

\* Every finalized price was checked against an update that was fresh and
\* confident under the limits in force, and lies within the deviation limit of
\* it; no later change of limits, feeds or keys makes an unchecked price appear.
THEOREM NearMarketTheorem == Spec => []FinalizedNearMarket
<1>1. Init => FinalizedNearMarket
  BY DEF Init, FinalizedNearMarket
<1> QED
  BY <1>1, InitTypeOK, NextTypeOK, NextNearMarket, PTL DEF Spec
=============================================================================
