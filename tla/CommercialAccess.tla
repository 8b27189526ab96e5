-------------------------- MODULE CommercialAccess --------------------------
(***************************************************************************)
(* What an application may use, and whether it may use more.               *)
(*                                                                         *)
(* Which commercial entitlement a request has.  An entitlement selects a   *)
(* value of a field or any value, several may match one request, and none  *)
(* of them has priority: the set of entitlements changes as they are       *)
(* granted, revoked, enabled and disabled.                                 *)
(*                                                                         *)
(* Consumers that ask before they use: each reads the history of usage     *)
(* meter by meter, rates it, asks the preflight about a quantity, and      *)
(* records the usage if that is allowed.  The preflight reserves nothing:  *)
(* between its answer and the record others use, and windows change.       *)
(* The evaluation itself keeps no state: what a history of usage is rated   *)
(* at in the window of its meter, what a price plan makes of the ratings,   *)
(* and the preflight.  Nil stands for an answer with an issue.              *)
(***************************************************************************)
EXTENDS Naturals, FiniteSetsExt

CONSTANTS
  Nil,
  Length,      \* how long each kind of window is; "lifetime" is not in its domain
  MaxSafe,     \* Number.MAX_SAFE_INTEGER
  MaxRecords,  \* the number of records that a batch of usage may hold
  Consumer,
  Window,    \* the window of each meter
  Limit,     \* what the entitlement grants of each meter, or Nil
  Policy,    \* the plan and the budget
  Proposal,  \* the quantities that may be proposed
  MaxUsage,  \* bound: no usage is proposed beyond this many records
  MaxTime,   \* bound: time stops here
  Select,    \* the selectors of an entitlement: for each field a value or Nil
  Metered,   \* the meters that the application declares
  Terms,     \* the plan of an entitlement and its limits, by meter
  MaxGrants  \* bound, and the code's limit: the size of an entitlement set

-----------------------------------------------------------------------------
(* Rating *)

InWindow(window, asOf, at) ==
  window = "lifetime" \/ at \div Length[window] = asOf \div Length[window]

\* Mutant: usage at the very instant of the rating is left out.
IncludedBefore(usage, window, asOf) ==
  {u \in usage : u.at < asOf /\ InWindow(window, asOf, u.at)}

Included(usage, window, asOf) ==
  {u \in usage : u.at <= asOf /\ InWindow(window, asOf, u.at)}

Quantity(usage) == MapThenSumSet(LAMBDA u : u.quantity, usage)

\* Mutant: usage that has reached the limit is still within it.
StatusLenient(used, limit) ==
  IF limit = Nil THEN [status |-> "unlimited", remaining |-> Nil, excess |-> 0]
  ELSE IF used <= limit
  THEN [status |-> "within-limit", remaining |-> limit - used, excess |-> 0]
  ELSE [status |-> "over-limit", remaining |-> 0, excess |-> used - limit]

\* What is left of a limit, what exceeds it, and the word for it.
Status(used, limit) ==
  IF limit = Nil THEN [status |-> "unlimited", remaining |-> Nil, excess |-> 0]
  ELSE IF used < limit
  THEN [status |-> "within-limit", remaining |-> limit - used, excess |-> 0]
  ELSE [status |-> IF used = limit THEN "limit-reached" ELSE "over-limit",
        remaining |-> 0, excess |-> used - limit]

Rating(used, count, limit, window, asOf) ==
  [used |-> used, count |-> count, limit |-> limit, window |-> window, asOf |-> asOf,
   standing |-> Status(used, limit)]

\* rateViraCommercialUsage: the usage of one meter in the window around asOf.
Rate(usage, limit, window, asOf) ==
  LET counted == Included(usage, window, asOf) IN
  IF Quantity(counted) > MaxSafe THEN Nil
  ELSE Rating(Quantity(counted), Cardinality(counted), limit, window, asOf)

\* expectedStatus: the standing that belongs to the quantity and the limit.
StandingIsTrue(r) ==
  LET s == r.standing IN
  IF r.limit = Nil THEN s = [status |-> "unlimited", remaining |-> Nil, excess |-> 0]
  ELSE /\ s.remaining + r.used = r.limit + s.excess
       /\ 0 \in {s.remaining, s.excess}
       /\ s.status = IF s.excess > 0 THEN "over-limit"
                     ELSE IF s.remaining = 0 THEN "limit-reached" ELSE "within-limit"

\* parseViraCommercialUsageRating: a rating that can be true.
CanonicalRating(r) ==
  /\ r.count <= MaxRecords
  /\ r.count = 0 <=> r.used = 0
  /\ r.count <= r.used /\ r.used <= MaxSafe
  /\ StandingIsTrue(r)

-----------------------------------------------------------------------------
(* Pricing *)

\* The quantity a rate charges for.
Charged(rate, r) == IF rate.basis = "used" THEN r.used ELSE r.standing.excess

\* safeMultiply
Overflows(quantity, amount) == quantity # 0 /\ amount > MaxSafe \div quantity

Line(rate, r) ==
  [basis |-> rate.basis, quantity |-> Charged(rate, r), perUnit |-> rate.amount,
   amount |-> Charged(rate, r) * rate.amount]

Total(fixed, lines) ==
  fixed + MapThenSumSet(LAMBDA m : lines[m].amount, DOMAIN lines)

\* The meters of the plan are the meters that are rated.
Missing(plan, ratings) == DOMAIN plan.rates \ DOMAIN ratings

Unpriced(plan, ratings) == DOMAIN ratings \ DOMAIN plan.rates

\* priceViraCommercialUsage, for ratings of every meter of the plan.
Price(plan, ratings) ==
  LET lines == [m \in DOMAIN plan.rates |-> Line(plan.rates[m], ratings[m])] IN
  IF \/ Unpriced(plan, ratings) # {}
     \/ \E m \in DOMAIN plan.rates :
          Overflows(Charged(plan.rates[m], ratings[m]), plan.rates[m].amount)
     \/ Total(plan.fixed, lines) > MaxSafe
  THEN Nil
  ELSE [currency |-> plan.currency, fixed |-> plan.fixed, lines |-> lines,
        total |-> Total(plan.fixed, lines)]

\* parseViraCommercialPriceQuote: the amounts of a quote add up.
CanonicalQuote(q) ==
  /\ q.total = Total(q.fixed, q.lines) /\ q.total <= MaxSafe
  /\ \A m \in DOMAIN q.lines :
       /\ ~Overflows(q.lines[m].quantity, q.lines[m].perUnit)
       /\ q.lines[m].amount = q.lines[m].quantity * q.lines[m].perUnit

-----------------------------------------------------------------------------
(* Preflight *)

\* projectedRating: the rating once the proposed quantity has been used.
Projected(r, quantity) ==
  Rating(r.used + quantity, r.count + 1, r.limit, r.window, r.asOf)

\* Mutant: a limit blocks once it has been reached.
BlockedWhenReached(r, quantity) == r.limit # Nil /\ r.used >= r.limit

QuotaBlocks(r, quantity) ==
  r.limit # Nil /\ (r.used >= r.limit \/ r.used + quantity > r.limit)

\* evaluateViraCommercialBudgetQuotaPreflight.
Preflight(policy, ratings, meter, quantity) ==
  IF Missing(policy.plan, ratings) # {} THEN "insufficient-evidence"
  ELSE IF Price(policy.plan, ratings) = Nil \/ policy.currency # policy.plan.currency THEN Nil
  ELSE IF meter \notin DOMAIN ratings THEN "insufficient-evidence"
  ELSE LET next == Projected(ratings[meter], quantity)
           quote == Price(policy.plan, [ratings EXCEPT ![meter] = next]) IN
       IF ~CanonicalRating(next) \/ quote = Nil THEN Nil
       ELSE IF QuotaBlocks(ratings[meter], quantity) THEN "limit-reached"
       ELSE IF quote.total > policy.budget THEN "over-budget" ELSE "allowed"

-----------------------------------------------------------------------------
VARIABLES
  clock,  \* of all consumers, which date what they rate and use by it
  usage,  \* the records of usage, by meter
  desk,   \* what each consumer has rated, proposed and been told
  entitlements

quotaVars == <<clock, usage, desk>>

Meter == DOMAIN Window

Usage == [id : Nat, at : Nat, quantity : Proposal]

Idle == [asOf |-> Nil, ratings |-> <<>>, meter |-> Nil, quantity |-> Nil]

RatingOk(r, m) == r.window = Window[m] /\ r.limit = Limit[m] /\ CanonicalRating(r)

\* What the quantities are: positive ones that are proposed, the largest of them, limits,
\* windows that last, and what the plan charges.
QuotaConstants ==
  /\ IsFiniteSet(Consumer) /\ Consumer # {} /\ IsFiniteSet(Meter)
  /\ {MaxTime, MaxSafe, MaxRecords, Policy.plan.fixed} \subseteq Nat
  /\ Proposal \subseteq Nat \ {0} /\ \E q \in Proposal : \A r \in Proposal : r <= q
  /\ Nil \notin Nat /\ Nil \notin Meter /\ Nil # "allowed"
  /\ \A m \in Meter :
       /\ Limit[m] \in Nat \cup {Nil}
       /\ Window[m] # "lifetime" => Length[Window[m]] \in Nat \ {0}
  /\ IsFiniteSet(DOMAIN Policy.plan.rates)
  /\ \A m \in DOMAIN Policy.plan.rates : Policy.plan.rates[m].amount \in Nat

QuotaTypeOK ==
  /\ clock \in 0..MaxTime
  /\ usage \in [Meter -> SUBSET Usage]
  /\ \A p \in Consumer :
       /\ DOMAIN desk[p].ratings \subseteq Meter
       /\ desk[p].meter \in Meter \cup {Nil}

QuotaInit ==
  /\ clock = 0
  /\ usage = [m \in Meter |-> {}]
  /\ desk = [p \in Consumer |-> Idle]

-----------------------------------------------------------------------------
Recorded == MapThenSumSet(LAMBDA m : Cardinality(usage[m]), Meter)

\* The history of one meter as of an instant, rated.
Rated(m, asOf) == Rate({u \in usage[m] : u.at <= asOf}, Limit[m], Window[m], asOf)

StartRating(p) ==
  /\ desk[p] = Idle
  /\ desk' = [desk EXCEPT ![p].asOf = clock]
  /\ UNCHANGED <<clock, usage>>

\* One read of the history, and its rating.
RateMeter(p, m) ==
  /\ desk[p].asOf # Nil
  /\ m \notin DOMAIN desk[p].ratings
  /\ Cardinality(usage[m]) <= MaxRecords
  /\ Rated(m, desk[p].asOf) # Nil
  /\ desk' = [desk EXCEPT ![p].ratings =
       [k \in DOMAIN @ \cup {m} |-> IF k = m THEN Rated(m, desk[p].asOf) ELSE @[k]]]
  /\ UNCHANGED <<clock, usage>>

\* The preflight allows the quantity.
Allow(p, m, q) ==
  /\ desk[p].asOf # Nil /\ desk[p].meter = Nil
  /\ Recorded < MaxUsage
  /\ Preflight(Policy, desk[p].ratings, m, q) = "allowed"
  /\ desk' = [desk EXCEPT ![p].meter = m, ![p].quantity = q]
  /\ UNCHANGED <<clock, usage>>

\* It does not, or the consumer gives up.
GiveUp(p) ==
  /\ desk[p] # Idle
  /\ desk' = [desk EXCEPT ![p] = Idle]
  /\ UNCHANGED <<clock, usage>>

\* The usage takes place and is recorded.
Consume(p) ==
  /\ desk[p].meter # Nil
  /\ usage' = [usage EXCEPT ![desk[p].meter] =
                 @ \cup {[id |-> Recorded + 1, at |-> clock, quantity |-> desk[p].quantity]}]
  /\ desk' = [desk EXCEPT ![p] = Idle]
  /\ UNCHANGED clock

Tick ==
  /\ clock < MaxTime
  /\ clock' = clock + 1
  /\ UNCHANGED <<usage, desk>>

QuotaNext ==
  \/ Tick
  \/ \E p \in Consumer :
       \/ StartRating(p)
       \/ \E m \in Meter : RateMeter(p, m)
       \/ \E m \in Meter, q \in Proposal : Allow(p, m, q)
       \/ GiveUp(p)
       \/ Consume(p)

-----------------------------------------------------------------------------
(* Entitlements *)

Entitlement == [selects : Select, terms : Terms, enabled : BOOLEAN]

\* parseViraCommercialEntitlementSet: no two entitlements select the same, and
\* one that names an environment names its project.
WellFormed(set) ==
  /\ Cardinality(set) <= MaxGrants
  /\ \A g \in set : g.selects.environment # Nil => g.selects.project # Nil
  /\ \A g, h \in set : g.selects = h.selects => g = h

EntitlementTypeOK == entitlements \subseteq Entitlement /\ WellFormed(entitlements)

EntitlementInit == entitlements = {}

-----------------------------------------------------------------------------
Field == {"principal", "capability", "project", "environment", "location"}

\* A request is a selector too, its capability and its location may be Nil.
Request == {r \in Select : Nil \notin {r.principal, r.project, r.environment}}

\* principalMatches, targetMatches, scopeMatches
Matches(g, request) == \A f \in Field : g.selects[f] \in {Nil, request[f]}

Candidates(set, request) == {g \in set : Matches(g, request)}

\* validateMatchedMetering
LimitsDeclared(g) == DOMAIN g.terms.limits \subseteq Metered

\* Mutant: one of several that match is taken.
EvaluateFirst(set, request) ==
  LET found == Candidates(set, request) IN
  IF found = {} THEN "NO_MATCH"
  ELSE LET g == CHOOSE c \in found : TRUE IN
       IF ~LimitsDeclared(g) THEN "UNDECLARED_METERING"
       ELSE IF g.enabled THEN "MATCHED" ELSE "COMMERCIAL_ACCESS_DISABLED"

\* evaluateViraCommercialEntitlement: the reason of its decision, or its issue.
Evaluate(set, request) ==
  LET found == Candidates(set, request) IN
  IF Cardinality(found) > 1 THEN "AMBIGUOUS_ENTITLEMENT"
  ELSE IF found = {} THEN "NO_MATCH"
  ELSE LET g == CHOOSE c \in found : TRUE IN
       IF ~LimitsDeclared(g) THEN "UNDECLARED_METERING"
       ELSE IF g.enabled THEN "MATCHED" ELSE "COMMERCIAL_ACCESS_DISABLED"

\* The entitlement a request has.
Granted(set, request) ==
  IF Evaluate(set, request) = "MATCHED"
  THEN CHOOSE g \in Candidates(set, request) : TRUE ELSE Nil

-----------------------------------------------------------------------------
\* Mutant: the set is not parsed again.
GrantAny(g) ==
  /\ g \notin entitlements
  /\ Cardinality(entitlements) < MaxGrants
  /\ entitlements' = entitlements \cup {g}

Grant(g) ==
  /\ g \notin entitlements
  /\ WellFormed(entitlements \cup {g})
  /\ entitlements' = entitlements \cup {g}

Revoke(g) == g \in entitlements /\ entitlements' = entitlements \ {g}

Switch(g) ==
  /\ g \in entitlements
  /\ entitlements' = (entitlements \ {g}) \cup {[g EXCEPT !.enabled = ~@]}

EntitlementNext == \E g \in Entitlement : Grant(g) \/ Revoke(g) \/ Switch(g)

-----------------------------------------------------------------------------
Init == QuotaInit /\ EntitlementInit

Next ==
  \/ QuotaNext /\ UNCHANGED entitlements
  \/ EntitlementNext /\ UNCHANGED quotaVars

Spec == Init /\ [][Next]_<<quotaVars, entitlements>>

-----------------------------------------------------------------------------
(* Properties *)

\* The preflight is advisory, and this is all that racing consumers can make of
\* it: a limit is exceeded by at most one proposal for every other consumer,
\* in any window, although usage is recorded later than it was allowed.  It takes
\* consumers that share a clock: what one dates ahead of another's instant is in
\* no rating of that one (metering.ts:510).
OverrunIsBounded == \A m \in Meter : Limit[m] # Nil =>
  Quantity(Included(usage[m], Window[m], clock))
    <= Limit[m] + (Cardinality(Consumer) - 1) * Max(Proposal)

\* The evidence one owner computes is accepted by the parsers of the next: every
\* rating, what it is priced at, and what the preflight projects from it.
EvidenceIsCanonical == \A p \in Consumer :
  /\ \A m \in DOMAIN desk[p].ratings : RatingOk(desk[p].ratings[m], m)
  /\ Missing(Policy.plan, desk[p].ratings) = {} =>
       LET q == Price(Policy.plan, desk[p].ratings) IN q # Nil => CanonicalQuote(q)

\* What the preflight projects is what is rated afterwards: if nobody else used
\* the meter and the window is the same, recording the proposal at the instant
\* of the rating yields exactly the projected rating.
ProjectionIsTheRating == \A p \in Consumer : desk[p].meter # Nil =>
  LET m == desk[p].meter
      r == desk[p].ratings[m]
      next == Projected(r, desk[p].quantity)
      record == [id |-> 0, at |-> r.asOf, quantity |-> desk[p].quantity] IN
  Rated(m, r.asOf) = r =>
    Rate({u \in usage[m] : u.at <= r.asOf} \cup {record}, Limit[m], Window[m], r.asOf) = next

Undisplaced == \A request \in Request :
  LET g == Granted(entitlements, request) h == Granted(entitlements', request) IN
  g # Nil /\ g \in entitlements' => h \in {g, Nil}

\* "no priority or specificity winner is permitted": while the entitlement of a
\* request stays as it is, no other one, granted or enabled beside it, takes its
\* place; all it can do is make the request ambiguous.
NeverDisplaced == [][Undisplaced]_entitlements
=============================================================================
