---------------------------- MODULE CarrierProofs ----------------------------
(***************************************************************************)
(* What a carrier both looks accept is worth, for any carrier: its effects *)
(* go on by one real authorization, and its summary is honest.             *)
(***************************************************************************)
EXTENDS BootstrapRouting, TLAPS

Numbered(c) == \A list \in {c.claims, c.effects, c.auths} : DOMAIN list \subseteq Nat

\* A carrier the canonical copies accept.
Acceptable(c) ==
  SchemaValid(c) /\ MechanicalRules(c, Consumed) = {} /\ ProfileRules(c, CanonicalProfile) = {}

\* A load that passes the comparison with the constants of the code is of the canonical files.
LEMMA TwoLooks ==
  ASSUME NEW c, NEW first, NEW second, FirstLook(c, first), SecondLook(c, second)
  PROVE  Acceptable(c)
BY DEF FirstLook, SecondLook, Acceptable, Intact, ProfileIntact, Canonical

LEMMA NoMechanicalRule ==
  ASSUME NEW c, MechanicalRules(c, Consumed) = {}
  PROVE  /\ UniqueIds(c) /\ Resolvable(c)
         /\ \A k \in DOMAIN c.effects : EffectRules(c, c.effects[k], Consumed) = {}
         /\ SummaryRules(c) = {}
<1>1. UniqueIds(c)
  BY DEF MechanicalRules
<1>2. Resolvable(c)
  BY DEF MechanicalRules
<1>3. ASSUME NEW k \in DOMAIN c.effects PROVE EffectRules(c, c.effects[k], Consumed) = {}
  BY DEF MechanicalRules
<1> QED BY <1>1, <1>2, <1>3 DEF MechanicalRules

\* With unique identifiers the entry found by its identifier is the entry.
LEMMA ByUniqueId ==
  ASSUME NEW list, DOMAIN list \subseteq Nat,
         \A i, j \in DOMAIN list : list[i].id = list[j].id => i = j,
         NEW i \in DOMAIN list
  PROVE  ById(list, list[i].id) = list[i]
<1>1. list[i].id = list[i].id /\ \A j \in DOMAIN list : list[j].id = list[i].id => j <= i
  BY SMT
<1>2. \A k \in DOMAIN list : list[k].id = list[i].id => k = i
  OBVIOUS
<1> DEFINE P(k) == list[k].id = list[i].id /\ \A j \in DOMAIN list : list[j].id = list[i].id => j <= k
<1>3. (CHOOSE k \in DOMAIN list : P(k)) = i
  BY <1>1, <1>2
<1> QED BY <1>3 DEF ById

LEMMA NoAuthorizationRule ==
  ASSUME NEW a, NEW e, AuthorizationRules(a, e, Consumed) = {}
  PROVE  /\ a.from = Consumed.from /\ a.through = Consumed.through
         /\ a.status = "ACTIVE" /\ Covers(a, e) /\ a.scope = e.scope
         /\ a.basis = "SAFE_REVERSIBLE_DEFAULT" => e.class \notin BeyondDefault
<1>1. a.from = Consumed.from /\ a.through = Consumed.through
  BY DEF AuthorizationRules
<1>2. a.status = "ACTIVE"
  BY DEF AuthorizationRules
<1>3. Covers(a, e)
  BY DEF AuthorizationRules
<1>4. a.scope = e.scope
  BY DEF AuthorizationRules
<1>5. a.basis = "SAFE_REVERSIBLE_DEFAULT" => e.class \notin BeyondDefault
  BY DEF AuthorizationRules
<1> QED BY <1>1, <1>2, <1>3, <1>4, <1>5

LEMMA TheProfile ==
  /\ DOMAIN CanonicalProfile = 1..2
  /\ CanonicalProfile[1] = [class |-> "REASONING_ONLY", scope |-> "current decision"]
  /\ CanonicalProfile[2] = [class |-> "DRAFT_ONLY", scope |-> "provisional handoff"]
<1>1. DOMAIN CanonicalProfile = 1..2
  <2>1. \A x, y : DOMAIN <<x, y>> = 1..2
    OBVIOUS
  <2> QED BY <2>1, Zenon DEF CanonicalProfile
<1> QED BY <1>1 DEF CanonicalProfile

\* What the profile preauthorizes, an authorization that cites it says too.
LEMMA CitedProfile ==
  ASSUME NEW c, ProfileRules(c, CanonicalProfile) = {},
         NEW k \in DOMAIN c.effects, NEW a \in DOMAIN c.auths,
         c.effects[k].auth = c.auths[a].id, c.auths[a].basis = "PROFILE_PREAUTHORIZED"
  PROVE  \E i \in DOMAIN CanonicalProfile :
           CanonicalProfile[i] = [class |-> c.effects[k].class, scope |-> c.effects[k].scope]
<1> DEFINE e == c.effects[k]
           p == CanonicalProfile
<1>1. a \in Preauthorized(c)
  BY DEF Preauthorized
<1>2. e.class \in Classes(p)
  BY <1>1 DEF ProfileRules
<1>3. e.scope = ScopeOf(p, e.class)
  BY <1>1, <1>2 DEF ProfileRules
<1>4. PICK i \in DOMAIN p : p[i].class = e.class
  BY <1>2 DEF Classes
<1>5. p[1] = [class |-> "REASONING_ONLY", scope |-> "current decision"]
  BY TheProfile
<1>6. p[2] = [class |-> "DRAFT_ONLY", scope |-> "provisional handoff"]
  BY TheProfile
<1>7. DOMAIN p = 1..2
  BY TheProfile
<1> HIDE DEF p
<1> DEFINE i0 == CHOOSE j \in DOMAIN p : p[j].class = e.class
<1>8. i0 \in DOMAIN p /\ p[i0].class = e.class
  BY <1>4
<1>9. e.scope = p[i0].scope
  BY <1>3 DEF ScopeOf
<1> HIDE DEF i0
<1>10. i0 = 1 \/ i0 = 2
  BY <1>7, <1>8
<1>11. p[i0] = [class |-> e.class, scope |-> e.scope]
  BY <1>5, <1>6, <1>8, <1>9, <1>10
<1> QED BY <1>8, <1>11 DEF p

\* Every effect that goes on does so by one authorization.
LEMMA AcceptableIsAuthorized ==
  ASSUME NEW c, Numbered(c), Acceptable(c),
         NEW k \in DOMAIN c.effects, c.effects[k].state = "CONTINUE"
  PROVE  \E a \in DOMAIN c.auths : AuthorizedBy(c, c.effects[k], a)
<1> DEFINE e == c.effects[k]
<1>1. UniqueIds(c) /\ Resolvable(c) /\ EffectRules(c, e, Consumed) = {}
  BY NoMechanicalRule DEF Acceptable
<1>2. e.auth \in Ids(c.auths)
  BY <1>1 DEF Acceptable, SchemaValid, Resolvable
<1>3. PICK a \in DOMAIN c.auths : c.auths[a].id = e.auth
  BY <1>2 DEF Ids
<1>4. \A i, j \in DOMAIN c.auths : c.auths[i].id = c.auths[j].id => i = j
  BY <1>1 DEF UniqueIds
<1>5. DOMAIN c.auths \subseteq Nat
  BY DEF Numbered
<1>6. ById(c.auths, e.auth) = c.auths[a]
  BY <1>3, <1>4, <1>5, ByUniqueId
<1>7. AuthorizationRules(c.auths[a], e, Consumed) = {}
  BY <1>1, <1>2, <1>6 DEF EffectRules
<1> DEFINE auth == c.auths[a]
<1>8. /\ auth.from = Consumed.from /\ auth.through = Consumed.through
      /\ auth.status = "ACTIVE" /\ Covers(auth, e) /\ auth.scope = e.scope
      /\ auth.basis = "SAFE_REVERSIBLE_DEFAULT" => e.class \notin BeyondDefault
  <2> HIDE DEF e, auth
  <2> QED BY <1>7, NoAuthorizationRule DEF auth
<1>9. {b \in DOMAIN c.auths : c.auths[b].id = e.auth} = {a}
  BY <1>3, <1>4
<1>10. auth.basis = "PROFILE_PREAUTHORIZED" =>
         \E i \in DOMAIN CanonicalProfile : CanonicalProfile[i] = [class |-> e.class, scope |-> e.scope]
  BY <1>3, CitedProfile DEF Acceptable
<1> QED
  <2> HIDE DEF e
  <2>1. AuthorizedBy(c, e, a)
    BY <1>8, <1>9, <1>10 DEF AuthorizedBy, Covers
  <2> QED BY <2>1 DEF e

\* The claims an effect depends on are the claims with the identifiers it names.
LEMMA KnownClaims ==
  ASSUME NEW c, Numbered(c), UniqueIds(c), NEW e
  PROVE  Dependencies(c, e) = {c.claims[i] : i \in {j \in DOMAIN c.claims : c.claims[j].id \in e.deps}}
<1>1. DOMAIN c.claims \subseteq Nat
  BY DEF Numbered
<1>2. \A i, j \in DOMAIN c.claims : c.claims[i].id = c.claims[j].id => i = j
  BY DEF UniqueIds
<1>3. \A i \in DOMAIN c.claims : ById(c.claims, c.claims[i].id) = c.claims[i]
  BY <1>1, <1>2, ByUniqueId
<1> QED BY <1>3 DEF Dependencies, Ids

\* The projection of the summary follows from its effect and the claims of the effect.
LEMMA AcceptableIsHonest ==
  ASSUME NEW c, Numbered(c), Acceptable(c)
  PROVE  \E k \in DOMAIN c.effects :
           c.effects[k].id = c.summary.current /\ HonestSummary(c, c.effects[k])
<1>1. /\ UniqueIds(c) /\ SummaryRules(c) = {}
      /\ \A k \in DOMAIN c.effects : EffectRules(c, c.effects[k], Consumed) = {}
  BY NoMechanicalRule DEF Acceptable
<1>2. c.summary.current \in Ids(c.effects)
  BY <1>1 DEF SummaryRules
<1>3. PICK k \in DOMAIN c.effects : c.effects[k].id = c.summary.current
  BY <1>2 DEF Ids
<1> DEFINE e == c.effects[k]
<1>4. ById(c.effects, c.summary.current) = e
  <2>1. DOMAIN c.effects \subseteq Nat
    BY DEF Numbered
  <2>2. \A i, j \in DOMAIN c.effects : c.effects[i].id = c.effects[j].id => i = j
    BY <1>1 DEF UniqueIds
  <2> QED BY <1>3, <2>1, <2>2, ByUniqueId
<1>5. ProjectionRules(c, e) = {}
  <2> HIDE DEF e
  <2> QED BY <1>1, <1>2, <1>4 DEF SummaryRules
<1>6. Refuted(c, e) => e.state = "BLOCKED"
  <2>1. EffectRules(c, e, Consumed) = {}
    BY <1>1
  <2> HIDE DEF e
  <2> QED BY <2>1 DEF EffectRules
<1> HIDE DEF e
<1> DEFINE known == {c.claims[i] : i \in {j \in DOMAIN c.claims : c.claims[j].id \in e.deps}}
           critical == {x \in known : x.criticality = "CRITICAL" /\ x.applies = "APPLICABLE"}
<1>7. Dependencies(c, e) = known
  BY <1>1, KnownClaims
<1> HIDE DEF known
<1>8. c.summary.projection = "GREEN" => GreenDerivable(c, e)
  BY <1>5 DEF ProjectionRules
<1>9. c.summary.projection = "YELLOW" => YellowDerivable(c, e)
  BY <1>5 DEF ProjectionRules
<1>10. c.summary.projection = "RED" <=> e.state = "BLOCKED"
  <2>1. c.summary.projection = "RED" => e.state = "BLOCKED"
    BY <1>5 DEF ProjectionRules
  <2>2. e.state = "BLOCKED" => c.summary.projection = "RED"
    BY <1>5 DEF ProjectionRules
  <2> QED BY <2>1, <2>2
<1>11. c.summary.projection = "GREEN" =>
         /\ \A x \in critical : x.verified = "VERIFIED"
         /\ \A x \in known : x.verified # "CONTRADICTED"
  BY <1>7, <1>8 DEF GreenDerivable, Critical
<1>12. c.summary.projection = "YELLOW" =>
         IF e.state = "AUTHORIZATION_REQUIRED" THEN c.summary.substate = "OWNER_CHOICE_REQUIRED"
         ELSE /\ c.summary.substate = "CONTINUATION_AVAILABLE"
              /\ \E x \in known : x.applies = "APPLICABLE" /\ x.verified = "UNVERIFIED"
  BY <1>7, <1>9 DEF YellowDerivable
<1>13. e.state # "BLOCKED" => \A x \in critical : x.verified # "CONTRADICTED"
  BY <1>6, <1>7 DEF Refuted, Critical
<1>14. HonestSummary(c, e)
  BY <1>10, <1>11, <1>12, <1>13 DEF HonestSummary, known
<1> QED BY <1>3, <1>14 DEF e
==============================================================================
