------------------------------ MODULE PcvpCarrier ------------------------------
(***************************************************************************)
(* The continuation carrier an Architect intake may hold: claims, the      *)
(* effects that depend on them, the authorizations the effects refer to,   *)
(* and the summary shown to the owner.  The operators say which carriers   *)
(* the consumer accepts.  A carrier is judged against local copies of the  *)
(* canonical schemas and profiles, which are loaded twice; the copies may  *)
(* have been changed, and are pinned by digests in the code.               *)
(***************************************************************************)
EXTENDS Naturals, Sequences

Consumed == [from |-> "ARCHITECT", through |-> "CONSTRUCTABILITY_ENGINEER"]

\* The entry of a list with an identifier; the last one wins when there are several.
Ids(items) == {items[i].id : i \in DOMAIN items}
ById(items, id) ==
  items[CHOOSE i \in DOMAIN items :
          items[i].id = id /\ \A j \in DOMAIN items : items[j].id = id => j <= i]

Dependencies(c, e) == {ById(c.claims, id) : id \in e.deps \cap Ids(c.claims)}

\* The canonical schemas, for the fields the rules read: what may continue is authorized
\* within a scope, what may not refers to no authorization, and a substate is for YELLOW.
SchemaValid(c) ==
  /\ c.effects # <<>>
  /\ \A k \in DOMAIN c.effects :
       LET e == c.effects[k] IN
         IF e.state = "CONTINUE" THEN e.auth # "null" /\ e.scope # "null" ELSE e.auth = "null"
  /\ \A k \in DOMAIN c.auths : c.auths[k].ids # {} \/ c.auths[k].classes # {}
  /\ c.summary.projection = "YELLOW" <=> c.summary.substate # "null"

---------------------------------------------------------------------------
(* The rules across records.  Each operator gives the rules a carrier      *)
(* breaks; edge is the pair of stages the carrier crosses.                 *)

UniqueIds(c) ==
  /\ \A list \in {c.claims, c.effects, c.auths} :
       \A i, j \in DOMAIN list : list[i].id = list[j].id => i = j
  /\ Ids(c.claims) \cap Ids(c.effects) = {}
  /\ Ids(c.auths) \cap (Ids(c.claims) \cup Ids(c.effects)) = {}

Resolvable(c) ==
  /\ \A k \in DOMAIN c.claims : c.claims[k].deps \subseteq Ids(c.claims)
  /\ \A k \in DOMAIN c.effects : c.effects[k].deps \subseteq Ids(c.claims)
  /\ \A k \in DOMAIN c.effects : c.effects[k].auth \in Ids(c.auths) \cup {"null"}

Covers(a, e) == e.id \in a.ids \/ e.class \in a.classes
BeyondDefault == {"EXTERNAL_MUTATION", "IRREVERSIBLE_OR_AUTHORITY_BEARING"}

AuthorizationRules(a, e, edge) ==
  {r \in {"stage_scope", "not_active", "not_covering", "scope", "safe_default"} :
     \/ r = "stage_scope" /\ (a.from # edge.from \/ a.through # edge.through)
     \/ r = "not_active" /\ a.status # "ACTIVE"
     \/ r = "not_covering" /\ ~Covers(a, e)
     \/ r = "scope" /\ a.scope # e.scope
     \/ r = "safe_default" /\ a.basis = "SAFE_REVERSIBLE_DEFAULT" /\ e.class \in BeyondDefault}

Critical(x) == x.criticality = "CRITICAL" /\ x.applies = "APPLICABLE"
Refuted(c, e) == \E x \in Dependencies(c, e) : Critical(x) /\ x.verified = "CONTRADICTED"

EffectRules(c, e, edge) ==
  (IF e.auth \in Ids(c.auths) THEN AuthorizationRules(ById(c.auths, e.auth), e, edge) ELSE {})
  \cup (IF Refuted(c, e) /\ e.state # "BLOCKED" THEN {"not_blocked"} ELSE {})

\* When GREEN and YELLOW can be derived from the current effect and its claims.
GreenDerivable(c, e) ==
  /\ e.state = "CONTINUE"
  /\ \A x \in Dependencies(c, e) :
       /\ Critical(x) => x.verified = "VERIFIED"
       /\ x.verified # "CONTRADICTED"
       /\ x.criticality # "INFORMATIONAL" => x.applies # "UNDETERMINED"

\* Mutant: YELLOW does not ask for its substate.
YellowAnySubstate(c, e) == e.state # "BLOCKED" /\ ~Refuted(c, e)

YellowDerivable(c, e) ==
  /\ \/ e.state = "AUTHORIZATION_REQUIRED" /\ c.summary.substate = "OWNER_CHOICE_REQUIRED"
     \/ /\ e.state = "CONTINUE" /\ c.summary.substate = "CONTINUATION_AVAILABLE"
        /\ \E x \in Dependencies(c, e) : x.applies = "APPLICABLE" /\ x.verified = "UNVERIFIED"
  /\ ~Refuted(c, e)

ProjectionRules(c, e) ==
  {r \in {"green", "yellow", "red", "red_missing"} :
     \/ r = "green" /\ c.summary.projection = "GREEN" /\ ~GreenDerivable(c, e)
     \/ r = "yellow" /\ c.summary.projection = "YELLOW" /\ ~YellowDerivable(c, e)
     \/ r = "red" /\ c.summary.projection = "RED" /\ e.state # "BLOCKED"
     \/ r = "red_missing" /\ c.summary.projection # "RED"
          /\ (e.state = "BLOCKED" \/ Refuted(c, e))}

SummaryRules(c) ==
  IF c.summary.current \notin Ids(c.effects) THEN {"summary_effect"}
  ELSE LET e == ById(c.effects, c.summary.current) IN
         ProjectionRules(c, e)
         \cup (IF c.summary.derived \subseteq e.deps \cap Ids(c.claims) THEN {} ELSE {"summary_claims"})

MechanicalRules(c, edge) ==
  {r \in {"source_stage", "unique", "resolvable"} :
     \/ r = "source_stage" /\ c.stage # edge.from
     \/ r = "unique" /\ ~UniqueIds(c)
     \/ r = "resolvable" /\ ~Resolvable(c)}
  \cup (UNION {EffectRules(c, c.effects[k], edge) : k \in DOMAIN c.effects})
  \cup SummaryRules(c)

---------------------------------------------------------------------------
(* The local copies.  A mirror is the lock, which repeats the digests, the *)
(* pairs of effect class and scope the Architect's profile preauthorizes,  *)
(* and the schemas.                                                        *)

CanonicalProfile == << [class |-> "REASONING_ONLY", scope |-> "current decision"],
                       [class |-> "DRAFT_ONLY", scope |-> "provisional handoff"] >>
Canonical == [lock |-> CanonicalProfile, profile |-> CanonicalProfile, schemas |-> "pinned"]

\* Mutant: the lock is the authority for the digests.
IntactByLock(mirror) == mirror.lock = mirror.profile

\* Lock, profiles and schemas are compared with constants of the code, never with each other.
LockIntact(mirror) == mirror.lock = Canonical.lock
ProfileIntact(mirror) == mirror.profile = Canonical.profile
SchemasIntact(mirror) == mirror.schemas = Canonical.schemas

Intact(mirror) == LockIntact(mirror) /\ ProfileIntact(mirror) /\ SchemasIntact(mirror)

Classes(profile) == {profile[i].class : i \in DOMAIN profile}
ScopeOf(profile, class) ==
  profile[CHOOSE i \in DOMAIN profile : profile[i].class = class].scope

Preauthorized(c) == {i \in DOMAIN c.auths : c.auths[i].basis = "PROFILE_PREAUTHORIZED"}

\* An authorization that cites the profile claims classes of the profile only, and each of
\* its effects has the canonical scope of its class.
ProfileRules(c, profile) ==
  {r \in {"ambiguous", "class", "effect", "scope"} :
     /\ Preauthorized(c) # {}
     /\ \/ r = "ambiguous" /\ \E i, j \in DOMAIN profile : i # j /\ profile[i].class = profile[j].class
        \/ r = "class" /\ \E i \in Preauthorized(c) : ~(c.auths[i].classes \subseteq Classes(profile))
        \/ \E k \in DOMAIN c.effects, i \in Preauthorized(c) :
             LET e == c.effects[k] a == c.auths[i] IN
               /\ e.auth = a.id
               /\ \/ r = "effect" /\ e.class \notin Classes(profile)
                  \/ /\ r = "scope" /\ e.class \in Classes(profile)
                     /\ \E s \in {e.scope, a.scope} : s # ScopeOf(profile, e.class)}

\* The two looks at a carrier, each with a load of its own.
FirstLook(c, mirror) ==
  Intact(mirror) /\ SchemaValid(c) /\ MechanicalRules(c, Consumed) = {}
SecondLook(c, mirror) == Intact(mirror) /\ ProfileRules(c, mirror.profile) = {}
==============================================================================
