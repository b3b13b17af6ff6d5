-------------------------- MODULE MCGovernanceGate --------------------------
(***************************************************************************)
(* Working trees, reviews and command lines for GovernanceGate.            *)
(***************************************************************************)
EXTENDS GovernanceGate, TLC

CONSTANTS c1, c2, k1, k2, r1, r2, i1, i2, s1, s2

Exact == [minimum |-> <<"exact_identity", "no_secrets">>, excluded |-> <<"pen_test">>,
          triggers |-> <<"customer_data">>]
Profile(controls) == [wrong |-> {}, controls |-> controls]

Entry(k, d) == [id |-> k, disposition |-> d]
Buckets3(now, done, later) ==
  [b \in Buckets |-> CASE b = "committed_now" -> now [] b = "implemented" -> done
                       [] b = "deferred" -> later [] OTHER -> {}]
Scope(target, buckets, memory) == [target |-> target, bucket |-> buckets, memory |-> memory]
ScopeA == Scope({k1, k2}, Buckets3({k1}, {}, {k2}), <<Entry(k1, "committed_now"), Entry(k2, "remembered")>>)
ScopeB == Scope({k1, k2}, Buckets3({}, {k1}, {k2}), <<Entry(k2, "deferred"), Entry(k1, "implemented")>>)

State(scope, rev) ==
  [conforms |-> TRUE, scope |-> scope, rev |-> rev, validation |-> <<"pytest">>,
   required |-> <<"profile", "state", "schema", "code", "tests">>, green |-> GreenPredicates,
   forbidden |-> FALSE]
AllFiles == [p \in Carriers |-> "content"]
TreeOf(state) == [profile |-> Profile(Exact), state |-> state, schema |-> "schema", files |-> AllFiles]

MCTree == (c1 :> TreeOf(State(ScopeA, "v1"))) @@ (c2 :> TreeOf(State(ScopeB, "v2")))
Base == MCTree[c1]

MCDrafts == {[Base EXCEPT !.files["code"] = "empty"], [Base EXCEPT !.state.scope = ScopeB]}

\* Trees an invocation must turn down for one reason each, and the lists it has to read closely.
Lists == UNION {[1..n -> {"no_secrets", "exact_identity", "pen_test"}] : n \in 0..3}
Memories == UNION {[1..n -> {Entry(k, d) : k \in {k1, k2}, d \in {"committed_now", "remembered"}}] : n \in 0..2}
Scopes == {Scope(t, Buckets3(n, d, l), m) :
             t \in SUBSET {k1, k2}, n \in SUBSET {k1, k2}, d \in SUBSET {k2}, l \in SUBSET {k1, k2},
             m \in Memories}
OddTrees ==
  {[Base EXCEPT !.profile = None], [Base EXCEPT !.schema = None], [Base EXCEPT !.state = None],
   [Base EXCEPT !.state.conforms = FALSE], [Base EXCEPT !.state.forbidden = TRUE],
   [Base EXCEPT !.state.green = GreenPredicates \ {"ci"}],
   [Base EXCEPT !.state.required = <<"profile", "state", "schema", "code">>],
   [Base EXCEPT !.files["schema"] = "escapes"], [Base EXCEPT !.files["tests"] = "missing"],
   [Base EXCEPT !.profile.wrong = {"repository"}]}
ReadClosely ==
  {[Base EXCEPT !.profile.controls.minimum = l] : l \in Lists}
  \cup {[Base EXCEPT !.state.scope = s] : s \in Scopes}

Request(mode, h, run, ctx, rev, session) ==
  [mode |-> mode, head |-> h, run |-> run, context |-> ctx, review |-> rev, session |-> session]
Requests ==
  {Request("record", c1, r1, FALSE, FALSE, None),
   Request("gate", c1, r1, TRUE, TRUE, s1), Request("gate", c1, r2, TRUE, FALSE, None),
   Request("gate", c1, r2, TRUE, TRUE, s2)}
Refusable == {Request("record", c1, NoRun, FALSE, FALSE, None), Request("gate", NotSha, NoRun, FALSE, FALSE, None)}
Plain == {Request("gate", c1, NoRun, FALSE, FALSE, None)}

Review(id, status, blocking, session) ==
  [id |-> id, head |-> c1, rev |-> "v1", current |-> TRUE, complete |-> TRUE, supported |-> TRUE,
   inspector |-> i1, session |-> session, declared |-> blocking, blocking |-> blocking,
   status |-> status, projected |-> [head |-> c1, rev |-> "v1", status |-> status]]
Green1 == Review(1, GREEN, 0, s2)
Red1 == Review(2, "RED_DO_NOT_MERGE", 1, s2)
Defective ==
  {[Green1 EXCEPT !.id = 3, !.rev = "v2"], [Green1 EXCEPT !.id = 4, !.current = FALSE],
   [Green1 EXCEPT !.id = 5, !.inspector = None], [Green1 EXCEPT !.id = 6, !.session = None],
   [Green1 EXCEPT !.id = 7, !.supported = FALSE], [Green1 EXCEPT !.id = 8, !.complete = FALSE],
   [Green1 EXCEPT !.id = 9, !.blocking = 1], [Green1 EXCEPT !.id = 10, !.projected.head = c2],
   [Green1 EXCEPT !.id = 11, !.projected.status = "YELLOW"]}
MCReviews == {Green1, Red1}

Scenario(t, requests, turns, edits, reviews) ==
  [tree |-> t, requests |-> requests, turn |-> turns, changes |-> edits, reviews |-> reviews]
MCScenarios ==
  {Scenario(Base, Requests, 0, 0, {Green1, Red1})}
  \cup {Scenario(t, Plain, MaxTurns - 1, MaxChanges, {Red1}) : t \in OddTrees \cup ReadClosely}
  \cup {Scenario(Base, Refusable, MaxTurns - 1, MaxChanges, {Red1})}
  \cup {Scenario(Base, Requests, MaxTurns - 1, MaxChanges, Defective)}

\* The documented command line, for either commit.
NamedHeads == {Scenario(Base, {Request("gate", h, r1, TRUE, FALSE, None) : h \in Commits}, 0, 0, {Red1})}
==============================================================================
