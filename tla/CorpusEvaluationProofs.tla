----------------------- MODULE CorpusEvaluationProofs -----------------------
(***************************************************************************)
(* What the adapters answer, for every set of scenarios and every set of   *)
(* decoys.  The argument: whether a policy permits depends on a condition  *)
(* on the request alone, the same in all native forms; what is left to     *)
(* MustBePresent, to the libraries' treatment of errors and to the decoys  *)
(* is only how a request that is not permitted is refused.                 *)
(***************************************************************************)
EXTENDS CorpusEvaluation, TLAPS

(* The environment condition that all rules share.                         *)
Environment(r) ==
  /\ r.network \in {"campus", "vpn"}
  /\ r.hour # Absent /\ r.hour >= 8 /\ 20 >= r.hour

(* The condition under which the XACML policies permit a request.          *)
Permits(r) ==
  /\ r.action \in InScope
  /\ Environment(r)
  /\ \/ r.role = "admin"
     \/ r.action = "SELECT" /\ Absent \notin {r.owner, r.id} /\ r.owner = r.id
     \/ /\ r.role = "lecturer" /\ r.action \in {"SELECT", "UPDATE"}
        /\ Absent \notin {r.department, r.resourceDepartment}
        /\ r.department = r.resourceDepartment
        /\ Absent \notin {r.clearance, r.classification}
        /\ r.clearance >= r.classification

(* A conjunction is true exactly when both operands are, whatever the      *)
(* library does with errors.                                               *)
LEMMA AndTrue ==
  ASSUME NEW a, NEW b, NEW stops \in BOOLEAN
  PROVE  And(a, b, stops) = "true" <=> a = "true" /\ b = "true"
BY DEF And

(* A conjunction of two truth values is a truth value.                     *)
LEMMA AndDefined ==
  ASSUME NEW a \in {"true", "false"}, NEW b \in {"true", "false"}, NEW stops
  PROVE  And(a, b, stops) \in {"true", "false"}
BY DEF And

(* A rule permits exactly when its target and its condition are true.      *)
LEMMA RulePermits ==
  ASSUME NEW target, NEW condition
  PROVE  Rule("Permit", target, condition) = "Permit"
           <=> target = "true" /\ condition = "true"
BY DEF Rule

(* A rule whose target and condition are truth values is not Indeterminate. *)
LEMMA RuleDefined ==
  ASSUME NEW target \in {"true", "false"}, NEW condition \in {"true", "false"}
  PROVE  Rule("Permit", target, condition) \in {"Permit", "NotApplicable"}
BY DEF Rule

(* The comparisons are true exactly when both attributes are there and     *)
(* compare.                                                                *)
LEMMA ComparisonTrue ==
  ASSUME NEW a, NEW b
  PROVE  /\ Equal(a, b) = "true" <=> Absent \notin {a, b} /\ a = b
         /\ AtLeast(a, b) = "true" <=> Absent \notin {a, b} /\ a >= b
         /\ Absent \notin {a, b} => /\ Equal(a, b) \in {"true", "false"}
                                    /\ AtLeast(a, b) \in {"true", "false"}
BY DEF Equal, AtLeast, Truth

(* A Match is true exactly when the attribute is there and among the       *)
(* values, with or without MustBePresent.                                  *)
LEMMA MatchTrue ==
  ASSUME NEW a, NEW values, NEW must \in BOOLEAN
  PROVE  /\ Match(a, values, must) = "true" <=> a # Absent /\ a \in values
         /\ a # Absent => Match(a, values, must) \in {"true", "false"}
BY DEF Match, Truth

(* The environment condition is true exactly when network and hour are     *)
(* there and fit, and has a truth value when they are there.               *)
LEMMA EnvironmentTrue ==
  ASSUME NEW r, NEW stops \in BOOLEAN
  PROVE  /\ NetworkAndHour(r, stops) = "true" <=> Environment(r)
         /\ Absent \notin {r.network, r.hour} =>
              NetworkAndHour(r, stops) \in {"true", "false"}
<1> DEFINE net  == Or(Equal(r.network, "campus"), Equal(r.network, "vpn"))
           hour == And(AtLeast(r.hour, 8), AtLeast(20, r.hour), stops)
<1>0. Absent \notin {"campus", "vpn"} /\ Absent # 8 /\ Absent # 20
  BY CorpusAssumption
<1>1. net = "true" <=> r.network \in {"campus", "vpn"}
  BY <1>0 DEF Or, Equal, Truth
<1>2. r.network # Absent => net \in {"true", "false"}
  BY <1>0 DEF Or, Equal, Truth
<1>3. hour = "true" <=> r.hour # Absent /\ r.hour >= 8 /\ 20 >= r.hour
  BY <1>0, AndTrue, ComparisonTrue
<1>4. r.hour # Absent => hour \in {"true", "false"}
  BY <1>0, AndDefined, ComparisonTrue
<1>5. NetworkAndHour(r, stops) = And(net, hour, stops)
  BY DEF NetworkAndHour
<1> HIDE DEF net, hour
<1>6. NetworkAndHour(r, stops) = "true" <=> Environment(r)
  BY <1>1, <1>3, <1>5, AndTrue DEF Environment
<1>7. Absent \notin {r.network, r.hour} =>
        NetworkAndHour(r, stops) \in {"true", "false"}
  BY <1>2, <1>4, <1>5, AndDefined
<1>. QED  BY <1>6, <1>7

(* A decoy denies, does not apply or fails to deny: it never permits.      *)
LEMMA DecoyDenies ==
  ASSUME NEW d, NEW r, NEW must
  PROVE  Decoy(d, r, must) \in {"Deny", "NotApplicable", "IndeterminateD"}
<1>. PICK target, condition : Decoy(d, r, must) = Rule("Deny", target, condition)
  BY DEF Decoy
<1>. QED  BY DEF Rule

(* Permits is the condition under which one of the three Permit rules      *)
(* permits.                                                                *)
LEMMA RulesPermit ==
  ASSUME NEW r, NEW must \in BOOLEAN, NEW stops \in BOOLEAN, r.action \in InScope
  PROVE  Permits(r) <=> \/ AdminOverride(r, must, stops) = "Permit"
                        \/ OwnerSelect(r, must, stops) = "Permit"
                        \/ LecturerDepartmentClearance(r, must, stops) = "Permit"
<1>0. Absent \notin {"admin", "lecturer", "SELECT", "UPDATE", "DELETE"}
  BY CorpusAssumption
<1>1. AdminOverride(r, must, stops) = "Permit" <=> r.role = "admin" /\ Environment(r)
  BY <1>0, RulePermits, MatchTrue, EnvironmentTrue DEF AdminOverride
<1>2. OwnerSelect(r, must, stops) = "Permit" <=>
        /\ r.action = "SELECT" /\ Environment(r)
        /\ Absent \notin {r.owner, r.id} /\ r.owner = r.id
  BY <1>0, RulePermits, MatchTrue, AndTrue, ComparisonTrue, EnvironmentTrue DEF OwnerSelect
<1>3. LecturerDepartmentClearance(r, must, stops) = "Permit" <=>
        /\ r.role = "lecturer" /\ r.action \in {"SELECT", "UPDATE"} /\ Environment(r)
        /\ Absent \notin {r.department, r.resourceDepartment}
        /\ r.department = r.resourceDepartment
        /\ Absent \notin {r.clearance, r.classification}
        /\ r.clearance >= r.classification
  <2> DEFINE target == And(Match(r.role, {"lecturer"}, must),
                           Match(r.action, {"SELECT", "UPDATE"}, must), stops)
             inner  == And(AtLeast(r.clearance, r.classification),
                           NetworkAndHour(r, stops), stops)
             cond   == And(Equal(r.department, r.resourceDepartment), inner, stops)
  <2>1. target = "true" <=> r.role = "lecturer" /\ r.action \in {"SELECT", "UPDATE"}
    BY <1>0, AndTrue, MatchTrue
  <2>2. inner = "true" <=> /\ Absent \notin {r.clearance, r.classification}
                           /\ r.clearance >= r.classification /\ Environment(r)
    BY AndTrue, ComparisonTrue, EnvironmentTrue
  <2>3. cond = "true" <=> /\ Absent \notin {r.department, r.resourceDepartment}
                          /\ r.department = r.resourceDepartment /\ inner = "true"
    BY AndTrue, ComparisonTrue
  <2>4. LecturerDepartmentClearance(r, must, stops) = Rule("Permit", target, cond)
    BY DEF LecturerDepartmentClearance
  <2> HIDE DEF target, inner, cond
  <2>. QED  BY <2>1, <2>2, <2>3, <2>4, RulePermits
<1>. QED  BY <1>1, <1>2, <1>3 DEF Permits

(* The decoys leave the combined decision alone: the last rule always      *)
(* denies, and no decoy can do more than that.                             *)
LEMMA PolicyIgnoresDecoys ==
  ASSUME NEW r, NEW d, NEW must \in BOOLEAN, NEW stops \in BOOLEAN
  PROVE  Policy(r, d, must, stops) = Policy(r, {}, must, stops)
<1> DEFINE base  == RuleResults(r, {}, must, stops)
           extra == {Decoy(x, r, must) : x \in d}
<1>1. RuleResults(r, d, must, stops) = base \cup extra
  BY DEF RuleResults
<1>2. extra \subseteq {"Deny", "NotApplicable", "IndeterminateD"}
  BY DecoyDenies
<1>3. "Deny" \in base
  BY DEF RuleResults, DefaultDeny, Rule
<1> HIDE DEF base, extra
<1>4. PermitOverrides(base \cup extra) = PermitOverrides(base)
  <2>1. \A x \in {"Permit", "IndeterminateP"} : x \in base \cup extra <=> x \in base
    BY <1>2
  <2>2. "Deny" \in base \cup extra
    BY <1>3
  <2>. QED  BY <2>1, <2>2, <1>3 DEF PermitOverrides
<1>. QED  BY <1>1, <1>4 DEF Policy, base

(* A policy permits exactly the requests that satisfy Permits.             *)
LEMMA PolicyPermits ==
  ASSUME NEW r, NEW d, NEW must \in BOOLEAN, NEW stops \in BOOLEAN
  PROVE  Policy(r, d, must, stops) = "Permit" <=> Permits(r)
<1> DEFINE target == Match(r.action, InScope, must)
           base   == RuleResults(r, {}, must, stops)
<1>0. Absent \notin InScope
  BY CorpusAssumption DEF InScope
<1>1. target = "true" <=> r.action \in InScope
  BY <1>0, MatchTrue
<1>2. target \in {"true", "false", "error"}
  BY DEF Match, Truth
<1>3. Policy(r, {}, must, stops) = CASE target = "false" -> "NotApplicable"
                                     [] target = "error" -> "Indeterminate"
                                     [] target = "true"  -> PermitOverrides(base)
  BY DEF Policy
<1>4. PermitOverrides(base) = "Permit" <=> "Permit" \in base
  BY DEF PermitOverrides
<1>5. r.action \in InScope => ("Permit" \in base <=> Permits(r))
  BY RulesPermit DEF RuleResults, DefaultDeny, Rule
<1> HIDE DEF target, base
<1>6. Policy(r, {}, must, stops) = "Permit" <=> target = "true" /\ PermitOverrides(base) = "Permit"
  BY <1>2, <1>3
<1>7. Policy(r, {}, must, stops) = "Permit" <=> Permits(r)
  BY <1>1, <1>4, <1>5, <1>6 DEF Permits
<1>. QED  BY <1>7, PolicyIgnoresDecoys

(* A request with all its attributes is permitted or denied when its       *)
(* action is in scope, and otherwise the policy does not apply.            *)
LEMMA PolicyOfComplete ==
  ASSUME NEW r, NEW d, NEW must \in BOOLEAN, NEW stops \in BOOLEAN, Missing(r) = {}
  PROVE  /\ r.action \in InScope => Policy(r, d, must, stops) \in {"Permit", "Deny"}
         /\ r.action \notin InScope => Policy(r, d, must, stops) = "NotApplicable"
<1> DEFINE base == RuleResults(r, {}, must, stops)
<1>1. \A a \in Attributes : r[a] # Absent
  BY DEF Missing
<1>2. /\ r.role # Absent /\ r.action # Absent /\ r.id # Absent /\ r.owner # Absent
      /\ r.department # Absent /\ r.resourceDepartment # Absent
      /\ r.clearance # Absent /\ r.classification # Absent
      /\ r.network # Absent /\ r.hour # Absent
  BY <1>1 DEF Attributes
<1>3. NetworkAndHour(r, stops) \in {"true", "false"}
  BY <1>2, EnvironmentTrue
<1>4. AdminOverride(r, must, stops) \in {"Permit", "NotApplicable"}
  BY <1>2, <1>3, MatchTrue, RuleDefined DEF AdminOverride
<1>5. OwnerSelect(r, must, stops) \in {"Permit", "NotApplicable"}
  BY <1>2, <1>3, MatchTrue, ComparisonTrue, AndDefined, RuleDefined DEF OwnerSelect
<1>6. LecturerDepartmentClearance(r, must, stops) \in {"Permit", "NotApplicable"}
  <2>1. And(Match(r.role, {"lecturer"}, must), Match(r.action, {"SELECT", "UPDATE"}, must), stops)
          \in {"true", "false"}
    BY <1>2, MatchTrue, AndDefined
  <2>2. And(AtLeast(r.clearance, r.classification), NetworkAndHour(r, stops), stops)
          \in {"true", "false"}
    BY <1>2, <1>3, ComparisonTrue, AndDefined
  <2>3. And(Equal(r.department, r.resourceDepartment),
            And(AtLeast(r.clearance, r.classification), NetworkAndHour(r, stops), stops), stops)
          \in {"true", "false"}
    BY <1>2, <2>2, ComparisonTrue, AndDefined
  <2>. QED  BY <2>1, <2>3, RuleDefined DEF LecturerDepartmentClearance
<1>7. "IndeterminateP" \notin base /\ "Deny" \in base
  BY <1>4, <1>5, <1>6 DEF RuleResults, DefaultDeny, Rule
<1>8. PermitOverrides(base) \in {"Permit", "Deny"}
  BY <1>7 DEF PermitOverrides
<1>9. Match(r.action, InScope, must) = Truth(r.action \in InScope)
  BY <1>2 DEF Match
<1>10. Policy(r, {}, must, stops) =
         IF r.action \in InScope THEN PermitOverrides(base) ELSE "NotApplicable"
  BY <1>9 DEF Policy, Truth
<1>. QED  BY <1>8, <1>10, PolicyIgnoresDecoys

-----------------------------------------------------------------------------
(* Where a native request differs from its scenario: only a missing id or  *)
(* action can arrive as the empty string.                                  *)
LEMMA NativeAttribute ==
  ASSUME NEW s \in Scenarios, NEW e \in Engines, NEW a \in Attributes
  PROVE  LET r == NativeRequest(e, s)
         IN  /\ s[a] # Absent => r[a] = s[a]
             /\ s[a] = Absent => r[a] \in {Absent, Empty}
             /\ a \notin {"id", "action"} => r[a] = s[a]
<1>1. s[a] # Empty /\ Absent # Empty
  BY CorpusAssumption
<1>2. RequestXml(s)[a] = s[a]
  BY DEF RequestXml
<1>3. ScenariosTsv(s)[a] = IF s[a] = Absent THEN Empty ELSE s[a]
  BY DEF ScenariosTsv, Field
<1>4. FromTsv(ScenariosTsv(s))[a] =
        IF a \in {"id", "action"} THEN ScenariosTsv(s)[a]
        ELSE EmptyToNull(ScenariosTsv(s)[a])
  BY DEF FromTsv
<1>5. a \notin {"id", "action"} => FromTsv(ScenariosTsv(s))[a] = s[a]
  BY <1>1, <1>3, <1>4 DEF EmptyToNull
<1>6. a \in {"id", "action"} => FromTsv(ScenariosTsv(s))[a] = ScenariosTsv(s)[a]
  BY <1>4
<1>. QED  BY <1>1, <1>2, <1>3, <1>5, <1>6 DEF NativeRequest

(* A native request satisfies Permits exactly when its scenario does.      *)
LEMMA NativePermits ==
  ASSUME NEW s \in Scenarios, NEW e \in Engines
  PROVE  Permits(NativeRequest(e, s)) <=> Permits(s)
<1> DEFINE r == NativeRequest(e, s)
<1>1. /\ r.role = s.role /\ r.department = s.department /\ r.owner = s.owner
      /\ r.resourceDepartment = s.resourceDepartment /\ r.clearance = s.clearance
      /\ r.classification = s.classification /\ r.network = s.network /\ r.hour = s.hour
  BY NativeAttribute DEF Attributes
<1>2. /\ s.action # Absent => r.action = s.action
      /\ s.action = Absent => r.action \in {Absent, Empty}
      /\ s.id # Absent => r.id = s.id
      /\ s.id = Absent => r.id \in {Absent, Empty}
  BY NativeAttribute DEF Attributes
<1>3. s.owner # Empty
  BY CorpusAssumption DEF Attributes
<1>4. {Absent, Empty} \cap {"SELECT", "UPDATE", "DELETE"} = {}
  BY CorpusAssumption
<1> HIDE DEF r
<1>5. \A x \in {"SELECT", "UPDATE", "DELETE"} : r.action = x <=> s.action = x
  BY Zenon, <1>2, <1>4
<1>6. Environment(r) <=> Environment(s)
  BY <1>1 DEF Environment
<1>7. (Absent \notin {r.owner, r.id} /\ r.owner = r.id)
        <=> (Absent \notin {s.owner, s.id} /\ s.owner = s.id)
  BY <1>1, <1>2, <1>3
<1>. QED  BY <1>1, <1>5, <1>6, <1>7 DEF Permits, r, InScope

(* An XACML engine permits exactly the scenarios that satisfy Permits.     *)
LEMMA XacmlAnswerPermits ==
  ASSUME NEW s \in Scenarios, NEW e \in XacmlEngines, NEW d,
         NEW x \in Answers(e, NativeRequest(e, s), d)
  PROVE  x = "Permit" <=> Permits(s)
<1>1. e \in Engines /\ e # "casbin-cpp"
  BY DEF XacmlEngines, Engines
<1>2. PICK must \in BOOLEAN, stops \in BOOLEAN : x = Policy(NativeRequest(e, s), d, must, stops)
  <2>1. CASE e = "sunxacml"
    BY Zenon, <1>1, <2>1 DEF Answers, Xacml2
  <2>2. CASE e # "sunxacml"
    BY Zenon, <1>1, <2>2 DEF Answers, Xacml3
  <2>. QED  BY <2>1, <2>2
<1>. QED  BY <1>1, <1>2, PolicyPermits, NativePermits

(* What the Casbin matcher permits satisfies Permits, and the converse     *)
(* holds on requests that lack nothing, an administrator's DELETE aside.   *)
LEMMA MatcherPermits ==
  ASSUME NEW s \in Scenarios
  PROVE  LET r == NativeRequest("casbin-cpp", s)
         IN  Missing(r) = {} =>
               /\ CasbinMatcher(r) => Permits(s)
               /\ (Permits(s) /\ ~AdminDelete(s)) => CasbinMatcher(r)
<1> DEFINE r == NativeRequest("casbin-cpp", s)
<1>0. "casbin-cpp" \in Engines
  BY DEF Engines
<1> SUFFICES ASSUME Missing(r) = {}
             PROVE  /\ CasbinMatcher(r) => Permits(r)
                    /\ (Permits(r) /\ ~AdminDelete(s)) => CasbinMatcher(r)
  BY <1>0, NativePermits
<1>1. \A a \in Attributes : r[a] # Absent
  BY DEF Missing
<1>2. r.role = s.role /\ r.hour = s.hour
  BY <1>0, NativeAttribute DEF Attributes
<1>3. r.action = "DELETE" => s.action = "DELETE"
  <2>1. "DELETE" \notin {Absent, Empty}
    BY CorpusAssumption
  <2>. QED  BY <1>0, <2>1, NativeAttribute DEF Attributes
<1>4. r.hour \in Int
  <2>1. s.hour \in Int \cup {Absent}
    BY CorpusAssumption DEF Integer
  <2>. QED  BY <1>1, <1>2, <2>1 DEF Attributes
<1>5. /\ r.hour # Absent /\ r.owner # Absent /\ r.id # Absent /\ r.department # Absent
      /\ r.resourceDepartment # Absent /\ r.clearance # Absent /\ r.classification # Absent
  BY <1>1 DEF Attributes
<1> HIDE DEF r
<1>6. Environment(r) <=> r.network \in {"campus", "vpn"} /\ 8 <= r.hour /\ r.hour <= 20
  BY <1>4, <1>5 DEF Environment
<1>7. AdminDelete(s) <=> s.role = "admin" /\ s.action = "DELETE"
  BY DEF AdminDelete
<1>. QED  BY <1>2, <1>3, <1>5, <1>6, <1>7 DEF Permits, CasbinMatcher, InScope

-----------------------------------------------------------------------------
(* The inductive invariant: the requests are the ones generated from the   *)
(* scenario, and an answer is one the engine can give to its request.      *)
AnswersInv ==
  /\ scenario \in Scenarios
  /\ decoys \in DecoySets
  /\ DOMAIN native \in {{}, Engines}
  /\ DOMAIN native = Engines => native = [e \in Engines |-> NativeRequest(e, scenario)]
  /\ DOMAIN answer = Engines
  /\ \A e \in Engines : answer[e] # Unknown =>
       /\ DOMAIN native = Engines
       /\ answer[e] \in Answers(e, NativeRequest(e, scenario), decoys)

(* Every reachable state satisfies it: Generate writes the requests once,  *)
(* Evaluate records what the engines answer to them.                       *)
THEOREM AnswersInvariant == Spec => []AnswersInv
<1>1. Init => AnswersInv
  BY DEF Init, AnswersInv
<1>2. AnswersInv /\ [Next]_vars => AnswersInv'
  <2> SUFFICES ASSUME AnswersInv, [Next]_vars PROVE AnswersInv'
    OBVIOUS
  <2> USE DEF AnswersInv
  <2>1. CASE Generate
    <3>1. \A e \in Engines : answer[e] = Unknown
      <4>1. DOMAIN native # Engines
        BY <2>1 DEF Generate, Engines
      <4>. QED  BY <4>1
    <3>2. native' = [e \in Engines |-> NativeRequest(e, scenario)] /\ DOMAIN native' = Engines
      BY <2>1 DEF Generate
    <3>3. UNCHANGED <<scenario, decoys, answer>>
      BY <2>1 DEF Generate
    <3>. QED  BY <3>1, <3>2, <3>3
  <2>2. CASE Evaluate
    <3>1. UNCHANGED <<scenario, decoys, native>> /\ DOMAIN native = Engines
      BY <2>2 DEF Evaluate
    <3>2. \A e \in Engines : native[e] = NativeRequest(e, scenario)
      BY <3>1
    <3>3. /\ DOMAIN answer' = Engines
          /\ \A e \in Engines : answer'[e] \in Answers(e, native[e], decoys)
      BY <2>2 DEF Evaluate, Engines
    <3>. QED  BY <3>1, <3>2, <3>3
  <2>3. CASE UNCHANGED vars
    BY <2>3 DEF vars
  <2>. QED  BY <2>1, <2>2, <2>3 DEF Next
<1>. QED  BY <1>1, <1>2, PTL DEF Spec

(* The decoys of a tier never change an answer of any engine: tiers differ *)
(* in how long an answer takes, not in what it is.                         *)
THEOREM DecoysNeutral == Spec => []DecoysAreNeutral
<1>1. AnswersInv => DecoysAreNeutral
  <2> SUFFICES ASSUME AnswersInv, NEW e \in Engines, answer[e] # Unknown
               PROVE  answer[e] \in Answers(e, native[e], {})
    BY DEF DecoysAreNeutral
  <2>1. native[e] = NativeRequest(e, scenario) /\ answer[e] \in Answers(e, native[e], decoys)
    BY DEF AnswersInv
  <2>2. \A stops \in BOOLEAN : /\ Xacml2(native[e], decoys, stops) = Xacml2(native[e], {}, stops)
                               /\ Xacml3(native[e], decoys, stops) = Xacml3(native[e], {}, stops)
    BY Zenon, PolicyIgnoresDecoys DEF Xacml2, Xacml3
  <2>3. CASE e = "casbin-cpp"
    BY <2>1, <2>3 DEF Answers
  <2>4. CASE e = "sunxacml"
    BY <2>1, <2>2, <2>4 DEF Answers
  <2>5. CASE e \notin {"casbin-cpp", "sunxacml"}
    BY <2>1, <2>2, <2>5 DEF Answers
  <2>. QED  BY <2>3, <2>4, <2>5
<1>. QED  BY <1>1, AnswersInvariant, PTL

(* A Permit of any engine stands on Permits of the scenario.               *)
LEMMA PermitGrounded ==
  ASSUME NEW s \in Scenarios, NEW e \in Engines, NEW d,
         "Permit" \in Answers(e, NativeRequest(e, s), d)
  PROVE  Permits(s)
<1>1. CASE e = "casbin-cpp"
  BY <1>1, MatcherPermits DEF Answers, CasbinAnswers
<1>2. CASE e # "casbin-cpp"
  BY <1>2, XacmlAnswerPermits DEF XacmlEngines
<1>. QED  BY <1>1, <1>2

(* No two engines disagree on a Permit: what one permits, every XACML      *)
(* engine permits, with attributes missing or not.                         *)
THEOREM EnginesAgreeOnPermit == Spec => []PermitAgreement
<1>1. AnswersInv => PermitAgreement
  <2> SUFFICES ASSUME AnswersInv, NEW e \in Engines, NEW f \in XacmlEngines,
                      answer[e] = "Permit", answer[f] # Unknown
               PROVE  answer[f] = "Permit"
    BY DEF PermitAgreement
  <2>1. f \in Engines /\ answer[e] # Unknown
    BY DEF XacmlEngines, Unknown
  <2>2. /\ scenario \in Scenarios
        /\ answer[e] \in Answers(e, NativeRequest(e, scenario), decoys)
        /\ answer[f] \in Answers(f, NativeRequest(f, scenario), decoys)
    BY <2>1 DEF AnswersInv
  <2>3. Permits(scenario)
    BY <2>2, PermitGrounded
  <2>. QED  BY <2>2, <2>3, XacmlAnswerPermits
<1>. QED  BY <1>1, AnswersInvariant, PTL

(* Filling in missing attributes cannot falsify Permits: it only reads     *)
(* attributes that are there.                                              *)
LEMMA CompletionPermits ==
  ASSUME NEW s \in Scenarios, NEW c \in Scenarios, Completes(c, s), Permits(s)
  PROVE  Permits(c)
<1>1. \A a \in Attributes : s[a] # Absent => c[a] = s[a]
  BY DEF Completes
<1>2. Absent \notin {"admin", "lecturer", "SELECT", "UPDATE", "DELETE", "campus", "vpn"}
  BY CorpusAssumption
<1>3. c.action = s.action /\ c.network = s.network /\ c.hour = s.hour
  BY <1>1, <1>2 DEF Permits, InScope, Environment, Attributes
<1>4. Environment(c)
  BY <1>3 DEF Permits, Environment
<1>5. CASE s.role = "admin"
  BY <1>1, <1>2, <1>3, <1>4, <1>5 DEF Permits, Attributes
<1>6. CASE s.action = "SELECT" /\ Absent \notin {s.owner, s.id} /\ s.owner = s.id
  <2>1. c.owner = s.owner /\ c.id = s.id
    BY <1>1, <1>6 DEF Attributes
  <2>. QED  BY <1>3, <1>4, <1>6, <2>1 DEF Permits, InScope
<1>7. CASE /\ s.role = "lecturer" /\ s.action \in {"SELECT", "UPDATE"}
           /\ Absent \notin {s.department, s.resourceDepartment}
           /\ s.department = s.resourceDepartment
           /\ Absent \notin {s.clearance, s.classification}
           /\ s.clearance >= s.classification
  <2>1. /\ c.role = s.role /\ c.department = s.department /\ c.clearance = s.clearance
        /\ c.resourceDepartment = s.resourceDepartment /\ c.classification = s.classification
    BY <1>1, <1>2, <1>7 DEF Attributes
  <2>. QED  BY <1>3, <1>4, <1>7, <2>1 DEF Permits, InScope
<1>. QED  BY <1>5, <1>6, <1>7 DEF Permits

(* The answers to a complete scenario: for an XACML engine there is one,   *)
(* for Casbin it is the matcher's.                                         *)
LEMMA CompleteAnswers ==
  ASSUME NEW c \in Scenarios, Missing(c) = {}, NEW e \in Engines, NEW d
  PROVE  /\ e = "casbin-cpp" =>
              Answers(e, NativeRequest(e, c), d) =
                {IF CasbinMatcher(NativeRequest(e, c)) THEN "Permit" ELSE "Deny"}
         /\ Permits(c) /\ e # "casbin-cpp" => Answers(e, NativeRequest(e, c), d) = {"Permit"}
         /\ ~Permits(c) /\ e # "casbin-cpp" => Answers(e, NativeRequest(e, c), d) =
              {IF c.action \in InScope THEN "Deny" ELSE "NotApplicable"}
<1> DEFINE r == NativeRequest(e, c)
<1>1. \A a \in Attributes : r[a] = c[a] /\ c[a] # Absent
  BY NativeAttribute DEF Missing
<1>2. Missing(r) = {} /\ r.action = c.action
  BY <1>1 DEF Missing, Attributes
<1>3. \A must, stops \in BOOLEAN : Policy(r, d, must, stops) =
        IF Permits(c) THEN "Permit" ELSE IF c.action \in InScope THEN "Deny" ELSE "NotApplicable"
  <2> TAKE must, stops \in BOOLEAN
  <2>1. Policy(r, d, must, stops) = "Permit" <=> Permits(c)
    BY PolicyPermits, NativePermits
  <2>2. /\ c.action \in InScope => Policy(r, d, must, stops) \in {"Permit", "Deny"}
        /\ c.action \notin InScope => Policy(r, d, must, stops) = "NotApplicable"
    BY <1>2, PolicyOfComplete
  <2>3. Permits(c) => c.action \in InScope
    BY DEF Permits
  <2>. QED  BY <2>1, <2>2, <2>3
<1> HIDE DEF r
<1>4. CASE e = "casbin-cpp"
  BY <1>2, <1>4 DEF Answers, CasbinAnswers, r
<1>5. CASE e = "sunxacml"
  BY Zenon, <1>3, <1>5 DEF Answers, Xacml2, r
<1>6. CASE e \notin {"casbin-cpp", "sunxacml"}
  BY Zenon, <1>3, <1>6 DEF Answers, Xacml3, r
<1>. QED  BY <1>4, <1>5, <1>6

(* A Permit given without some attributes stays a Permit whatever they     *)
(* turn out to be.                                                         *)
THEOREM PermitsSurvive == Spec => []PermitSurvivesCompletion
<1>1. AnswersInv => PermitSurvivesCompletion
  <2> SUFFICES ASSUME AnswersInv, NEW e \in Engines, answer[e] = "Permit",
                      NEW c \in Scenarios, Completes(c, scenario)
               PROVE  Answers(e, NativeRequest(e, c), decoys) = {"Permit"}
    BY DEF PermitSurvivesCompletion
  <2>1. scenario \in Scenarios /\ "Permit" \in Answers(e, NativeRequest(e, scenario), decoys)
    BY DEF AnswersInv, Unknown
  <2>2. Permits(c)
    BY <2>1, PermitGrounded, CompletionPermits
  <2>3. Missing(c) = {}
    BY DEF Completes
  <2>4. CASE e # "casbin-cpp"
    BY <2>2, <2>3, <2>4, CompleteAnswers
  <2>5. CASE e = "casbin-cpp"
    <3> DEFINE q == NativeRequest(e, scenario)
               r == NativeRequest(e, c)
    <3>1. CasbinMatcher(q)
      BY <2>1, <2>5 DEF Answers, CasbinAnswers
    <3>2. q.action \in {"SELECT", "UPDATE"}
      BY <3>1 DEF CasbinMatcher
    <3>3. scenario.action = q.action /\ scenario.action # Absent
      <4>1. {Absent, Empty} \cap {"SELECT", "UPDATE"} = {}
        BY CorpusAssumption
      <4>2. /\ scenario.action # Absent => q.action = scenario.action
            /\ scenario.action = Absent => q.action \in {Absent, Empty}
        BY <2>1, NativeAttribute DEF Attributes
      <4>. QED  BY Zenon, <3>2, <4>1, <4>2
    <3>4. c.action = scenario.action
      BY <3>3 DEF Completes, Attributes
    <3>5. ~AdminDelete(c)
      BY <3>2, <3>3, <3>4 DEF AdminDelete
    <3>6. Missing(r) = {}
      BY <2>3, NativeAttribute DEF Missing
    <3>7. CasbinMatcher(r)
      BY <2>2, <2>5, <3>5, <3>6, MatcherPermits
    <3>. QED  BY <2>3, <2>5, <3>7, CompleteAnswers
  <2>. QED  BY <2>4, <2>5
<1>. QED  BY <1>1, AnswersInvariant, PTL

(* On a complete scenario the Description's condition is Permits, an       *)
(* administrator's DELETE aside.                                           *)
LEMMA GroundTruthPermits ==
  ASSUME NEW s \in Scenarios, Missing(s) = {}, ~AdminDelete(s)
  PROVE  GroundTruth(s) = IF Permits(s) THEN "Permit"
                          ELSE IF s.action \in InScope THEN "Deny" ELSE "NotApplicable"
<1>1. \A a \in Attributes : s[a] # Absent
  BY DEF Missing
<1>2. s.hour \in Int
  <2>1. s.hour \in Int \cup {Absent}
    BY CorpusAssumption DEF Integer
  <2>. QED  BY <1>1, <2>1 DEF Attributes
<1>3. /\ s.hour # Absent /\ s.owner # Absent /\ s.id # Absent /\ s.department # Absent
      /\ s.resourceDepartment # Absent /\ s.clearance # Absent /\ s.classification # Absent
  BY <1>1 DEF Attributes
<1>4. Environment(s) <=> s.network \in {"campus", "vpn"} /\ s.hour \in 8..20
  BY <1>2, <1>3 DEF Environment
<1>5. Permits(s) <=>
        /\ s.network \in {"campus", "vpn"} /\ s.hour \in 8..20
        /\ \/ s.role = "admin" /\ s.action \in {"SELECT", "UPDATE"}
           \/ s.owner = s.id /\ s.action = "SELECT"
           \/ /\ s.role = "lecturer" /\ s.action \in {"SELECT", "UPDATE"}
              /\ s.department = s.resourceDepartment
              /\ s.clearance >= s.classification
  BY <1>3, <1>4 DEF Permits, InScope, AdminDelete
<1>6. Permits(s) => s.action \in InScope
  BY DEF Permits
<1>. QED  BY <1>5, <1>6 DEF GroundTruth

(* On every complete scenario, an administrator's DELETE aside, all four   *)
(* engines answer what the policy's Description says.                      *)
THEOREM AnswersAreGroundTruth == Spec => []GroundTruthHolds
<1>1. AnswersInv => GroundTruthHolds
  <2> SUFFICES ASSUME AnswersInv, NEW e \in Engines, answer[e] # Unknown,
                      Missing(scenario) = {}, ~AdminDelete(scenario)
               PROVE  \/ answer[e] = GroundTruth(scenario)
                      \/ /\ e = "casbin-cpp" /\ answer[e] = "Deny"
                         /\ GroundTruth(scenario) = "NotApplicable"
    BY DEF GroundTruthHolds
  <2>1. /\ scenario \in Scenarios
        /\ answer[e] \in Answers(e, NativeRequest(e, scenario), decoys)
    BY DEF AnswersInv
  <2>2. CASE e # "casbin-cpp"
    <3>1. answer[e] = IF Permits(scenario) THEN "Permit"
                      ELSE IF scenario.action \in InScope THEN "Deny" ELSE "NotApplicable"
      BY <2>1, <2>2, CompleteAnswers
    <3>. QED  BY <2>1, <3>1, GroundTruthPermits
  <2>3. CASE e = "casbin-cpp"
    <3> DEFINE r == NativeRequest("casbin-cpp", scenario)
    <3>1. Missing(r) = {}
      BY <2>1, NativeAttribute DEF Missing, Engines
    <3>2. CasbinMatcher(r) <=> Permits(scenario)
      BY <2>1, <3>1, MatcherPermits
    <3>3. answer[e] = IF Permits(scenario) THEN "Permit" ELSE "Deny"
      BY <2>1, <2>3, <3>2, CompleteAnswers
    <3>. QED  BY <2>1, <2>3, <3>3, GroundTruthPermits
  <2>. QED  BY <2>2, <2>3
<1>. QED  BY <1>1, AnswersInvariant, PTL
=============================================================================
