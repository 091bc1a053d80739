-------------------------- MODULE CorpusEvaluation --------------------------
(***************************************************************************)
(* One canonical scenario on its way through the four adapters:            *)
(* generate-corpus.py writes every engine's native request and its policy  *)
(* with the decoys of a tier, then each engine answers on its own machine. *)
(***************************************************************************)
EXTENDS CoursePolicy

CONSTANTS
  Empty,       \* the empty string of a scenarios.tsv field
  Scenarios,   \* records over Attributes
  DecoySets    \* the decoys of each tier

VARIABLES
  scenario,    \* the canonical scenario
  decoys,      \* the decoys of the tier that is generated
  native,      \* native[e]: the request that reaches engine e, once generated
  answer       \* answer[e]: what engine e's runner records as "actual"

vars == <<scenario, decoys, native, answer>>

Engines == {"middle-layer", "sunxacml", "authzforce", "casbin-cpp"}

XacmlEngines == Engines \ {"casbin-cpp"}

Integer == {"clearance", "classification", "hour"}

Unknown == "unknown"

(* Integer attributes are integers, the others are not numbers, and Absent *)
(* and Empty are neither.                                                  *)
ASSUME CorpusAssumption ==
  /\ Absent \notin Int /\ Empty \notin Int /\ Absent # Empty
  /\ \A r \in {"admin", "lecturer", "SELECT", "UPDATE", "DELETE", "campus", "vpn"} :
       r # Absent /\ r # Empty
  /\ \A s \in Scenarios :
       /\ DOMAIN s = Attributes
       /\ \A a \in Integer : s[a] \in Int \cup {Absent}
       /\ \A a \in Attributes : s[a] # Empty

Init ==
  /\ scenario \in Scenarios
  /\ decoys \in DecoySets
  /\ native = [e \in {} |-> Unknown]
  /\ answer = [e \in Engines |-> Unknown]

-----------------------------------------------------------------------------
(* field(): a missing attribute becomes an empty TSV field.                *)
Field(v) == IF v = Absent THEN Empty ELSE v

ScenariosTsv(s) == [a \in Attributes |-> Field(s[a])]

EmptyToNull(v) == IF v = Empty THEN Absent ELSE v

(* Faulty: an empty subject id is taken over from the owner field.        *)
FaultyFromTsv(row) ==
  [a \in Attributes |-> CASE a = "id" /\ row[a] = Empty -> EmptyToNull(row["owner"])
                         [] a \in {"id", "action"}       -> row[a]
                         [] OTHER                        -> EmptyToNull(row[a])]

(* evaluateRow() and buildDataMap(): every attribute but the subject id    *)
(* and the action drops out of the request when its field is empty.        *)
FromTsv(row) ==
  [a \in Attributes |-> IF a \in {"id", "action"} THEN row[a] ELSE EmptyToNull(row[a])]

(* build_xacml3_request and build_xacml2_request leave a missing attribute *)
(* out of the request.                                                     *)
RequestXml(s) == s

NativeRequest(e, s) ==
  IF e \in {"middle-layer", "casbin-cpp"} THEN FromTsv(ScenariosTsv(s)) ELSE RequestXml(s)

(* The answers that engine e can give to request r at a tier.              *)
Answers(e, r, d) ==
  CASE e = "casbin-cpp" -> CasbinAnswers(r)
    [] e = "sunxacml"   -> {Xacml2(r, d, stops) : stops \in BOOLEAN}
    [] OTHER            -> {Xacml3(r, d, stops) : stops \in BOOLEAN}

Generate ==
  /\ DOMAIN native = {}
  /\ native' = [e \in Engines |-> NativeRequest(e, scenario)]
  /\ UNCHANGED <<scenario, decoys, answer>>

(* The four correctness runs.  Each is a process of its own on its own     *)
(* machine and reads only its own files, so their order is left out.       *)
Evaluate ==
  /\ DOMAIN native = Engines
  /\ answer["authzforce"] = Unknown
  /\ \E m \in Answers("middle-layer", native["middle-layer"], decoys),
        s \in Answers("sunxacml", native["sunxacml"], decoys),
        a \in Answers("authzforce", native["authzforce"], decoys),
        c \in Answers("casbin-cpp", native["casbin-cpp"], decoys) :
       answer' = [e \in Engines |-> CASE e = "middle-layer" -> m
                                      [] e = "sunxacml"     -> s
                                      [] e = "authzforce"   -> a
                                      [] e = "casbin-cpp"   -> c]
  /\ UNCHANGED <<scenario, decoys, native>>

Next == Generate \/ Evaluate

Spec == Init /\ [][Next]_vars

-----------------------------------------------------------------------------
(* The policy as its Description tells it, for a complete scenario.        *)
GroundTruth(s) ==
  LET env == s.network \in {"campus", "vpn"} /\ s.hour \in 8..20
      permitted ==
        /\ env
        /\ \/ s.role = "admin" /\ s.action \in {"SELECT", "UPDATE"}
           \/ s.owner = s.id /\ s.action = "SELECT"
           \/ /\ s.role = "lecturer" /\ s.action \in {"SELECT", "UPDATE"}
              /\ s.department = s.resourceDepartment
              /\ s.clearance >= s.classification
  IN  IF s.action \notin InScope THEN "NotApplicable"
      ELSE IF permitted THEN "Permit" ELSE "Deny"

AdminDelete(s) == s.role = "admin" /\ s.action = "DELETE"

(* On a scenario with all its attributes every engine answers, at every    *)
(* tier, what the policy's Description says (Casbin with Deny for          *)
(* NotApplicable), an administrator's DELETE aside.                        *)
GroundTruthHolds ==
  \A e \in Engines :
    (answer[e] # Unknown /\ Missing(scenario) = {} /\ ~AdminDelete(scenario)) =>
      \/ answer[e] = GroundTruth(scenario)
      \/ e = "casbin-cpp" /\ answer[e] = "Deny" /\ GroundTruth(scenario) = "NotApplicable"

(* The decoys of a tier never change an answer, whether they match the     *)
(* scenario or not and whatever attributes it lacks.                       *)
DecoysAreNeutral ==
  \A e \in Engines : answer[e] # Unknown => answer[e] \in Answers(e, native[e], {})

(* Engines may refuse in different words, never disagree on a Permit: the  *)
(* XACML engines permit the same scenarios even when attributes are        *)
(* missing, and what Casbin permits they permit.                           *)
PermitAgreement ==
  \A e \in Engines, f \in XacmlEngines :
    (answer[e] = "Permit" /\ answer[f] # Unknown) => answer[f] = "Permit"

Completes(c, s) == (\A a \in Attributes : s[a] \in {Absent, c[a]}) /\ Missing(c) = {}

(* An engine that permits a scenario with attributes missing permits it    *)
(* whatever those attributes turn out to be.                               *)
PermitSurvivesCompletion ==
  \A e \in Engines : (answer[e] = "Permit" /\ Missing(scenario) # {}) =>
    \A c \in Scenarios :
      Completes(c, scenario) => Answers(e, NativeRequest(e, c), decoys) = {"Permit"}

-----------------------------------------------------------------------------
(* The XACML 2.0 translation has "Same semantics" as the XACML 3.0 policy: *)
(* on every scenario SunXACML and AuthzForce can give the same answer.     *)
SameSemantics ==
  DOMAIN native = Engines =>
    Answers("sunxacml", native["sunxacml"], decoys)
      \cap Answers("authzforce", native["authzforce"], decoys) # {}

(* "A missing canonical attribute is represented by omitting it from the   *)
(* request entirely (not an empty string)".                                *)
MissingIsOmitted ==
  \A e \in DOMAIN native : \A a \in Missing(scenario) : native[e][a] = Absent

(* "admins may SELECT/UPDATE any course score [...] everything else in     *)
(* scope (SELECT/UPDATE/DELETE) is denied".                                *)
AdminsSelectOrUpdate ==
  \A e \in XacmlEngines :
    (scenario.role = "admin" /\ answer[e] = "Permit") => scenario.action # "DELETE"

(* "Decoy rules never match any canonical scenario".                       *)
DecoysNeverMatch ==
  \A e \in DOMAIN native \cap XacmlEngines, d \in decoys :
    Decoy(d, native[e], e # "sunxacml") # "Deny"
=============================================================================
