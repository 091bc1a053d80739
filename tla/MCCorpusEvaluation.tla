------------------------- MODULE MCCorpusEvaluation -------------------------
(***************************************************************************)
(* Instances of CorpusEvaluation: all complete scenarios over small value  *)
(* sets, all those that lack one attribute, and the canonical corpus, with *)
(* decoys the generator really draws (decoy-00013, -00020 and -00051).     *)
(***************************************************************************)
EXTENDS CorpusEvaluation, FiniteSets

CONSTANT MaxMissing   \* the number of attributes a scenario may lack

Values ==
  [id |-> {"alice", "bob"}, role |-> {"admin", "lecturer", "student"},
   department |-> {"CS", "Eng"}, clearance |-> {1, 2}, owner |-> {"alice"},
   resourceDepartment |-> {"CS"}, classification |-> {2},
   action |-> {"SELECT", "UPDATE", "DELETE", "TRUNCATE"},
   network |-> {"campus", "vpn", "external"}, hour |-> {7, 8, 20, 21}]

ScenariosLacking(lacking) ==
  LET V(a) == IF a \in lacking THEN {Absent} ELSE Values[a]
  IN  [id : V("id"), role : V("role"), department : V("department"),
       clearance : V("clearance"), owner : V("owner"),
       resourceDepartment : V("resourceDepartment"),
       classification : V("classification"), action : V("action"),
       network : V("network"), hour : V("hour")]

SmallScenarios ==
  UNION {ScenariosLacking(lacking) :
           lacking \in {l \in SUBSET Attributes : Cardinality(l) <= MaxMissing}}

GeneratedDecoys ==
  {[shape |-> "dept_clearance", value |-> "CS",     bound |-> 3],
   [shape |-> "action_hour",    value |-> "SELECT", bound |-> 5],
   [shape |-> "role_network",   value |-> "admin",  bound |-> "campus"]}

Tiers == {{}, GeneratedDecoys}

(* corpus/canonical/scenarios.json, abac-001 to abac-010.                  *)
Canonical(id, role, department, clearance, action, network, hour) ==
  [id |-> id, role |-> role, department |-> department, clearance |-> clearance,
   owner |-> "alice", resourceDepartment |-> "CS", classification |-> 2,
   action |-> action, network |-> network, hour |-> hour]

CanonicalScenarios ==
  {Canonical("admin_jones", "admin", "Registry", 5, "SELECT", "campus", 10),
   Canonical("prof_smith", "lecturer", "CS", 3, "UPDATE", "campus", 10),
   Canonical("prof_taylor", "lecturer", "Eng", 3, "SELECT", "campus", 10),
   Canonical("prof_lee", "lecturer", "CS", 1, "SELECT", "campus", 10),
   Canonical("bob", "student", "CS", 1, "SELECT", "campus", 10),
   Canonical("alice", "student", "CS", 1, "SELECT", "campus", 10),
   Canonical("alice", "student", "CS", 1, "SELECT", "external", 10),
   Canonical("alice", "student", "CS", 1, "SELECT", "campus", 22),
   Canonical("alice", "student", "CS", 1, "DELETE", "campus", 10),
   Canonical("alice", "student", "CS", 1, "TRUNCATE", "campus", 10)}

AllScenarios == SmallScenarios \cup CanonicalScenarios
=============================================================================
