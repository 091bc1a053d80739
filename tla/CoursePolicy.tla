---------------------------- MODULE CoursePolicy ----------------------------
(***************************************************************************)
(* The course-score policy in its three native forms: the XACML 3.0 policy *)
(* (Middle Layer and AuthzForce), its XACML 2.0 translation (SunXACML) and *)
(* the Casbin matcher, together with the decoy rules that                  *)
(* generate-corpus.py appends to them.  A request is a record of attribute *)
(* values; an attribute that the request does not carry is Absent.  The    *)
(* resource id is left out: no policy reads it.                            *)
(***************************************************************************)
EXTENDS Integers

CONSTANT Absent

Attributes == {"id", "role", "department", "clearance", "owner",
               "resourceDepartment", "classification", "action",
               "network", "hour"}

Missing(r) == {a \in Attributes : r[a] = Absent}

-----------------------------------------------------------------------------
(* XACML expressions yield "true", "false" or "error".  A condition reads  *)
(* an attribute through one-and-only, which is an error on an absent one.  *)

Truth(b) == IF b THEN "true" ELSE "false"

Equal(a, b) == IF Absent \in {a, b} THEN "error" ELSE Truth(a = b)

(* Faulty: a comparison with an absent attribute holds.                    *)
FaultyAtLeast(a, b) == IF Absent \in {a, b} THEN "true" ELSE Truth(a >= b)

AtLeast(a, b) == IF Absent \in {a, b} THEN "error" ELSE Truth(a >= b)

Below(a, b) == IF Absent \in {a, b} THEN "error" ELSE Truth(a < b)

(* Libraries differ on an error followed by a false operand: with "stops"  *)
(* the error ends the evaluation, without it the false operand decides.    *)
And(a, b, stops) ==
  CASE a = "true"  -> b
    [] a = "false" -> "false"
    [] OTHER       -> IF ~stops /\ b = "false" THEN "false" ELSE "error"

(* Only ever applied to two tests of the same attribute.                   *)
Or(a, b) == IF a = "false" THEN b ELSE a

(* A Match of a Target.  With MustBePresent an absent attribute is an      *)
(* error, without it the Match just fails.                                 *)
Match(a, values, must) ==
  IF a = Absent THEN IF must THEN "error" ELSE "false" ELSE Truth(a \in values)

Rule(effect, target, condition) ==
  CASE target = "false"                           -> "NotApplicable"
    [] target = "true" /\ condition = "false"     -> "NotApplicable"
    [] target = "true" /\ condition = "true"      -> effect
    [] OTHER -> IF effect = "Permit" THEN "IndeterminateP" ELSE "IndeterminateD"

PermitOverrides(results) ==
  CASE "Permit" \in results         -> "Permit"
    [] "Permit" \notin results /\ "IndeterminateP" \in results -> "Indeterminate"
    [] results \cap {"Permit", "IndeterminateP"} = {} /\ "Deny" \in results -> "Deny"
    [] OTHER -> IF "IndeterminateD" \in results THEN "Indeterminate"
                                                ELSE "NotApplicable"

-----------------------------------------------------------------------------
(* The four rules of the policy.                                           *)

NetworkAndHour(r, stops) ==
  And(Or(Equal(r.network, "campus"), Equal(r.network, "vpn")),
      And(AtLeast(r.hour, 8), AtLeast(20, r.hour), stops), stops)

AdminOverride(r, must, stops) ==
  Rule("Permit", Match(r.role, {"admin"}, must), NetworkAndHour(r, stops))

OwnerSelect(r, must, stops) ==
  Rule("Permit", Match(r.action, {"SELECT"}, must),
       And(Equal(r.owner, r.id), NetworkAndHour(r, stops), stops))

LecturerDepartmentClearance(r, must, stops) ==
  Rule("Permit",
       And(Match(r.role, {"lecturer"}, must),
           Match(r.action, {"SELECT", "UPDATE"}, must), stops),
       And(Equal(r.department, r.resourceDepartment),
           And(AtLeast(r.clearance, r.classification),
               NetworkAndHour(r, stops), stops), stops))

DefaultDeny == Rule("Deny", "true", "true")

(* Faulty: a decoy permits what it matches.                                *)
FaultyDecoy(d, r, must) ==
  Rule("Permit", Match(r.action, {d.value}, must), AtLeast(r.hour, 0))

(* A decoy: a Deny rule of one of three shapes, with its two values.       *)
Decoy(d, r, must) ==
  Rule("Deny",
       CASE d.shape = "role_network"   -> Match(r.role, {d.value}, must)
         [] d.shape = "dept_clearance" -> Match(r.resourceDepartment, {d.value}, must)
         [] d.shape = "action_hour"    -> Match(r.action, {d.value}, must),
       CASE d.shape = "role_network"   -> Equal(r.network, d.bound)
         [] d.shape = "dept_clearance" -> Below(r.clearance, d.bound)
         [] d.shape = "action_hour"    -> AtLeast(r.hour, d.bound))

-----------------------------------------------------------------------------
InScope == {"SELECT", "UPDATE", "DELETE"}

RuleResults(r, decoys, must, stops) ==
  {AdminOverride(r, must, stops), OwnerSelect(r, must, stops),
   LecturerDepartmentClearance(r, must, stops), DefaultDeny}
    \cup {Decoy(d, r, must) : d \in decoys}

Policy(r, decoys, must, stops) ==
  LET target == Match(r.action, InScope, must)
  IN  CASE target = "false" -> "NotApplicable"
        [] target = "error" -> "Indeterminate"
        [] target = "true"  -> PermitOverrides(RuleResults(r, decoys, must, stops))

(* Every attribute designator of the XACML 3.0 policy says MustBePresent.  *)
Xacml3(r, decoys, stops) == Policy(r, decoys, TRUE, stops)

(* No attribute designator of the XACML 2.0 policy does.                   *)
Xacml2(r, decoys, stops) == Policy(r, decoys, FALSE, stops)

(* Faulty: the range of hours ends before its last one.                    *)
FaultyCasbinMatcher(r) ==
  LET env == r.network \in {"campus", "vpn"} /\ 8 <= r.hour /\ r.hour < 20
  IN  \/ r.role = "admin" /\ r.action \in {"SELECT", "UPDATE"} /\ env
      \/ r.owner = r.id /\ r.action = "SELECT" /\ env

(* The Casbin matcher.  It never reads a policy row, so decoy rows, like   *)
(* the one real row, all match whenever it is true.                        *)
CasbinMatcher(r) ==
  LET env == r.network \in {"campus", "vpn"} /\ 8 <= r.hour /\ r.hour <= 20
  IN  \/ r.role = "admin" /\ r.action \in {"SELECT", "UPDATE"} /\ env
      \/ r.owner = r.id /\ r.action = "SELECT" /\ env
      \/ /\ r.role = "lecturer"
         /\ r.department = r.resourceDepartment
         /\ r.clearance >= r.classification
         /\ r.action \in {"SELECT", "UPDATE"} /\ env

(* What Enforce() may answer.  A matcher that names an attribute which the *)
(* request does not define does not compile: no Permit, and whether the    *)
(* library throws or answers false is left open.                           *)
CasbinAnswers(r) ==
  IF Missing(r) # {} THEN {"Deny", "error"}
  ELSE {IF CasbinMatcher(r) THEN "Permit" ELSE "Deny"}
=============================================================================
