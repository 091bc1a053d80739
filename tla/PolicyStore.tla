---------------------------- MODULE PolicyStore ----------------------------
(***************************************************************************)
(* The policy file abacml/resources/abacmlpolicy.xml, the program that     *)
(* rewrites it in place (generate_rule.c), and the checks of the backends, *)
(* each of which reads the file anew: Check_ABAC_Permission makes a new    *)
(* PDP (ABACML.java getPDPNewInstance), whose constructor loads the        *)
(* policies (SunXacmlCorpusRunner.java 77-79 says so of the same library); *)
(* what Balana keeps from one check to the next is its configuration, the  *)
(* directory of the file.                                                  *)
(*                                                                         *)
(* A file is a sequence of pieces: what generate_rule.c hands to one       *)
(* fputs.  Neither side locks the file, so a reader may meet any prefix of *)
(* a file that is being written, and may have read the beginning of one    *)
(* version when the next replaces it.                                      *)
(*                                                                         *)
(* Two simplifications.  Runs of generate_rule.c follow one another,       *)
(* although the program takes no lock: two at once would overwrite each    *)
(* other's bytes.  And a cut falls between two pieces, although stdio      *)
(* writes blocks of bytes: a cut inside a tag or a name leaves a text no   *)
(* parser accepts, like a cut between pieces, but one inside the free text *)
(* of the Description may not be noticed when the shipped file is replaced *)
(* by a generated one.                                                     *)
(***************************************************************************)
EXTENDS Integers, Sequences

CONSTANTS
  Backends,   \* the server processes; each loads its own virtual machine
  MaxRules,   \* bound on rule_amount
  MaxRewrites \* bound on the runs of generate_rule

ASSUME StoreAssumption == MaxRules \in Nat /\ MaxRewrites \in Nat

VARIABLES
  file,       \* the pieces on disk
  amount,     \* rule_amount of the run that has the file open, 0 when none
  rewrites,   \* runs of generate_rule so far
  whole,      \* history: whether the file on disk is a complete one
  pdp,        \* per backend: "none" between checks, "reading" or "ready"
  policy,     \* per backend: the pieces its last PDP has read
  held,       \* history, per backend: the complete texts that were on disk
              \* while its PDP read
  quiet,      \* history, per backend: no run had the file open since then
  answer      \* per backend: its last answer, and what was held for it

vars == <<file, amount, rewrites, whole, pdp, policy, held, quiet, answer>>

Start == [kind |-> "start", n |-> 0]

End == [kind |-> "end", n |-> 0]

User(i) == [kind |-> "user", n |-> i]

\* The file of the repository, in its own layout.  Its pieces differ from
\* those of generate_rule.c: the two agree only in their first line.
Shipped == <<[kind |-> "shipped start", n |-> 0],
             [kind |-> "ubuntu", n |-> 0],
             [kind |-> "shipped end", n |-> 0]>>

Ubuntu == Shipped[2]

Subjects == {User(i) : i \in 1..MaxRules} \cup {Ubuntu}

\* get_rule and the two constant texts: the i-th piece of a file of n rules.
Piece(n, i) ==
  IF i = 1 THEN Start ELSE IF i = n + 2 THEN End ELSE User(i - 1)

RuleFile(n) == [i \in 1..(n + 2) |-> Piece(n, i)]

\* The complete text on disk, if there is one.
OnDisk == IF whole THEN {file} ELSE {}

Init ==
  /\ file = Shipped
  /\ amount = 0
  /\ rewrites = 0
  /\ whole = TRUE
  /\ pdp = [b \in Backends |-> "none"]
  /\ policy = [b \in Backends |-> <<>>]
  /\ held = [b \in Backends |-> {}]
  /\ quiet = [b \in Backends |-> FALSE]
  /\ answer = [b \in Backends |-> [subject |-> Ubuntu, permit |-> FALSE, held |-> {}]]

-----------------------------------------------------------------------------
(***************************************************************************)
(* generate_rule.c                                                         *)
(***************************************************************************)

\* main: fopen(..., "w+") truncates the file that is in use.
OpenRules(n) ==
  /\ amount = 0
  /\ rewrites < MaxRewrites
  /\ amount' = n
  /\ rewrites' = rewrites + 1
  /\ file' = <<>>
  /\ whole' = FALSE
  /\ quiet' = [b \in Backends |-> FALSE]
  /\ UNCHANGED <<pdp, policy, held, answer>>

\* Faulty: the users of a file are numbered from the end.
FaultyWritePiece ==
  /\ amount > 0
  /\ Len(file) < amount + 2
  /\ file' = Append(file,
       IF Piece(amount, Len(file) + 1).kind = "user"
       THEN User(amount + 1 - Len(file))
       ELSE Piece(amount, Len(file) + 1))
  /\ whole' = (Len(file') = amount + 2)
  /\ held' = [b \in Backends |-> held[b] \cup OnDisk']
  /\ UNCHANGED <<amount, rewrites, pdp, policy, quiet, answer>>

\* One fputs reaches the disk: the start, a rule, or the end.
WritePiece ==
  /\ amount > 0
  /\ Len(file) < amount + 2
  /\ file' = Append(file, Piece(amount, Len(file) + 1))
  /\ whole' = (Len(file') = amount + 2)
  /\ held' = [b \in Backends |-> held[b] \cup OnDisk']
  /\ UNCHANGED <<amount, rewrites, pdp, policy, quiet, answer>>

\* fclose; the program ends.
CloseRules ==
  /\ amount > 0
  /\ Len(file) = amount + 2
  /\ amount' = 0
  /\ UNCHANGED <<file, rewrites, whole, pdp, policy, held, quiet, answer>>

\* The program is killed, or the disk is full: the file stays a prefix.
LoseRules ==
  /\ amount > 0
  /\ Len(file) < amount + 2
  /\ amount' = 0
  /\ UNCHANGED <<file, rewrites, whole, pdp, policy, held, quiet, answer>>

-----------------------------------------------------------------------------
(***************************************************************************)
(* A check of a backend                                                    *)
(***************************************************************************)

\* Faulty: the PDP of the first check is kept for the ones that follow.
FaultyNewPDP(b) ==
  /\ pdp[b] = "none"
  /\ pdp' = [pdp EXCEPT ![b] = IF policy[b] = <<>> THEN "reading" ELSE "ready"]
  /\ held' = [held EXCEPT ![b] = OnDisk]
  /\ quiet' = [quiet EXCEPT ![b] = amount = 0]
  /\ UNCHANGED <<file, amount, rewrites, whole, policy, answer>>

\* Check_ABAC_Permission makes a PDP, which opens the policy file.
NewPDP(b) ==
  /\ pdp[b] = "none"
  /\ pdp' = [pdp EXCEPT ![b] = "reading"]
  /\ policy' = [policy EXCEPT ![b] = <<>>]
  /\ held' = [held EXCEPT ![b] = OnDisk]
  /\ quiet' = [quiet EXCEPT ![b] = amount = 0]
  /\ UNCHANGED <<file, amount, rewrites, whole, answer>>

\* The reader takes the next piece, from whatever the file holds by now.
ReadPiece(b) ==
  /\ pdp[b] = "reading"
  /\ Len(policy[b]) < Len(file)
  /\ policy' = [policy EXCEPT ![b] = Append(@, file[Len(@) + 1])]
  /\ UNCHANGED <<file, amount, rewrites, whole, pdp, held, quiet, answer>>

\* The end of the file as it is now: Balana keeps what it has got.
EndOfFile(b) ==
  /\ pdp[b] = "reading"
  /\ Len(policy[b]) >= Len(file)
  /\ pdp' = [pdp EXCEPT ![b] = "ready"]
  /\ UNCHANGED <<file, amount, rewrites, whole, policy, held, quiet, answer>>

\* What Balana's parser accepts: one start, the rules, one end, no more.
WellFormed(text) ==
  \/ text = Shipped
  \/ /\ Len(text) >= 2
     /\ text[1] = Start
     /\ text[Len(text)] = End
     /\ \A i \in 2..(Len(text) - 1) : text[i].kind = "user"

\* Faulty: a torn file is asked like any other.
FaultyPermits(text, subject) ==
  \A i \in 2..(Len(text) - 1) : text[i] = subject

\* Every Match of the one AllOf must hold of the subject; a file that is not
\* well formed is skipped, and without a policy nothing applies.
Permits(text, subject) ==
  /\ WellFormed(text)
  /\ \A i \in 2..(Len(text) - 1) : text[i] = subject

\* The rest of Check_ABAC_Permission: evaluate, and return TRUE for Permit and
\* FALSE for every other decision.  The PDP goes with the call.
Check(b, subject) ==
  /\ pdp[b] = "ready"
  /\ answer' = [answer EXCEPT ![b] =
       [subject |-> subject, permit |-> Permits(policy[b], subject), held |-> held[b]]]
  /\ pdp' = [pdp EXCEPT ![b] = "none"]
  /\ UNCHANGED <<file, amount, rewrites, whole, policy, held, quiet>>

\* The backend exits in the middle of a check; the next session is a new
\* process.
EndSession(b) ==
  /\ pdp[b] # "none"
  /\ pdp' = [pdp EXCEPT ![b] = "none"]
  /\ policy' = [policy EXCEPT ![b] = <<>>]
  /\ UNCHANGED <<file, amount, rewrites, whole, held, quiet, answer>>

Next ==
  \/ \E n \in 1..MaxRules : OpenRules(n)
  \/ WritePiece
  \/ CloseRules
  \/ LoseRules
  \/ \E b \in Backends :
       \/ NewPDP(b)
       \/ ReadPiece(b)
       \/ EndOfFile(b)
       \/ \E s \in Subjects : Check(b, s)
       \/ EndSession(b)

Spec == Init /\ [][Next]_vars

-----------------------------------------------------------------------------
(***************************************************************************)
(* Properties                                                              *)
(***************************************************************************)

\* A permit is never the effect of a torn or a mixed read: whatever
\* generate_rule.c does to the file while a check reads it, a subject that
\* Check_ABAC_Permission lets through is permitted by some version that was
\* on disk, in full, while that check read.
PermitsComeFromCompleteFile ==
  \A b \in Backends :
    answer[b].permit => \E text \in answer[b].held : Permits(text, answer[b].subject)

\* What a check takes for a policy is, piece for piece, a text the file held
\* in full while the check read it, even when its beginning and its end come
\* from two different versions: every run of generate_rule.c writes the same
\* users in the same places, and whoever reads the end finds the file complete.
LoadedIsComplete ==
  \A b \in Backends :
    pdp[b] = "ready" /\ WellFormed(policy[b]) => policy[b] \in held[b]

\* A check that began after the last rewrite had ended answers from the file
\* that is on disk, however old the session and whatever its earlier checks
\* have read (getPDPNewInstance).
FreshCheckServesFile ==
  \A b \in Backends : pdp[b] = "ready" /\ quiet[b] => policy[b] = file

-----------------------------------------------------------------------------
(***************************************************************************)
(* What the generated policy says of itself                                *)
(***************************************************************************)

\* generate_rule.c's Description: a subject whose name is in the target list
\* can perform any action on any resource.
ListedSubjectsPermitted ==
  \A b \in Backends : \A s \in Subjects :
    /\ pdp[b] = "ready" /\ WellFormed(policy[b])
    /\ \E i \in DOMAIN policy[b] : policy[b][i] = s
    => Permits(policy[b], s)
=============================================================================
