------------------------- MODULE PolicyStoreProofs -------------------------
(***************************************************************************)
(* The safety properties of PolicyStore, for any number of backends, rules *)
(* and rewrites.                                                           *)
(*                                                                         *)
(* LoadedIsComplete is not inductive: it says nothing of a reader that is  *)
(* half way, which may hold pieces of several versions.  What is preserved *)
(* is the origin of every single piece (Traced): the i-th piece a check    *)
(* has read is the one every run of generate_rule.c writes there, or a     *)
(* last piece, and a last piece was read from a file complete with it.     *)
(***************************************************************************)
EXTENDS PolicyStore, TLAPS

Kinds == {"start", "user", "end", "shipped start", "ubuntu", "shipped end"}

Pieces == [kind : Kinds, n : Nat]

\* Where the i-th piece p of a text comes from, given the complete texts.
Origin(p, i, texts) ==
  \/ i = 1 /\ p = Start
  \/ i >= 2 /\ p = User(i - 1)
  \/ i <= 2 /\ p = Shipped[i]
  \/ i = 3 /\ p = Shipped[3] /\ Shipped \in texts
  \/ i >= 3 /\ p = End /\ RuleFile(i - 2) \in texts

Traced(text, texts) == \A i \in 1..Len(text) : Origin(text[i], i, texts)

Types ==
  /\ file \in Seq(Pieces)
  /\ amount \in Nat
  /\ pdp \in [Backends -> {"none", "reading", "ready"}]
  /\ policy \in [Backends -> Seq(Pieces)]
  /\ DOMAIN held = Backends
  /\ quiet \in [Backends -> BOOLEAN]
  /\ DOMAIN answer = Backends

Written ==
  amount > 0 =>
    /\ Len(file) <= amount + 2
    /\ whole <=> Len(file) = amount + 2
    /\ \A i \in 1..Len(file) : file[i] = Piece(amount, i)

Origins ==
  /\ Traced(file, OnDisk)
  /\ \A b \in Backends : pdp[b] # "none" => Traced(policy[b], held[b])

\* A check that is reading has seen the complete text on disk, if any.
Held == \A b \in Backends : pdp[b] = "reading" => OnDisk \subseteq held[b]

Fresh ==
  \A b \in Backends :
    pdp[b] # "none" /\ quiet[b] =>
      /\ amount = 0
      /\ Len(policy[b]) <= Len(file)
      /\ \A i \in 1..Len(policy[b]) : policy[b][i] = file[i]
      /\ pdp[b] = "ready" => policy[b] = file

StoreInv ==
  Types /\ Written /\ Origins /\ Held /\ PermitsComeFromCompleteFile /\ Fresh

-----------------------------------------------------------------------------
\* A text that is well formed and made of traced pieces is one the file has
\* held in full.
LEMMA TracedWellFormed ==
  ASSUME NEW text \in Seq(Pieces), NEW texts,
         Traced(text, texts), WellFormed(text)
  PROVE  text \in texts
<1>0. \A i \in 1..3 : Shipped[i].kind \notin {"user", "start", "end"}
  <2>1. /\ Shipped[1].kind = "shipped start"
        /\ Shipped[2].kind = "ubuntu"
        /\ Shipped[3].kind = "shipped end"
    BY Zenon DEF Shipped
  <2>2. \A i \in 1..3 : i = 1 \/ i = 2 \/ i = 3
    OBVIOUS
  <2> QED
    BY Zenon, <2>1, <2>2
<1>1. CASE text = Shipped
  <2>0. \A x, y, z : Len(<<x, y, z>>) = 3
    OBVIOUS
  <2>1. Len(text) = 3 /\ text[3] = Shipped[3]
    BY Zenon, <1>1, <2>0 DEF Shipped
  <2>2. Shipped[3].kind \notin {"user", "start", "end"}
    BY <1>0
  <2>3. \A i : User(i).kind = "user" /\ End.kind = "end"
    BY DEF User, End
  <2>4. Shipped[3] # User(2) /\ Shipped[3] # End
    BY Zenon, <2>2, <2>3
  <2>5. 3 \in 1..3 /\ 3 # 1 /\ ~(3 <= 2) /\ 3 - 1 = 2
    OBVIOUS
  <2>6. Origin(text[3], 3, texts)
    BY Zenon, <2>1, <2>5 DEF Traced
  <2> QED
    BY Zenon, <1>1, <2>1, <2>4, <2>5, <2>6 DEF Origin
<1>2. CASE text # Shipped
  <2> DEFINE m == Len(text)
  <2>1. /\ m \in Nat /\ m >= 2
        /\ text[1] = Start
        /\ text[m] = End
        /\ \A i \in 2..(m - 1) : text[i].kind = "user"
    BY <1>2 DEF WellFormed
  <2>2. End # Start
    BY DEF End, Start
  <2>3. m >= 3 /\ RuleFile(m - 2) \in texts
    <3>1. m \in 1..Len(text)
      BY <2>1
    <3>2. text[m] # Start /\ \A i \in Nat : text[m] # User(i)
      BY <2>1 DEF End, Start, User
    <3>3. m <= 3 => text[m] # Shipped[m]
      BY <1>0, <2>1 DEF End
    <3>4. Origin(text[m], m, texts)
      BY <3>1 DEF Traced
    <3>5. m - 1 \in Nat /\ (m <= 2 => m <= 3) /\ (m = 3 => m <= 3)
      BY <2>1
    <3>6. text[m] # User(m - 1) /\ (m <= 2 => text[m] # Shipped[m])
          /\ (m = 3 => text[m] # Shipped[3])
      BY Zenon, <3>2, <3>3, <3>5
    <3> QED
      BY Zenon, <3>2, <3>4, <3>6 DEF Origin
  <2>4. \A i \in 1..m : text[i] = Piece(m - 2, i)
    <3> SUFFICES ASSUME NEW i \in 1..m PROVE text[i] = Piece(m - 2, i)
      OBVIOUS
    <3>1. CASE i = 1 \/ i = m
      BY <3>1, <2>1, <2>3 DEF Piece
    <3>2. CASE i # 1 /\ i # m
      <4>1. i \in 2..(m - 1) /\ text[i].kind = "user"
        BY <3>2, <2>1
      <4>2. text[i] # Start /\ text[i] # End
        BY <4>1 DEF Start, End
      <4>3. i <= 3 => text[i] # Shipped[i]
        BY <4>1, <1>0
      <4>4. Origin(text[i], i, texts)
        BY DEF Traced
      <4>5. text[i] = User(i - 1)
        BY <4>1, <4>2, <4>3, <4>4 DEF Origin
      <4> QED
        BY <4>5, <4>1, <2>1 DEF Piece
    <3> QED
      BY <3>1, <3>2
  <2>5. text = RuleFile(m - 2)
    <3>1. DOMAIN text = 1..m /\ text = [i \in 1..m |-> text[i]]
      OBVIOUS
    <3>2. (m - 2) + 2 = m
      BY <2>1
    <3> QED
      BY <3>1, <3>2, <2>4 DEF RuleFile
  <2> QED
    BY <2>3, <2>5
<1> QED
  BY <1>1, <1>2

\* Tracing survives more complete texts, and one more traced piece.
LEMMA TracedGrows ==
  ASSUME NEW text, NEW texts, NEW more, texts \subseteq more, Traced(text, texts)
  PROVE  Traced(text, more)
BY DEF Traced, Origin

(* A text extended by a piece of known origin stays traced.                  *)
LEMMA TracedAppend ==
  ASSUME NEW text \in Seq(Pieces), NEW p \in Pieces, NEW texts,
         Traced(text, texts), Origin(p, Len(text) + 1, texts)
  PROVE  Traced(Append(text, p), texts)
<1> DEFINE k == Len(text) + 1
<1> DEFINE t == Append(text, p)
<1>1. /\ k \in Nat /\ Len(t) = k /\ t[k] = p
      /\ \A i \in 1..k : i = k \/ i \in 1..Len(text)
      /\ \A i \in 1..Len(text) : t[i] = text[i]
  OBVIOUS
<1> HIDE DEF t, k
<1> SUFFICES ASSUME NEW i \in 1..Len(t) PROVE Origin(t[i], i, texts)
  BY DEF Traced, t
<1>2. CASE i = k
  BY <1>1, <1>2 DEF k
<1>3. CASE i \in 1..Len(text)
  BY <1>1, <1>3 DEF Traced
<1> QED
  BY <1>1, <1>2, <1>3

\* The pieces generate_rule.c writes are pieces.
LEMMA PieceType ==
  ASSUME NEW n \in Nat, NEW i \in Nat, i >= 1
  PROVE  Piece(n, i) \in Pieces
<1>1. Start \in Pieces /\ End \in Pieces /\ \A j \in Nat : User(j) \in Pieces
  BY DEF Pieces, Kinds, Start, End, User
<1>2. i - 1 \in Nat
  OBVIOUS
<1> QED
  BY <1>1, <1>2 DEF Piece

(* The shipped file, with no check under way, satisfies the invariant.       *)
LEMMA StoreInit == Init => StoreInv
<1> SUFFICES ASSUME Init PROVE StoreInv
  OBVIOUS
<1>1. Shipped \in Seq(Pieces) /\ Len(Shipped) = 3
  <2>1. /\ [kind |-> "shipped start", n |-> 0] \in Pieces
        /\ [kind |-> "ubuntu", n |-> 0] \in Pieces
        /\ [kind |-> "shipped end", n |-> 0] \in Pieces
    BY DEF Pieces, Kinds
  <2>2. \A x, y, z \in Pieces : <<x, y, z>> \in Seq(Pieces) /\ Len(<<x, y, z>>) = 3
    OBVIOUS
  <2> QED
    BY Zenon, <2>1, <2>2 DEF Shipped
<1>2. Types
  BY <1>1 DEF Init, Types
<1>3. Traced(file, OnDisk)
  <2>1. file = Shipped /\ OnDisk = {Shipped}
    BY DEF Init, OnDisk
  <2>2. \A i \in 1..3 : i = 1 \/ i = 2 \/ i = 3
    OBVIOUS
  <2>3. 1 <= 2 /\ 2 <= 2
    OBVIOUS
  <2>4. Shipped \in OnDisk
    BY Zenon, <2>1
  <2> QED
    BY Zenon, <1>1, <2>1, <2>2, <2>3, <2>4 DEF Traced, Origin
<1>4. \A b \in Backends : pdp[b] = "none" /\ ~answer[b].permit
  BY DEF Init
<1>5. Written
  BY DEF Init, Written
<1> QED
  BY <1>2, <1>3, <1>4, <1>5
     DEF StoreInv, Origins, Held, Fresh, PermitsComeFromCompleteFile

-----------------------------------------------------------------------------
(***************************************************************************)
(* Each kind of step preserves StoreInv                                    *)
(***************************************************************************)

(* generate_rule truncates the file: what the checks read so far stays.      *)
LEMMA OpenRulesStep ==
  ASSUME StoreInv, NEW n \in 1..MaxRules, OpenRules(n)
  PROVE  StoreInv'
<1>0. /\ n \in Nat /\ n > 0 /\ amount' = n /\ file' = <<>> /\ whole' = FALSE
      /\ quiet' = [b \in Backends |-> FALSE] /\ UNCHANGED <<pdp, policy, held, answer>>
  BY StoreAssumption DEF OpenRules
<1>1. Types'
  BY <1>0 DEF StoreInv, Types
<1>2. Written'
  BY <1>0 DEF Written
<1>3. OnDisk' = {}
  BY <1>0 DEF OnDisk
<1>4. Origins'
  BY <1>0 DEF StoreInv, Origins, Traced
<1>5. Held' /\ PermitsComeFromCompleteFile' /\ Fresh'
  BY <1>0, <1>3 DEF StoreInv, Held, PermitsComeFromCompleteFile, Fresh
<1> QED
  BY <1>1, <1>2, <1>4, <1>5 DEF StoreInv

(* A piece written is the next one of the text being written.                *)
LEMMA WritePieceStep ==
  ASSUME StoreInv, WritePiece
  PROVE  StoreInv'
<1> DEFINE k == Len(file) + 1
<1>00. file \in Seq(Pieces) /\ amount \in Nat /\ Len(file) \in Nat
  BY DEF StoreInv, Types
<1>0. /\ amount \in Nat /\ amount > 0 /\ file \in Seq(Pieces)
      /\ Len(file) \in Nat /\ Len(file) < amount + 2
      /\ file' = Append(file, Piece(amount, k))
      /\ whole' = (Len(file') = amount + 2)
      /\ held' = [b \in Backends |-> held[b] \cup OnDisk']
      /\ UNCHANGED <<amount, rewrites, pdp, policy, quiet, answer>>
  BY Zenon, <1>00 DEF WritePiece
<1>1. Piece(amount, k) \in Pieces
  BY <1>0, PieceType
<1>2. /\ file' \in Seq(Pieces) /\ Len(file') = k
      /\ file'[k] = Piece(amount, k)
      /\ \A i \in 1..Len(file) : file'[i] = file[i]
  BY <1>0, <1>1
<1>3. \A i \in 1..k : file'[i] = Piece(amount, i)
  BY <1>0, <1>2 DEF StoreInv, Written
<1>4. whole' <=> k = amount + 2
  BY Zenon, <1>0, <1>2
<1>5. k = amount + 2 => RuleFile(k - 2) \in OnDisk'
  <2> SUFFICES ASSUME k = amount + 2 PROVE RuleFile(k - 2) \in OnDisk'
    OBVIOUS
  <2>1. k - 2 = amount
    BY <1>0
  <2>2. file' = [i \in 1..k |-> file'[i]]
    BY <1>2
  <2>3. file' = RuleFile(amount)
    BY <2>2, <1>3, <1>0 DEF RuleFile
  <2> QED
    BY <2>1, <2>3, <1>4 DEF OnDisk
<1>6. Types'
  BY <1>0, <1>2 DEF StoreInv, Types
<1>7. Written'
  BY <1>0, <1>2, <1>3, <1>4 DEF Written
<1>8. Origins'
  <2>1. \A b \in Backends : held[b] \subseteq held'[b]
    BY <1>0
  <2>2. \A b \in Backends : pdp[b] # "none" => Traced(policy[b], held'[b])
    BY Zenon, <2>1, TracedGrows DEF StoreInv, Origins
  <2>3. OnDisk = {}
    BY <1>0 DEF StoreInv, Written, OnDisk
  <2>4. Traced(file, OnDisk')
    BY <2>3, TracedGrows DEF StoreInv, Origins
  <2>5. Origin(Piece(amount, k), k, OnDisk')
    BY <1>0, <1>5 DEF Piece, Origin
  <2>6. Traced(file', OnDisk')
    BY <1>0, <1>1, <2>4, <2>5, TracedAppend
  <2> QED
    BY Zenon, <1>0, <2>2, <2>6 DEF Origins
<1>9. Held'
  BY <1>0 DEF Held
<1>10. PermitsComeFromCompleteFile'
  BY <1>0 DEF StoreInv, PermitsComeFromCompleteFile
<1>11. Fresh'
  BY <1>0 DEF StoreInv, Fresh
<1> QED
  BY <1>6, <1>7, <1>8, <1>9, <1>10, <1>11 DEF StoreInv

(* The writer ends or is killed: the file and the checks are untouched.      *)
LEMMA CloseStep ==
  ASSUME StoreInv, CloseRules \/ LoseRules
  PROVE  StoreInv'
<1>1. /\ amount' = 0
      /\ UNCHANGED <<file, rewrites, whole, pdp, policy, held, quiet, answer>>
  BY DEF CloseRules, LoseRules
<1>2. Types' /\ Written'
  BY <1>1 DEF StoreInv, Types, Written
<1>3. OnDisk' = OnDisk
  BY <1>1 DEF OnDisk
<1>4. Origins' /\ Held' /\ PermitsComeFromCompleteFile'
  BY <1>1, <1>3 DEF StoreInv, Origins, Held, PermitsComeFromCompleteFile
<1>5. Fresh'
  BY <1>1 DEF StoreInv, Fresh
<1> QED
  BY <1>2, <1>4, <1>5 DEF StoreInv

(* A new PDP has read nothing of the file.                                   *)
LEMMA NewPDPStep ==
  ASSUME StoreInv, NEW b \in Backends, NewPDP(b)
  PROVE  StoreInv'
<1>0. /\ Types
      /\ pdp' = [pdp EXCEPT ![b] = "reading"]
      /\ policy' = [policy EXCEPT ![b] = <<>>]
      /\ held' = [held EXCEPT ![b] = OnDisk]
      /\ quiet' = [quiet EXCEPT ![b] = amount = 0]
      /\ UNCHANGED <<file, amount, rewrites, whole, answer>>
  BY DEF StoreInv, NewPDP
<1>1. Types'
  BY <1>0 DEF Types
<1>2. /\ pdp'[b] = "reading" /\ policy'[b] = <<>> /\ held'[b] = OnDisk
      /\ quiet'[b] = (amount = 0) /\ OnDisk' = OnDisk
      /\ \A c \in Backends \ {b} :
           /\ pdp'[c] = pdp[c] /\ policy'[c] = policy[c] /\ held'[c] = held[c]
           /\ quiet'[c] = quiet[c]
  BY <1>0 DEF Types, OnDisk
<1>3. Written' /\ PermitsComeFromCompleteFile'
  BY <1>0 DEF StoreInv, Written, PermitsComeFromCompleteFile
<1>4. Origins'
  <2>1. Traced(<<>>, held'[b])
    BY DEF Traced
  <2> QED
    BY <1>0, <1>2, <2>1 DEF StoreInv, Origins
<1>5. Held'
  BY <1>2 DEF StoreInv, Held
<1>6. Fresh'
  <2>1. Len(file) \in Nat
    BY <1>0 DEF Types
  <2> SUFFICES ASSUME NEW c \in Backends, pdp'[c] # "none", quiet'[c]
               PROVE  /\ amount = 0
                      /\ Len(policy'[c]) <= Len(file)
                      /\ \A i \in 1..Len(policy'[c]) : policy'[c][i] = file[i]
                      /\ pdp'[c] = "ready" => policy'[c] = file
    BY <1>0 DEF Fresh
  <2>2. CASE c = b
    <3>1. amount = 0
      BY Zenon, <1>2, <2>2
    <3> QED
      BY <1>2, <2>1, <2>2, <3>1
  <2>3. CASE c # b
    BY <1>2, <2>3 DEF StoreInv, Fresh
  <2> QED
    BY <2>2, <2>3
<1> QED
  BY <1>1, <1>3, <1>4, <1>5, <1>6 DEF StoreInv

(* A piece read is at its place in a text; a last piece is read from a file  *)
(* that is complete.                                                         *)
LEMMA ReadPieceStep ==
  ASSUME StoreInv, NEW b \in Backends, ReadPiece(b)
  PROVE  StoreInv'
<1> DEFINE k == Len(policy[b]) + 1
<1>0. /\ Types /\ Origins
      /\ pdp[b] = "reading"
      /\ Len(policy[b]) < Len(file)
      /\ policy' = [policy EXCEPT ![b] = Append(policy[b], file[k])]
      /\ UNCHANGED <<file, amount, rewrites, whole, pdp, held, quiet, answer>>
  BY DEF StoreInv, ReadPiece
<1>1. /\ file \in Seq(Pieces) /\ policy[b] \in Seq(Pieces)
      /\ k \in 1..Len(file) /\ file[k] \in Pieces
      /\ \A c \in Backends \ {b} : policy'[c] = policy[c]
      /\ policy'[b] = Append(policy[b], file[k])
  BY <1>0 DEF Types
<1>2. Types'
  BY <1>0, <1>1 DEF Types
<1>3. Written' /\ Held' /\ PermitsComeFromCompleteFile'
  BY <1>0 DEF StoreInv, Written, Held, PermitsComeFromCompleteFile, OnDisk
<1>4. Origins'
  <2>1. OnDisk \subseteq held[b] /\ OnDisk' = OnDisk
    BY <1>0 DEF StoreInv, Held, OnDisk
  <2>2. Origin(file[k], k, held[b])
    <3>1. Origin(file[k], k, OnDisk)
      BY Zenon, <1>0, <1>1 DEF Origins, Traced
    <3> QED
      BY Zenon, <2>1, <3>1 DEF Origin
  <2>3. Traced(policy[b], held[b])
    BY Zenon, <1>0 DEF Origins
  <2>4. Traced(policy'[b], held[b])
    BY <1>1, <2>2, <2>3, TracedAppend
  <2> QED
    BY Zenon, <1>0, <1>1, <2>1, <2>4 DEF Origins
<1>5. Fresh'
  <2> SUFFICES ASSUME NEW c \in Backends, pdp[c] # "none", quiet[c]
               PROVE  /\ amount = 0
                      /\ Len(policy'[c]) <= Len(file)
                      /\ \A i \in 1..Len(policy'[c]) : policy'[c][i] = file[i]
                      /\ pdp[c] = "ready" => policy'[c] = file
    BY <1>0 DEF Fresh
  <2>1. /\ amount = 0
        /\ \A i \in 1..Len(policy[c]) : policy[c][i] = file[i]
        /\ Len(policy[c]) <= Len(file)
        /\ pdp[c] = "ready" => policy[c] = file
    BY DEF StoreInv, Fresh
  <2>2. CASE c = b
    <3>1. /\ Len(policy'[b]) = k /\ policy'[b][k] = file[k]
          /\ \A i \in 1..Len(policy[b]) : policy'[b][i] = policy[b][i]
      BY <1>1
    <3> QED
      BY <3>1, <2>1, <2>2, <1>0, <1>1
  <2>3. CASE c # b
    BY <2>1, <2>3, <1>1
  <2> QED
    BY <2>2, <2>3
<1> QED
  BY <1>2, <1>3, <1>4, <1>5 DEF StoreInv

(* What a check has at the end of the file is what it answers from.          *)
LEMMA EndOfFileStep ==
  ASSUME StoreInv, NEW b \in Backends, EndOfFile(b)
  PROVE  StoreInv'
<1>0. /\ Types
      /\ pdp[b] = "reading"
      /\ Len(policy[b]) >= Len(file)
      /\ pdp' = [pdp EXCEPT ![b] = "ready"]
      /\ UNCHANGED <<file, amount, rewrites, whole, policy, held, quiet, answer>>
  BY DEF StoreInv, EndOfFile
<1>1. pdp'[b] = "ready" /\ \A c \in Backends \ {b} : pdp'[c] = pdp[c]
  BY <1>0 DEF Types
<1>2. Types' /\ Written' /\ PermitsComeFromCompleteFile'
  BY <1>0 DEF StoreInv, Types, Written, PermitsComeFromCompleteFile
<1>3. OnDisk' = OnDisk
  BY <1>0 DEF OnDisk
<1>4. Origins' /\ Held'
  BY <1>0, <1>1, <1>3 DEF StoreInv, Origins, Held
<1>5. Fresh'
  <2> SUFFICES ASSUME NEW c \in Backends, pdp'[c] # "none", quiet[c]
               PROVE  /\ amount = 0
                      /\ Len(policy[c]) <= Len(file)
                      /\ \A i \in 1..Len(policy[c]) : policy[c][i] = file[i]
                      /\ pdp'[c] = "ready" => policy[c] = file
    BY <1>0 DEF Fresh
  <2>1. pdp[c] # "none"
    BY <1>0, <1>1
  <2>2. /\ amount = 0
        /\ Len(policy[c]) <= Len(file)
        /\ \A i \in 1..Len(policy[c]) : policy[c][i] = file[i]
        /\ pdp[c] = "ready" => policy[c] = file
    BY <2>1 DEF StoreInv, Fresh
  <2>3. CASE c = b
    <3>1. policy[b] \in Seq(Pieces) /\ file \in Seq(Pieces)
      BY <1>0 DEF Types
    <3>2. Len(policy[b]) = Len(file) /\ \A i \in 1..Len(file) : policy[b][i] = file[i]
      BY <3>1, <2>2, <2>3, <1>0
    <3>3. policy[b] = file
      BY <3>1, <3>2
    <3> QED
      BY <3>3, <2>2, <2>3
  <2>4. CASE c # b
    BY <2>2, <2>4, <1>1
  <2> QED
    BY <2>3, <2>4
<1> QED
  BY <1>2, <1>4, <1>5 DEF StoreInv

(* What a PDP that is through with the file takes for a policy was on disk.  *)
LEMMA ReadyPolicy == StoreInv => LoadedIsComplete
<1> SUFFICES ASSUME StoreInv, NEW b \in Backends, pdp[b] = "ready", WellFormed(policy[b])
             PROVE  policy[b] \in held[b]
  BY DEF LoadedIsComplete
<1>1. Traced(policy[b], held[b]) /\ policy[b] \in Seq(Pieces)
  BY DEF StoreInv, Origins, Types
<1> QED
  BY <1>1, TracedWellFormed

(* An answer is the one the policy of the check gives.                       *)
LEMMA CheckStep ==
  ASSUME StoreInv, NEW b \in Backends, NEW s \in Subjects, Check(b, s)
  PROVE  StoreInv'
<1> DEFINE new == [subject |-> s, permit |-> Permits(policy[b], s), held |-> held[b]]
<1>0. /\ Types
      /\ pdp[b] = "ready"
      /\ answer' = [answer EXCEPT ![b] = new]
      /\ pdp' = [pdp EXCEPT ![b] = "none"]
      /\ UNCHANGED <<file, amount, rewrites, whole, policy, held, quiet>>
  BY Zenon DEF StoreInv, Check
<1>1. /\ DOMAIN answer' = Backends /\ answer'[b] = new /\ pdp'[b] = "none"
      /\ \A c \in Backends \ {b} : answer'[c] = answer[c] /\ pdp'[c] = pdp[c]
      /\ pdp' \in [Backends -> {"none", "reading", "ready"}]
  BY <1>0 DEF Types
<1>2. Types' /\ Written'
  BY <1>0, <1>1 DEF StoreInv, Types, Written
<1>3. OnDisk' = OnDisk
  BY <1>0 DEF OnDisk
<1>4. Origins' /\ Held' /\ Fresh'
  BY <1>0, <1>1, <1>3 DEF StoreInv, Origins, Held, Fresh
<1>5. PermitsComeFromCompleteFile'
  <2> SUFFICES ASSUME NEW c \in Backends, answer'[c].permit
               PROVE  \E text \in answer'[c].held : Permits(text, answer'[c].subject)
    BY Zenon DEF PermitsComeFromCompleteFile
  <2>1. CASE c = b
    <3>0. new.permit = Permits(policy[b], s) /\ new.held = held[b] /\ new.subject = s
      BY Zenon
    <3>1. Permits(policy[b], s) /\ answer'[c].held = held[b] /\ answer'[c].subject = s
      BY Zenon, <1>1, <2>1, <3>0
    <3>2. policy[b] \in held[b]
      BY Zenon, <1>0, <3>1, ReadyPolicy DEF LoadedIsComplete, Permits
    <3> QED
      BY Zenon, <3>1, <3>2
  <2>2. CASE c # b
    BY Zenon, <1>1, <2>2 DEF StoreInv, PermitsComeFromCompleteFile
  <2> QED
    BY <2>1, <2>2
<1> QED
  BY <1>2, <1>4, <1>5 DEF StoreInv

(* A backend that exits drops the check it was making.                       *)
LEMMA EndSessionStep ==
  ASSUME StoreInv, NEW b \in Backends, EndSession(b)
  PROVE  StoreInv'
<1>0. /\ Types
      /\ pdp' = [pdp EXCEPT ![b] = "none"]
      /\ policy' = [policy EXCEPT ![b] = <<>>]
      /\ UNCHANGED <<file, amount, rewrites, whole, held, quiet, answer>>
  BY DEF StoreInv, EndSession
<1>1. /\ pdp'[b] = "none" /\ OnDisk' = OnDisk
      /\ \A c \in Backends \ {b} : pdp'[c] = pdp[c] /\ policy'[c] = policy[c]
  BY <1>0 DEF Types, OnDisk
<1>2. Types' /\ Written' /\ PermitsComeFromCompleteFile'
  BY <1>0 DEF StoreInv, Types, Written, PermitsComeFromCompleteFile
<1>3. Origins' /\ Held' /\ Fresh'
  BY <1>0, <1>1 DEF StoreInv, Origins, Held, Fresh
<1> QED
  BY <1>2, <1>3 DEF StoreInv

-----------------------------------------------------------------------------
(***************************************************************************)
(* The theorems                                                            *)
(***************************************************************************)

\* The origin of every piece, the answers given and what an undisturbed check
\* holds are as StoreInv says, in every state generate_rule.c and any number
\* of backends can reach.
THEOREM StoreInvariant == Spec => []StoreInv
<1>1. Init => StoreInv
  BY StoreInit
<1>2. StoreInv /\ [Next]_vars => StoreInv'
  <2> SUFFICES ASSUME StoreInv, [Next]_vars PROVE StoreInv'
    OBVIOUS
  <2>1. CASE \E n \in 1..MaxRules : OpenRules(n)
    BY <2>1, OpenRulesStep
  <2>2. CASE WritePiece
    BY <2>2, WritePieceStep
  <2>3. CASE CloseRules \/ LoseRules
    BY <2>3, CloseStep
  <2>4. CASE \E b \in Backends : NewPDP(b)
    BY <2>4, NewPDPStep
  <2>5. CASE \E b \in Backends : ReadPiece(b) \/ EndOfFile(b)
    BY <2>5, ReadPieceStep, EndOfFileStep
  <2>6. CASE \E b \in Backends : EndSession(b)
    BY <2>6, EndSessionStep
  <2>7. CASE \E b \in Backends : \E s \in Subjects : Check(b, s)
    BY <2>7, CheckStep
  <2>8. CASE UNCHANGED vars
    <3>1. UNCHANGED <<file, amount, rewrites, whole, pdp, policy, held, quiet, answer>>
      BY <2>8 DEF vars
    <3>2. Types' /\ Written' /\ Origins' /\ Held'
      BY <3>1 DEF StoreInv, Types, Written, Origins, Held, OnDisk
    <3>3. PermitsComeFromCompleteFile' /\ Fresh'
      BY <3>1 DEF StoreInv, PermitsComeFromCompleteFile, Fresh
    <3> QED
      BY <3>2, <3>3 DEF StoreInv
  <2> QED
    BY <2>1, <2>2, <2>3, <2>4, <2>5, <2>6, <2>7, <2>8 DEF Next
<1> QED
  BY <1>1, <1>2, PTL DEF Spec

\* Whatever the interleaving of rewrites and reads, what a check takes for a
\* policy is a text the file held in full while the check read it.
THEOREM NoMixedPolicy == Spec => []LoadedIsComplete
  BY ReadyPolicy, StoreInvariant, PTL

\* Check_ABAC_Permission lets a subject through only when a complete version
\* of the file, on disk while the check read, permits that subject.
THEOREM PermitsAreOfCompleteFiles == Spec => []PermitsComeFromCompleteFile
<1>1. StoreInv => PermitsComeFromCompleteFile
  BY DEF StoreInv
<1> QED
  BY <1>1, StoreInvariant, PTL

\* A check that began after the last rewrite had ended answers from the file
\* on disk.
THEOREM FreshChecks == Spec => []FreshCheckServesFile
<1>1. StoreInv => FreshCheckServesFile
  BY DEF StoreInv, Fresh, FreshCheckServesFile
<1> QED
  BY <1>1, StoreInvariant, PTL
=============================================================================
