------------------------- MODULE RequestDerivation -------------------------
(***************************************************************************)
(* How case 'Q' of PostgresMain (postgres.c) turns the text of a query     *)
(* into the action and the resource path it asks the PDP about: copy the   *)
(* text, put it in upper case, cut it at spaces with strtok, and look at   *)
(* the first, second and fourth token.                                     *)
(*                                                                         *)
(* A text is a sequence of pieces: spaces, other white space (a tab or a   *)
(* line end, which SQL takes for a space and strtok does not), semicolons  *)
(* and words.  The texts are the ones that fit the buffers of the C code   *)
(* (parse[50], uri[100], temp[100] and the copy) and hold at least one     *)
(* token; what C leaves undefined outside of those limits is not modelled. *)
(***************************************************************************)
EXTENDS Integers, Sequences

CONSTANTS
  Queries,     \* the queries a client may send
  MaxQueries   \* bound on the queries of a session

Piece == [word : STRING, upper : BOOLEAN]

Space == [word |-> "space", upper |-> TRUE]

\* A tab or the end of a line.
Blank == [word |-> "blank", upper |-> TRUE]

Semicolon == [word |-> "semicolon", upper |-> TRUE]

\* The words whose first letter is S, in either case.
SWords == {"select", "set"}

\* One past the end of the i-th token of a query.
TokenEnd(q, i) == q.at[i] + Len(q.tokens[i])

(***************************************************************************)
(* A query is the text of a statement in some layout: its tokens, the i-th *)
(* from position q.at[i] on and in any capitalisation, with white space    *)
(* between two of them and nothing but white space elsewhere.              *)
(***************************************************************************)
IsQuery(q) ==
  /\ q.text \in Seq(Piece) /\ q.tokens \in Seq(Seq(Piece)) /\ q.at \in Seq(Nat)
  /\ Len(q.tokens) > 0 /\ Len(q.at) = Len(q.tokens)
  /\ \A i \in 1..Len(q.tokens) :
       /\ Len(q.tokens[i]) > 0
       /\ q.at[i] > 0 /\ TokenEnd(q, i) <= Len(q.text) + 1
       /\ \A k \in 1..Len(q.tokens[i]) :
            /\ q.tokens[i][k].word \notin {"space", "blank"}
            /\ q.text[q.at[i] + k - 1].word = q.tokens[i][k].word
  /\ \A i, j \in 1..Len(q.tokens) : i < j => TokenEnd(q, i) < q.at[j]
  /\ \A p \in 1..Len(q.text) :
       \/ q.text[p] \in {Space, Blank}
       \/ \E i \in 1..Len(q.tokens) : q.at[i] <= p /\ p < TokenEnd(q, i)

\* The layout uses no other white space than spaces.
SpacesOnly(q) == \A p \in 1..Len(q.text) : q.text[p].word # "blank"

ASSUME QueriesAssumption == MaxQueries \in Nat /\ \A q \in Queries : IsQuery(q)

VARIABLES
  statement,   \* the tokens of the statement this session repeats
  pc,          \* "idle", "split" or "derive"
  spaced,      \* whether the query being looked at has only spaces (history)
  text,        \* new_query_string
  token_ptr,   \* strtok's position: the index it continues from
  parse,       \* the tokens cut so far
  asked,       \* how often the PDP has been asked
  requests     \* what it was asked, and for which kind of layout

vars == <<statement, pc, spaced, text, token_ptr, parse, asked, requests>>

Init ==
  /\ statement \in {q.tokens : q \in Queries}
  /\ pc = "idle"
  /\ spaced = TRUE
  /\ text = <<>>
  /\ token_ptr = 1
  /\ parse = <<>>
  /\ asked = 0
  /\ requests = {}

\* Faulty: the loop stops one short of the end of the text.
FaultyUpperCase(s) ==
  [i \in DOMAIN s |-> IF i = Len(s) THEN s[i] ELSE [s[i] EXCEPT !.upper = TRUE]]

\* The loop over new_query_string that puts every letter in upper case.
UpperCase(s) == [i \in 1..Len(s) |-> [word |-> s[i].word, upper |-> TRUE]]

\* A query arrives; its text is copied and put in upper case.
ReceiveQuery(q) ==
  /\ pc = "idle"
  /\ asked < MaxQueries
  /\ q.tokens = statement
  /\ spaced' = SpacesOnly(q)
  /\ text' = UpperCase(q.text)
  /\ token_ptr' = 1
  /\ parse' = <<>>
  /\ pc' = "split"
  /\ UNCHANGED <<statement, asked, requests>>

\* The first index from i on that holds a space (or, not a space), one past
\* the end of the text when there is none.
NextSpace(i) ==
  CHOOSE j \in i..(Len(text) + 1) :
    /\ j = Len(text) + 1 \/ text[j] = Space
    /\ \A k \in i..(j - 1) : text[k] # Space

NextWord(i) ==
  CHOOSE j \in i..(Len(text) + 1) :
    /\ j = Len(text) + 1 \/ text[j] # Space
    /\ \A k \in i..(j - 1) : text[k] = Space

\* strtok(NULL, " "): skip delimiters, then take everything up to the next;
\* the position kept is after that delimiter, or on the '\0' that ends the text.
Strtok ==
  LET start == NextWord(token_ptr)
  IN [start |-> start, stop |-> NextSpace(start)]

\* One round of the while loop: parse[i] = token_ptr, next token, i++.
SplitToken ==
  /\ pc = "split"
  /\ Strtok.start <= Len(text)
  /\ parse' = Append(parse, SubSeq(text, Strtok.start, Strtok.stop - 1))
  /\ token_ptr' = IF Strtok.stop > Len(text) THEN Strtok.stop ELSE Strtok.stop + 1
  /\ UNCHANGED <<statement, pc, spaced, text, asked, requests>>

\* strtok returns NULL: the loop ends.
SplitDone ==
  /\ pc = "split"
  /\ Strtok.start > Len(text)
  /\ pc' = "derive"
  /\ UNCHANGED <<statement, spaced, text, token_ptr, parse, asked, requests>>

\* Faulty: the semicolon stays on the table's name.
FaultyStripSemicolon(token) == token

\* A semicolon at the end of the fourth token is overwritten by '\0'.
StripSemicolon(token) ==
  IF token[Len(token)] = Semicolon THEN SubSeq(token, 1, Len(token) - 1) ELSE token

\* case 'S' of the switch on the first letter of the first token.
StartsWithS(tokens) == tokens[1][1].upper /\ tokens[1][1].word \in SWords

\* What is appended to "/UOA_CANVAS_LMS/" and the name of the database.
Path(tokens) ==
  IF StartsWithS(tokens) /\ Len(tokens) >= 4
  THEN <<StripSemicolon(tokens[4]), tokens[2]>>
  ELSE <<>>

Request(tokens) ==
  [action |-> IF StartsWithS(tokens) THEN "Get" ELSE "", path |-> Path(tokens)]

\* The arguments of Check_ABAC_Permission are ready.
Derive ==
  /\ pc = "derive"
  /\ requests' = requests \cup {[spaced |-> spaced, asks |-> Request(parse)]}
  /\ asked' = asked + 1
  /\ pc' = "idle"
  /\ UNCHANGED <<statement, spaced, text, token_ptr, parse>>

Next ==
  \/ \E q \in Queries : ReceiveQuery(q)
  \/ SplitToken
  \/ SplitDone
  \/ Derive

Spec == Init /\ [][Next]_vars

-----------------------------------------------------------------------------
(***************************************************************************)
(* Properties                                                              *)
(***************************************************************************)

\* What the PDP was asked about statements laid out with spaces only.  Other
\* white space stays in the token that strtok cuts and may change the question.
Asks == {r.asks : r \in {x \in requests : x.spaced}}

\* However many spaces a client puts between the tokens of a statement and
\* however it capitalises them, the PDP is asked the same question: the
\* upper-casing loop and strtok (postgres.c 4694-4707) take these differences
\* out before the switch looks at the tokens.
LayoutIndependent == \A a, b \in Asks : a = b

\* A statement of the form SELECT column FROM table, with or without a
\* semicolon and whatever follows, laid out with spaces, asks to Get that
\* column of that table: the second token, and what the fourth one is without
\* its semicolon.
SelectColumnFromTable ==
  LET isSelect ==
        /\ Len(statement) >= 4
        /\ statement[1][1].word = "select"
        /\ statement[3][1].word = "from"
        /\ \A k \in 1..(Len(statement[4]) - 1) : statement[4][k].word # "semicolon"
      named == {k \in DOMAIN statement[4] : statement[4][k].word # "semicolon"}
  IN isSelect =>
       \A a \in Asks :
         LET table == a.path[1]
             column == a.path[2]
         IN /\ a.action = "Get" /\ Len(a.path) = 2
            /\ DOMAIN table = named
            /\ \A k \in named : table[k].word = statement[4][k].word
            /\ Len(column) = Len(statement[2])
            /\ \A k \in DOMAIN column : column[k].word = statement[2][k].word

-----------------------------------------------------------------------------
(***************************************************************************)
(* What the documents say of the request                                   *)
(***************************************************************************)

\* architecture.md: the SQL verb, the first token in upper case, is used as
\* the action.
ActionIsVerb ==
  \A r \in requests : r.asks.action = statement[1][1].word

\* architecture.md: the resource is the prefix and the database's name, so
\* that authorization is per database and not per table.
ResourceIsDatabase ==
  \A r \in requests : r.asks.path = <<>>

\* architecture.md: the token taken is the first one delimited by white space.
FirstTokenIsWhitespaceDelimited ==
  pc = "derive" => Len(parse[1]) = Len(statement[1])
=============================================================================
