---------------------- MODULE RequestDerivationProofs ----------------------
(***************************************************************************)
(* The request that case 'Q' derives, for any statement in any layout of   *)
(* spaces.  The inductive invariant is about the strtok loop: what has     *)
(* been cut is the first tokens of the statement in upper case, and        *)
(* strtok's position is past these and not past the others.  Of a query    *)
(* with other white space it says nothing.                                 *)
(***************************************************************************)
EXTENDS RequestDerivation, TLAPS

(* The tokens that the switch looks at when the loop is through.           *)
UpperTokens == [i \in 1..Len(statement) |-> UpperCase(statement[i])]

(* The loop has cut the first tokens of query q.                           *)
CutOff(q) ==
  /\ SpacesOnly(q)
  /\ q.tokens = statement /\ text = UpperCase(q.text)
  /\ Len(parse) \in Nat /\ Len(parse) <= Len(statement)
  /\ parse = [i \in 1..Len(parse) |-> UpperCase(statement[i])]
  /\ token_ptr \in Nat \ {0} /\ token_ptr <= Len(text) + 1
  /\ \A i \in 1..Len(statement) :
       IF i <= Len(parse) THEN TokenEnd(q, i) <= token_ptr ELSE token_ptr <= q.at[i]

DerivationInv ==
  /\ pc \in {"idle", "split", "derive"}
  /\ \E q \in Queries : q.tokens = statement
  /\ pc = "split" /\ spaced => \E q \in Queries : CutOff(q)
  /\ pc = "derive" /\ spaced => parse = UpperTokens
  /\ \A r \in requests : r.spaced => r.asks = Request(UpperTokens)

-----------------------------------------------------------------------------
(***************************************************************************)
(* The helpers                                                             *)
(***************************************************************************)

(* Putting a text in upper case changes no word and leaves spaces alone.   *)
LEMMA UpperCaseText ==
  ASSUME NEW s \in Seq(Piece)
  PROVE  /\ UpperCase(s) \in Seq(Piece) /\ Len(UpperCase(s)) = Len(s)
         /\ DOMAIN UpperCase(s) = 1..Len(s)
         /\ \A i \in 1..Len(s) : UpperCase(s)[i] = [word |-> s[i].word, upper |-> TRUE]
<1>1. DOMAIN s = 1..Len(s) /\ Len(s) \in Nat /\ \A i \in 1..Len(s) : s[i] \in Piece
  OBVIOUS
<1>2. \A i \in 1..Len(s) : [word |-> s[i].word, upper |-> TRUE] \in Piece
  BY <1>1 DEF Piece
<1>. QED  BY <1>1, <1>2 DEF UpperCase

(* The words of a text are the same in upper case.                         *)
LEMMA UpperCaseWords ==
  ASSUME NEW s \in Seq(Piece)
  PROVE  \A i \in 1..Len(s) : UpperCase(s)[i].word = s[i].word
<1> SUFFICES ASSUME NEW i \in 1..Len(s) PROVE UpperCase(s)[i].word = s[i].word
  OBVIOUS
<1>1. UpperCase(s)[i] = [word |-> s[i].word, upper |-> TRUE]
  BY UpperCaseText
<1>. QED  BY <1>1

(* strtok skips the spaces in front of a token.                            *)
LEMMA NextWordIs ==
  ASSUME text \in Seq(Piece), NEW i \in Nat, NEW s \in i..(Len(text) + 1),
         s = Len(text) + 1 \/ text[s] # Space,
         \A k \in i..(s - 1) : text[k] = Space
  PROVE  NextWord(i) = s
<1> DEFINE P(j) == /\ j = Len(text) + 1 \/ text[j] # Space
                   /\ \A k \in i..(j - 1) : text[k] = Space
<1>1. P(s)
  OBVIOUS
<1>2. ASSUME NEW j \in i..(Len(text) + 1), P(j) PROVE j = s
  <2>1. ~(j < s)
    <3>1. j < s => j \in i..(s - 1) /\ j # Len(text) + 1
      OBVIOUS
    <3>. QED  BY <1>2, <3>1
  <2>2. ~(s < j)
    <3>1. s < j => s \in i..(j - 1) /\ s # Len(text) + 1
      OBVIOUS
    <3>. QED  BY <1>2, <3>1
  <2>. QED  BY <2>1, <2>2
<1>. QED  BY <1>1, <1>2 DEF NextWord

(* And takes everything up to the next space.                              *)
LEMMA NextSpaceIs ==
  ASSUME text \in Seq(Piece), NEW i \in Nat, NEW s \in i..(Len(text) + 1),
         s = Len(text) + 1 \/ text[s] = Space,
         \A k \in i..(s - 1) : text[k] # Space
  PROVE  NextSpace(i) = s
<1> DEFINE P(j) == /\ j = Len(text) + 1 \/ text[j] = Space
                   /\ \A k \in i..(j - 1) : text[k] # Space
<1>1. P(s)
  OBVIOUS
<1>2. ASSUME NEW j \in i..(Len(text) + 1), P(j) PROVE j = s
  <2>1. ~(j < s)
    <3>1. j < s => j \in i..(s - 1) /\ j # Len(text) + 1
      OBVIOUS
    <3>. QED  BY <1>2, <3>1
  <2>2. ~(s < j)
    <3>1. s < j => s \in i..(j - 1) /\ s # Len(text) + 1
      OBVIOUS
    <3>. QED  BY <1>2, <3>1
  <2>. QED  BY <2>1, <2>2
<1>. QED  BY <1>1, <1>2 DEF NextSpace

(* Words stay words and spaces stay spaces.                                *)
LEMMA UpperCasePieces ==
  ASSUME NEW s \in Seq(Piece), NEW p \in 1..Len(s)
  PROVE  /\ s[p] = Space => UpperCase(s)[p] = Space
         /\ s[p].word # "space" => UpperCase(s)[p] # Space
<1>1. UpperCase(s)[p] = [word |-> s[p].word, upper |-> TRUE]
  BY UpperCaseText
<1>2. s[p] = Space => s[p].word = "space"
  BY DEF Space
<1>3. [word |-> s[p].word, upper |-> TRUE].word = s[p].word /\ Space.word = "space"
  BY DEF Space
<1>4. s[p].word = "space" => UpperCase(s)[p] = Space
  BY <1>1 DEF Space
<1>5. UpperCase(s)[p] = Space => UpperCase(s)[p].word = "space"
  BY <1>3
<1>. QED  BY <1>1, <1>2, <1>3, <1>4, <1>5

(* A token that starts at position a of a text is there in upper case when *)
(* the text is.                                                            *)
LEMMA TokenInText ==
  ASSUME NEW s \in Seq(Piece), NEW token \in Seq(Piece), NEW a \in Nat, a > 0,
         a + Len(token) <= Len(s) + 1,
         \A k \in 1..Len(token) : token[k].word # "space" /\ s[a + k - 1].word = token[k].word
  PROVE  /\ \A k \in 1..Len(token) : UpperCase(s)[a + k - 1] = UpperCase(token)[k]
         /\ \A p \in a..(a + Len(token) - 1) : UpperCase(s)[p] # Space
<1>0. Len(s) \in Nat /\ Len(token) \in Nat
  OBVIOUS
<1>1. ASSUME NEW k \in 1..Len(token) PROVE UpperCase(s)[a + k - 1] = UpperCase(token)[k]
  <2>1. a + k - 1 \in 1..Len(s)
    BY <1>0
  <2>2. UpperCase(s)[a + k - 1] = [word |-> s[a + k - 1].word, upper |-> TRUE]
    BY <2>1, UpperCaseText
  <2>3. UpperCase(token)[k] = [word |-> token[k].word, upper |-> TRUE]
    BY UpperCaseText
  <2>. QED  BY Zenon, <2>2, <2>3
<1>2. ASSUME NEW p \in a..(a + Len(token) - 1) PROVE UpperCase(s)[p] # Space
  <2>1. p \in 1..Len(s) /\ p - a + 1 \in 1..Len(token) /\ a + (p - a + 1) - 1 = p
    BY <1>0
  <2>2. s[p].word # "space"
    BY Zenon, <2>1
  <2>. QED  BY <2>1, <2>2, UpperCasePieces
<1>. QED  BY <1>1, <1>2

(* Where words and spaces are in the upper-case text of a query.           *)
LEMMA QueryPositions ==
  ASSUME NEW q \in Queries, SpacesOnly(q), q.tokens = statement,
         text = UpperCase(q.text)
  PROVE  /\ text \in Seq(Piece) /\ Len(text) \in Nat
         /\ statement \in Seq(Seq(Piece)) /\ Len(statement) \in Nat \ {0}
         /\ \A i \in 1..Len(statement) :
              /\ statement[i] \in Seq(Piece) /\ Len(statement[i]) \in Nat \ {0}
              /\ q.at[i] \in Nat \ {0} /\ TokenEnd(q, i) = q.at[i] + Len(statement[i])
              /\ TokenEnd(q, i) \in Nat /\ TokenEnd(q, i) <= Len(text) + 1
              /\ \A k \in 1..Len(statement[i]) :
                   text[q.at[i] + k - 1] = UpperCase(statement[i])[k]
              /\ \A p \in q.at[i]..(TokenEnd(q, i) - 1) : text[p] # Space
         /\ \A i, j \in 1..Len(statement) : i < j => TokenEnd(q, i) < q.at[j]
         /\ \A p \in 1..Len(text) :
              text[p] = Space \/ \E i \in 1..Len(statement) : q.at[i] <= p /\ p < TokenEnd(q, i)
<1>0. IsQuery(q)
  BY QueriesAssumption
<1>1. /\ q.text \in Seq(Piece) /\ statement \in Seq(Seq(Piece)) /\ q.at \in Seq(Nat)
      /\ Len(statement) > 0 /\ Len(q.at) = Len(statement)
      /\ \A i, j \in 1..Len(statement) : i < j => TokenEnd(q, i) < q.at[j]
  BY Zenon, <1>0 DEF IsQuery
<1>2. text \in Seq(Piece) /\ Len(text) = Len(q.text) /\ Len(text) \in Nat
  BY <1>1, UpperCaseText
<1>3. ASSUME NEW i \in 1..Len(statement)
      PROVE  /\ statement[i] \in Seq(Piece) /\ Len(statement[i]) \in Nat \ {0}
             /\ q.at[i] \in Nat \ {0} /\ TokenEnd(q, i) = q.at[i] + Len(statement[i])
             /\ TokenEnd(q, i) \in Nat /\ TokenEnd(q, i) <= Len(text) + 1
             /\ \A k \in 1..Len(statement[i]) :
                  text[q.at[i] + k - 1] = UpperCase(statement[i])[k]
             /\ \A p \in q.at[i]..(TokenEnd(q, i) - 1) : text[p] # Space
  <2>1. /\ statement[i] \in Seq(Piece) /\ q.at[i] \in Nat
        /\ TokenEnd(q, i) = q.at[i] + Len(statement[i])
    <3>1. i \in 1..Len(q.at)
      BY <1>1
    <3>2. statement \in Seq(Seq(Piece)) /\ q.at \in Seq(Nat)
      BY Zenon, <1>1
    <3>3. statement[i] \in Seq(Piece)
      BY <3>2
    <3>4. q.at[i] \in Nat
      BY <3>1, <3>2
    <3>. QED  BY Zenon, <3>3, <3>4 DEF TokenEnd
  <2>2. /\ Len(statement[i]) > 0 /\ q.at[i] > 0 /\ TokenEnd(q, i) <= Len(q.text) + 1
        /\ \A k \in 1..Len(statement[i]) :
             /\ statement[i][k].word \notin {"space", "blank"}
             /\ q.text[q.at[i] + k - 1].word = statement[i][k].word
    BY Zenon, <1>0 DEF IsQuery
  <2>3. /\ \A k \in 1..Len(statement[i]) : text[q.at[i] + k - 1] = UpperCase(statement[i])[k]
        /\ \A p \in q.at[i]..(q.at[i] + Len(statement[i]) - 1) : text[p] # Space
    <3>1. q.at[i] + Len(statement[i]) <= Len(q.text) + 1
      BY <2>1, <2>2
    <3>2. \A k \in 1..Len(statement[i]) :
            /\ statement[i][k].word # "space"
            /\ q.text[q.at[i] + k - 1].word = statement[i][k].word
      BY <2>2
    <3>3. q.text \in Seq(Piece) /\ statement[i] \in Seq(Piece) /\ q.at[i] \in Nat /\ q.at[i] > 0
      BY Zenon, <1>1, <2>1, <2>2
    <3>. QED  BY ZenonT(30), <3>1, <3>2, <3>3, TokenInText
  <2>4. /\ Len(statement[i]) \in Nat \ {0} /\ q.at[i] \in Nat \ {0}
        /\ TokenEnd(q, i) \in Nat /\ TokenEnd(q, i) <= Len(text) + 1
    <3>1. Len(statement[i]) \in Nat
      BY <2>1
    <3>. QED  BY <1>2, <2>1, <2>2, <3>1
  <2>5. \A p \in q.at[i]..(TokenEnd(q, i) - 1) : text[p] # Space
    <3>1. ASSUME NEW p \in q.at[i]..(TokenEnd(q, i) - 1)
          PROVE  p \in q.at[i]..(q.at[i] + Len(statement[i]) - 1)
      BY <2>1, <2>4
    <3>. QED  BY Zenon, <2>3, <3>1
  <2>. QED  BY Zenon, <2>1, <2>3, <2>4, <2>5
<1>4. ASSUME NEW p \in 1..Len(text)
      PROVE  text[p] = Space \/ \E i \in 1..Len(statement) : q.at[i] <= p /\ p < TokenEnd(q, i)
  <2>1. q.text[p] = Space \/ \E i \in 1..Len(statement) : q.at[i] <= p /\ p < TokenEnd(q, i)
    <3>1. \A x \in 1..Len(q.text) :
            \/ q.text[x] \in {Space, Blank}
            \/ \E i \in 1..Len(statement) : q.at[i] <= x /\ x < TokenEnd(q, i)
      BY Zenon, <1>0 DEF IsQuery
    <3>2. q.text[p] # Blank
      BY <1>2 DEF SpacesOnly, Blank
    <3>. QED  BY Zenon, <1>2, <3>1, <3>2
  <2>2. q.text[p] = Space => text[p] = Space
    BY <1>1, <1>2, UpperCasePieces
  <2>. QED  BY <2>1, <2>2
<1>. QED  BY <1>1, <1>2, <1>3, <1>4

(* The next call of strtok finds the next token, if there is one.          *)
LEMMA StrtokFindsToken ==
  ASSUME NEW q \in Queries, CutOff(q), Len(parse) < Len(statement)
  PROVE  /\ Strtok.start = q.at[Len(parse) + 1]
         /\ Strtok.stop = TokenEnd(q, Len(parse) + 1)
<1> DEFINE n == Len(parse) + 1
           N == Len(statement)
<1>1. /\ SpacesOnly(q)
      /\ text = UpperCase(q.text) /\ q.tokens = statement /\ Len(parse) \in Nat
      /\ token_ptr \in Nat \ {0}
      /\ \A i \in 1..N :
           IF i <= Len(parse) THEN TokenEnd(q, i) <= token_ptr ELSE token_ptr <= q.at[i]
  BY DEF CutOff
<1>2. /\ text \in Seq(Piece) /\ Len(text) \in Nat /\ N \in Nat
      /\ \A i \in 1..N : /\ q.at[i] \in Nat \ {0} /\ Len(statement[i]) \in Nat \ {0}
                         /\ TokenEnd(q, i) = q.at[i] + Len(statement[i])
                         /\ TokenEnd(q, i) <= Len(text) + 1
                         /\ \A p \in q.at[i]..(TokenEnd(q, i) - 1) : text[p] # Space
                         /\ TokenEnd(q, i) \in Nat
      /\ \A i, j \in 1..N : i < j => TokenEnd(q, i) < q.at[j]
      /\ \A p \in 1..Len(text) :
           text[p] = Space \/ \E i \in 1..N : q.at[i] <= p /\ p < TokenEnd(q, i)
  BY <1>1, QueryPositions
<1> DEFINE a == q.at[n]
           e == TokenEnd(q, n)
<1>3. /\ n \in 1..N /\ a \in Nat \ {0} /\ e \in Nat /\ a < e /\ e <= Len(text) + 1
      /\ token_ptr <= a /\ \A p \in a..(e - 1) : text[p] # Space
  <2>1. n \in 1..N /\ ~(n <= Len(parse))
    BY <1>1, <1>2
  <2>2. /\ a \in Nat \ {0} /\ Len(statement[n]) \in Nat \ {0} /\ e = a + Len(statement[n])
        /\ e \in Nat /\ e <= Len(text) + 1 /\ \A p \in a..(e - 1) : text[p] # Space
    BY <1>2, <2>1
  <2>3. token_ptr <= a
    BY <1>1, <2>1
  <2>. QED  BY <2>1, <2>2, <2>3
<1>4. ASSUME NEW p \in token_ptr..(a - 1) PROVE text[p] = Space
  <2>0. /\ token_ptr \in Nat \ {0} /\ a \in Nat /\ Len(text) \in Nat
        /\ a <= Len(text) /\ p \in token_ptr..(a - 1)
    BY <1>1, <1>2, <1>3
  <2>1. p \in 1..Len(text) /\ token_ptr <= p /\ p < a
    BY SMTT(30), <2>0
  <2>2. ASSUME NEW i \in 1..N, q.at[i] <= p, p < TokenEnd(q, i) PROVE FALSE
    <3>1. CASE i <= Len(parse)
      <4>1. TokenEnd(q, i) <= token_ptr /\ TokenEnd(q, i) \in Nat
        BY <1>1, <1>2, <3>1
      <4>. QED  BY <2>0, <2>1, <2>2, <4>1
    <3>2. CASE i = n
      BY <2>0, <2>1, <2>2, <3>2
    <3>3. CASE i > n
      <4>1. e < q.at[i] /\ q.at[i] \in Nat /\ e \in Nat /\ a < e
        BY SMTT(30), <1>2, <1>3, <3>3
      <4>. QED  BY SMTT(30), <2>0, <2>1, <2>2, <4>1
    <3>. QED  BY <1>1, <3>1, <3>2, <3>3
  <2>. QED  BY <1>2, <2>1, <2>2
<1>5. e = Len(text) + 1 \/ text[e] = Space
  <2> SUFFICES ASSUME e # Len(text) + 1 PROVE text[e] = Space
    OBVIOUS
  <2>1. e \in 1..Len(text)
    BY <1>2, <1>3
  <2>2. ASSUME NEW i \in 1..N, q.at[i] <= e, e < TokenEnd(q, i) PROVE FALSE
    <3>1. CASE i < n
      <4>1. TokenEnd(q, i) < a /\ TokenEnd(q, i) \in Nat
        BY <1>2, <1>3, <3>1
      <4>. QED  BY <1>2, <1>3, <2>2, <4>1
    <3>2. CASE i = n
      BY <1>3, <2>2, <3>2
    <3>3. CASE i > n
      <4>1. e < q.at[i]
        BY <1>2, <1>3, <3>3
      <4>. QED  BY <1>2, <1>3, <2>2, <4>1
    <3>. QED  BY <1>1, <3>1, <3>2, <3>3
  <2>. QED  BY Zenon, <1>2, <2>1, <2>2
<1> HIDE DEF a, e
<1>6. NextWord(token_ptr) = a
  <2>1. a \in token_ptr..(Len(text) + 1) /\ text[a] # Space
    BY <1>1, <1>2, <1>3
  <2>. QED  BY <1>1, <1>2, <1>4, <2>1, NextWordIs
<1>7. NextSpace(a) = e
  <2>1. e \in a..(Len(text) + 1)
    BY <1>2, <1>3
  <2>. QED  BY <1>2, <1>3, <1>5, <2>1, NextSpaceIs
<1>. QED  BY <1>6, <1>7 DEF Strtok, a, e

(* After the last token strtok finds only spaces.                          *)
LEMMA StrtokEnds ==
  ASSUME NEW q \in Queries, CutOff(q), ~(Len(parse) < Len(statement))
  PROVE  Strtok.start = Len(text) + 1
<1>1. /\ SpacesOnly(q) /\ text = UpperCase(q.text) /\ q.tokens = statement
      /\ token_ptr \in Nat \ {0} /\ token_ptr <= Len(text) + 1
      /\ \A i \in 1..Len(statement) :
           IF i <= Len(parse) THEN TokenEnd(q, i) <= token_ptr ELSE token_ptr <= q.at[i]
      /\ Len(parse) \in Nat
  BY DEF CutOff
<1>2. /\ text \in Seq(Piece) /\ Len(text) \in Nat /\ Len(statement) \in Nat
      /\ \A p \in 1..Len(text) :
           text[p] = Space \/ \E i \in 1..Len(statement) : q.at[i] <= p /\ p < TokenEnd(q, i)
      /\ \A i \in 1..Len(statement) : TokenEnd(q, i) \in Nat
  BY <1>1, QueryPositions
<1>3. ASSUME NEW p \in token_ptr..Len(text) PROVE text[p] = Space
  <2>1. p \in 1..Len(text) /\ token_ptr <= p
    BY <1>1, <1>2
  <2>2. ASSUME NEW i \in 1..Len(statement), p < TokenEnd(q, i) PROVE FALSE
    <3>1. i <= Len(parse)
      BY <1>1, <1>2
    <3>2. TokenEnd(q, i) <= token_ptr /\ TokenEnd(q, i) \in Nat
      BY <1>1, <1>2, <3>1
    <3>. QED  BY <1>1, <1>2, <2>1, <2>2, <3>2
  <2>. QED  BY <1>2, <2>1, <2>2
<1>4. NextWord(token_ptr) = Len(text) + 1
  <2>1. Len(text) + 1 \in token_ptr..(Len(text) + 1) /\ (Len(text) + 1) - 1 = Len(text)
    BY <1>1, <1>2
  <2>2. token_ptr \in Nat /\ \A p \in token_ptr..((Len(text) + 1) - 1) : text[p] = Space
    BY <1>1, <1>3, <2>1
  <2>. QED  BY Zenon, <1>2, <2>1, <2>2, NextWordIs
<1>. QED  BY <1>4 DEF Strtok

-----------------------------------------------------------------------------
(***************************************************************************)
(* The steps                                                               *)
(***************************************************************************)

(* A query starts the loop in front of its first token.                    *)
LEMMA ReceiveStep ==
  ASSUME DerivationInv, NEW q \in Queries, ReceiveQuery(q) PROVE DerivationInv'
<1>1. /\ q.tokens = statement /\ text' = UpperCase(q.text) /\ token_ptr' = 1 /\ parse' = <<>>
      /\ pc' = "split" /\ spaced' = SpacesOnly(q) /\ UNCHANGED <<statement, requests>>
  BY DEF ReceiveQuery
<1>2. /\ q.text \in Seq(Piece) /\ q.tokens \in Seq(Seq(Piece)) /\ q.at \in Seq(Nat)
      /\ Len(q.at) = Len(q.tokens) /\ \A i \in 1..Len(q.tokens) : q.at[i] > 0
  BY Zenon, QueriesAssumption DEF IsQuery
<1>3. Len(text') \in Nat
  BY <1>1, <1>2, UpperCaseText
<1>4. \A i \in 1..Len(statement) : ~(i <= 0) /\ 1 <= q.at[i]
  BY SMTT(30), <1>1, <1>2
<1>5. SpacesOnly(q) => CutOff(q)'
  BY <1>1, <1>2, <1>3, <1>4 DEF CutOff
<1>. QED  BY <1>1, <1>5 DEF DerivationInv, UpperTokens

(* Each round of the loop cuts the next token off.                         *)
LEMMA SplitStep == DerivationInv /\ SplitToken => DerivationInv'
<1> SUFFICES ASSUME DerivationInv, SplitToken, spaced PROVE DerivationInv'
  BY DEF DerivationInv, SplitToken, UpperTokens
<1>1. PICK q \in Queries : CutOff(q)
  BY DEF DerivationInv, SplitToken
<1>2. /\ SpacesOnly(q) /\ q.tokens = statement /\ text = UpperCase(q.text)
      /\ Len(parse) \in Nat /\ Len(parse) <= Len(statement)
      /\ parse = [i \in 1..Len(parse) |-> UpperCase(statement[i])]
      /\ token_ptr \in Nat \ {0}
      /\ \A i \in 1..Len(statement) :
           IF i <= Len(parse) THEN TokenEnd(q, i) <= token_ptr ELSE token_ptr <= q.at[i]
  BY <1>1 DEF CutOff
<1> DEFINE n == Len(parse) + 1
           a == q.at[n]
           e == TokenEnd(q, n)
<1>3. /\ text \in Seq(Piece) /\ Len(text) \in Nat /\ Len(statement) \in Nat
      /\ \A i \in 1..Len(statement) :
           /\ q.at[i] \in Nat \ {0} /\ TokenEnd(q, i) = q.at[i] + Len(statement[i])
           /\ statement[i] \in Seq(Piece)
           /\ Len(statement[i]) \in Nat \ {0}
           /\ TokenEnd(q, i) \in Nat /\ TokenEnd(q, i) <= Len(text) + 1
           /\ \A k \in 1..Len(statement[i]) :
                text[q.at[i] + k - 1] = UpperCase(statement[i])[k]
      /\ \A i, j \in 1..Len(statement) : i < j => TokenEnd(q, i) < q.at[j]
  BY <1>2, QueryPositions
<1>4. Len(parse) < Len(statement)
  <2>1. Strtok.start <= Len(text)
    BY DEF SplitToken
  <2>. QED  BY <1>1, <1>3, <2>1, StrtokEnds
<1>5. /\ Strtok.start = a /\ Strtok.stop = e
      /\ parse' = Append(parse, SubSeq(text, a, e - 1))
      /\ token_ptr' = (IF e > Len(text) THEN e ELSE e + 1)
      /\ UNCHANGED <<statement, pc, spaced, text, requests>>
  BY Zenon, <1>1, <1>4, StrtokFindsToken DEF SplitToken
<1>6. /\ n \in 1..Len(statement) /\ a \in Nat \ {0} /\ e = a + Len(statement[n]) /\ e \in Nat
      /\ Len(statement[n]) \in Nat \ {0} /\ e <= Len(text) + 1 /\ token_ptr <= a
      /\ statement[n] \in Seq(Piece)
      /\ \A k \in 1..Len(statement[n]) : text[a + k - 1] = UpperCase(statement[n])[k]
  <2>1. n \in 1..Len(statement) /\ ~(n <= Len(parse))
    BY <1>2, <1>3, <1>4
  <2>. QED  BY Zenon, <1>2, <1>3, <2>1
<1>0. /\ n \in Nat /\ a \in Nat \ {0} /\ e \in Nat /\ a < e /\ e <= Len(text) + 1
      /\ Len(text) \in Nat /\ token_ptr' = (IF e > Len(text) THEN e ELSE e + 1)
  BY SMTT(30), <1>3, <1>5, <1>6
<1>7. \A i \in 1..Len(statement) :
        IF i <= n THEN TokenEnd(q, i) <= token_ptr' ELSE token_ptr' <= q.at[i]
  <2> SUFFICES ASSUME NEW i \in 1..Len(statement)
               PROVE  IF i <= n THEN TokenEnd(q, i) <= token_ptr' ELSE token_ptr' <= q.at[i]
    OBVIOUS
  <2>1. CASE i = n
    BY <1>0, <2>1
  <2>2. CASE i < n
    <3>1. TokenEnd(q, i) < a /\ TokenEnd(q, i) \in Nat
      BY <1>3, <1>6, <2>2
    <3>. QED  BY <1>0, <2>2, <3>1
  <2>3. CASE i > n
    <3>1. e < q.at[i] /\ q.at[i] \in Nat
      BY SMTT(30), <1>3, <1>6, <2>3
    <3>. QED  BY <1>0, <2>3, <3>1
  <2>. QED  BY <1>0, <2>1, <2>2, <2>3
<1>8. token_ptr' \in Nat \ {0} /\ token_ptr' <= Len(text) + 1
  BY <1>0
<1> HIDE DEF a, e
<1>9. SubSeq(text, a, e - 1) = UpperCase(statement[n])
  <2>1. SubSeq(text, a, e - 1) = [k \in 1..Len(statement[n]) |-> text[a + k - 1]]
    BY <1>3, <1>6
  <2>2. UpperCase(statement[n]) = [k \in 1..Len(statement[n]) |-> UpperCase(statement[n])[k]]
    BY DEF UpperCase
  <2>. QED  BY ZenonT(30), <1>6, <2>1, <2>2
<1>10. Len(parse') = n /\ parse' = [i \in 1..n |-> UpperCase(statement[i])]
  <2>1. \A i \in 1..Len(parse) : UpperCase(statement[i]) \in Seq(Piece)
    BY <1>2, <1>3, UpperCaseText
  <2>2. parse \in Seq(Seq(Piece))
    BY <1>2, <2>1
  <2>. QED  BY <1>2, <1>5, <1>9, <2>2
<1>11. CutOff(q)'
  <2>1. Len(parse') \in Nat /\ Len(parse') <= Len(statement)
    BY <1>6, <1>10
  <2>. QED  BY ZenonT(30), <1>2, <1>5, <1>7, <1>8, <1>10, <2>1 DEF CutOff
<1>. QED  BY <1>5, <1>11 DEF DerivationInv, SplitToken, UpperTokens

(* When strtok finds no more, all tokens have been cut off.                *)
LEMMA SplitDoneStep == DerivationInv /\ SplitDone => DerivationInv'
<1> SUFFICES ASSUME DerivationInv, SplitDone, spaced PROVE DerivationInv'
  BY DEF DerivationInv, SplitDone, UpperTokens
<1>1. PICK q \in Queries : CutOff(q)
  BY DEF DerivationInv, SplitDone
<1>2. /\ SpacesOnly(q) /\ q.tokens = statement /\ text = UpperCase(q.text)
      /\ Len(parse) \in Nat /\ Len(parse) <= Len(statement)
      /\ parse = [i \in 1..Len(parse) |-> UpperCase(statement[i])]
  BY <1>1 DEF CutOff
<1>3. /\ Len(text) \in Nat /\ Len(statement) \in Nat
      /\ \A i \in 1..Len(statement) :
           /\ q.at[i] \in Nat /\ Len(statement[i]) \in Nat \ {0}
           /\ TokenEnd(q, i) = q.at[i] + Len(statement[i]) /\ TokenEnd(q, i) <= Len(text) + 1
  <2>1. SpacesOnly(q) /\ q.tokens = statement /\ text = UpperCase(q.text)
    BY <1>2
  <2>. QED  BY <2>1, QueryPositions
<1>4. Len(parse) = Len(statement)
  <2> SUFFICES ASSUME Len(parse) < Len(statement) PROVE FALSE
    BY <1>2, <1>3
  <2>1. Strtok.start = q.at[Len(parse) + 1] /\ Strtok.start > Len(text)
    BY <1>1, StrtokFindsToken DEF SplitDone
  <2>2. Len(parse) + 1 \in 1..Len(statement)
    BY <1>2, <1>3
  <2>. QED  BY <1>3, <2>1, <2>2
<1>. QED  BY <1>2, <1>4 DEF DerivationInv, SplitDone, UpperTokens

(* The PDP is asked what the tokens of the statement determine.            *)
LEMMA DeriveStep == DerivationInv /\ Derive => DerivationInv'
<1> SUFFICES ASSUME DerivationInv, Derive PROVE DerivationInv'
  OBVIOUS
<1>1. /\ spaced => parse = UpperTokens
      /\ \A r \in requests : r.spaced => r.asks = Request(UpperTokens)
      /\ requests' = requests \cup {[spaced |-> spaced, asks |-> Request(parse)]}
      /\ pc' = "idle" /\ UNCHANGED statement
  BY DEF DerivationInv, Derive
<1>2. \A r \in requests' : r.spaced => r.asks = Request(UpperTokens)
  BY <1>1
<1>3. UpperTokens' = UpperTokens
  BY <1>1 DEF UpperTokens
<1>. QED  BY <1>1, <1>2, <1>3 DEF DerivationInv

-----------------------------------------------------------------------------
(***************************************************************************)
(* The theorems                                                            *)
(***************************************************************************)

(* The inductive invariant of the derivation: the strtok loop cuts exactly *)
(* the tokens of a statement laid out with spaces, and every request for   *)
(* it is the one they give.                                                *)
THEOREM DerivationInvariant == Spec => []DerivationInv
<1>1. Init => DerivationInv
  BY DEF Init, DerivationInv
<1>2. DerivationInv /\ [Next]_vars => DerivationInv'
  <2> SUFFICES ASSUME DerivationInv, [Next]_vars PROVE DerivationInv'
    OBVIOUS
  <2>1. CASE UNCHANGED vars
    <3>1. UpperTokens' = UpperTokens /\ \A q \in Queries : CutOff(q)' <=> CutOff(q)
      BY <2>1 DEF vars, UpperTokens, CutOff
    <3>. QED  BY <2>1, <3>1 DEF vars, DerivationInv
  <2>. QED  BY <2>1, ReceiveStep, SplitStep, SplitDoneStep, DeriveStep DEF Next
<1>. QED  BY <1>1, <1>2, PTL DEF Spec

(* Whatever the statement, however many spaces separate its tokens and     *)
(* however these are capitalised, the PDP is asked the same each time.     *)
THEOREM LayoutDoesNotMatter == Spec => []LayoutIndependent
<1>1. DerivationInv => LayoutIndependent
  BY DEF DerivationInv, LayoutIndependent, Asks
<1>. QED  BY <1>1, DerivationInvariant, PTL

(* A table's name, in upper case and without the semicolon that ends the   *)
(* statement.                                                              *)
LEMMA StrippedToken ==
  ASSUME NEW token \in Seq(Piece), Len(token) > 0,
         \A k \in 1..(Len(token) - 1) : token[k].word # "semicolon"
  PROVE  LET named == {k \in 1..Len(token) : token[k].word # "semicolon"}
             table == StripSemicolon(UpperCase(token))
         IN  DOMAIN table = named /\ \A k \in named : table[k].word = token[k].word
<1> DEFINE up == UpperCase(token)
           n == Len(token)
           named == {k \in 1..n : token[k].word # "semicolon"}
<1>1. /\ up \in Seq(Piece) /\ Len(up) = n /\ n \in Nat /\ n > 0 /\ DOMAIN up = 1..n
      /\ \A k \in 1..n : up[k] = [word |-> token[k].word, upper |-> TRUE]
  BY UpperCaseText
<1>2. \A k \in 1..n : up[k].word = token[k].word
  BY UpperCaseWords
<1>3. \A k \in 1..n : up[k] = Semicolon <=> token[k].word = "semicolon"
  <2> SUFFICES ASSUME NEW k \in 1..n PROVE up[k] = Semicolon <=> token[k].word = "semicolon"
    OBVIOUS
  <2>1. up[k] = Semicolon => up[k].word = "semicolon"
    BY DEF Semicolon
  <2>2. token[k].word = "semicolon" => up[k] = Semicolon
    BY <1>1 DEF Semicolon
  <2>. QED  BY <1>2, <2>1, <2>2
<1> HIDE DEF up
<1>4. CASE up[n] = Semicolon
  <2>1. named = 1..(n - 1)
    BY <1>1, <1>3, <1>4
  <2>2. StripSemicolon(up) = SubSeq(up, 1, n - 1)
    BY <1>1, <1>4 DEF StripSemicolon
  <2>3. /\ DOMAIN SubSeq(up, 1, n - 1) = 1..(n - 1)
        /\ \A k \in 1..(n - 1) : SubSeq(up, 1, n - 1)[k] = up[k]
    BY <1>1
  <2>. QED  BY <1>1, <1>2, <2>1, <2>2, <2>3 DEF up
<1>5. CASE up[n] # Semicolon
  <2>1. named = 1..n
    BY <1>1, <1>3, <1>5
  <2>2. StripSemicolon(up) = up
    BY <1>1, <1>5 DEF StripSemicolon
  <2>. QED  BY <1>1, <1>2, <2>1, <2>2 DEF up
<1>. QED  BY <1>4, <1>5

(* SELECT column FROM table asks to Get that column of that table, in any  *)
(* layout of spaces and whatever follows.                                  *)
THEOREM SelectAsksForColumn == Spec => []SelectColumnFromTable
<1>1. DerivationInv => SelectColumnFromTable
  <2> SUFFICES ASSUME DerivationInv,
                      Len(statement) >= 4, statement[1][1].word = "select",
                      \A k \in 1..(Len(statement[4]) - 1) : statement[4][k].word # "semicolon",
                      NEW a \in Asks
               PROVE  LET named == {k \in DOMAIN statement[4] : statement[4][k].word # "semicolon"}
                          table == a.path[1]
                          column == a.path[2]
                      IN  /\ a.action = "Get" /\ Len(a.path) = 2
                          /\ DOMAIN table = named
                          /\ \A k \in named : table[k].word = statement[4][k].word
                          /\ Len(column) = Len(statement[2])
                          /\ \A k \in DOMAIN column : column[k].word = statement[2][k].word
    BY DEF SelectColumnFromTable
  <2>1. a = Request(UpperTokens)
    BY DEF DerivationInv, Asks
  <2>2. PICK q \in Queries : q.tokens = statement
    BY DEF DerivationInv
  <2>3. /\ statement \in Seq(Seq(Piece)) /\ Len(statement) \in Nat
        /\ \A j \in 1..Len(statement) : statement[j] \in Seq(Piece) /\ Len(statement[j]) > 0
    <3>1. statement \in Seq(Seq(Piece)) /\ \A j \in 1..Len(statement) : Len(statement[j]) > 0
      BY Zenon, <2>2, QueriesAssumption DEF IsQuery
    <3>. QED  BY <3>1
  <2>4. /\ statement[1] \in Seq(Piece) /\ Len(statement[1]) > 0
        /\ statement[2] \in Seq(Piece) /\ statement[4] \in Seq(Piece) /\ Len(statement[4]) > 0
    BY <2>3
  <2>5. /\ Len(UpperTokens) = Len(statement) /\ UpperTokens[1] = UpperCase(statement[1])
        /\ UpperTokens[2] = UpperCase(statement[2]) /\ UpperTokens[4] = UpperCase(statement[4])
    BY <2>3 DEF UpperTokens
  <2>6. UpperCase(statement[1])[1] = [word |-> "select", upper |-> TRUE]
    BY <2>4, UpperCaseText
  <2>7. StartsWithS(UpperTokens)
    BY <2>5, <2>6 DEF StartsWithS, SWords
  <2>8. a = [action |-> "Get",
             path |-> <<StripSemicolon(UpperCase(statement[4])),
                        UpperCase(statement[2])>>]
    BY <2>1, <2>3, <2>5, <2>7 DEF Request, Path
  <2>9. DOMAIN statement[4] = 1..Len(statement[4])
    BY <2>4
  <2>10. LET named == {k \in 1..Len(statement[4]) : statement[4][k].word # "semicolon"}
             table == StripSemicolon(UpperCase(statement[4]))
         IN  DOMAIN table = named /\ \A k \in named : table[k].word = statement[4][k].word
    BY Zenon, <2>4, StrippedToken
  <2>11. /\ Len(UpperCase(statement[2])) = Len(statement[2])
         /\ \A k \in DOMAIN UpperCase(statement[2]) :
              UpperCase(statement[2])[k].word = statement[2][k].word
    <3>1. DOMAIN UpperCase(statement[2]) = 1..Len(statement[2])
      BY <2>4, UpperCaseText
    <3>. QED  BY <2>4, <3>1, UpperCaseText, UpperCaseWords
  <2>12. /\ a.action = "Get" /\ Len(a.path) = 2
         /\ a.path[1] = StripSemicolon(UpperCase(statement[4]))
         /\ a.path[2] = UpperCase(statement[2])
    BY <2>8
  <2>. QED  BY <2>9, <2>10, <2>11, <2>12
<1>. QED  BY <1>1, DerivationInvariant, PTL
=============================================================================
