------------------------ MODULE MCRequestDerivation ------------------------
(***************************************************************************)
(* Small instances of RequestDerivation for TLC.                           *)
(***************************************************************************)
EXTENDS RequestDerivation, SequencesExt

Word(w) == [word |-> w, upper |-> FALSE]

Token(w) == <<Word(w)>>

\* A token, alone or with the semicolon that ends the statement.
Ended(w) == {Token(w), <<Word(w), Semicolon>>}

\* Statements of one to five tokens: queries of a column of a table, a
\* parameter setting, an update, and a statement that is not in this form.
SmallStatements ==
  {<<t>> : t \in Ended("select") \cup Ended("commit")}
    \cup {<<Token("select"), t>> : t \in Ended("score")}
    \cup {<<Token(v), Token("score"), Token(f), t>> :
            v \in {"select", "set", "update"}, f \in {"from", "to"},
            t \in Ended("course") \cup Ended("off")}
    \cup {<<Token("select"), Token("score"), Token("from"), t, Token("where")>> :
            t \in Ended("course")}

\* The white space that leads, trails, and follows an odd and an even token,
\* and whether odd and even tokens are capitals.
SmallLayouts ==
  [lead : {<<>>, <<Space>>, <<Blank>>},
   odd : {<<Space>>, <<Space, Space>>, <<Blank>>, <<Space, Blank>>},
   even : {<<Space, Space, Space>>, <<Blank>>},
   trail : {<<>>, <<Space, Space>>},
   upperOdd : BOOLEAN, upperEven : BOOLEAN]

Capitalise(token, upper) ==
  [k \in DOMAIN token |->
     IF token[k] = Semicolon THEN token[k] ELSE [token[k] EXCEPT !.upper = upper]]

\* The text before the i-th token, and the tokens of a statement in a layout.
Gap(layout, i) ==
  IF i = 1 THEN layout.lead ELSE IF i % 2 = 0 THEN layout.odd ELSE layout.even

Piecewise(tokens, layout) ==
  [i \in DOMAIN tokens |->
     Gap(layout, i) \o Capitalise(tokens[i], IF i % 2 = 1 THEN layout.upperOdd ELSE layout.upperEven)]

QueryOf(tokens, layout) ==
  LET pieces == Piecewise(tokens, layout)
  IN [tokens |-> tokens,
      text |-> FlattenSeq(pieces) \o layout.trail,
      at |-> [i \in DOMAIN tokens |->
                Len(FlattenSeq(SubSeq(pieces, 1, i))) - Len(tokens[i]) + 1]]

SmallQueries == {QueryOf(tokens, layout) : tokens \in SmallStatements, layout \in SmallLayouts}
=============================================================================
