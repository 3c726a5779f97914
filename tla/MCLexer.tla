------------------------------ MODULE MCLexer ------------------------------
(***************************************************************************)
(* Files put together from fragments: every sequence of three of the       *)
(* fragments that make up lines, of four of those that join, of four of    *)
(* the lines for the indentation, and some that go on behind a CR.         *)
(***************************************************************************)
EXTENDS Lexer, SequencesExt

Fragments == { <<"a">>, <<" ">>, <<"\t">>, <<"#">>, <<"/">>, <<"/", "*">>, <<"*", "/">>,
               <<"\n">>, <<"\r", "\n">>, <<"\r">>, <<"(">>, <<")">>, <<"quote">> }

Lines == { <<"a", "\n">>, <<" ", "a", "\n">>, <<" ", " ", "a", "\n">>,
           <<" ", " ", " ", "a", "\n">>, <<"\t", "a", "\n">>, <<" ", "\t", "a", "\n">>,
           <<" ", "(", "\n">>, <<")", "\n">>, <<" ", "#", "a", "\n">>, <<" ">> }

Joined(parts, n) == { FlattenSeq(s) : s \in [1..n -> parts] }

\* The fragments that lex together, in files of four.
Joining == { <<"a">>, <<" ">>, <<"/">>, <<"/", "*">>, <<"*", "/">>, <<"\n">>, <<"\r", "\n">>, <<"(">> }

\* Lines that are read on behind a CR.
BehindReturn == { <<"\r", "a", " ">> \o s : s \in Joined({<<"\r">>, <<"#">>, <<"a">>, <<"quote">>}, 3) }

MCTexts == {<<>>} \cup Joined(Fragments, 3) \cup Joined(Joining, 4) \cup Joined(Lines, 4)
             \cup BehindReturn

\* A line that ends in CR LF behind a comment.
MCCommentTexts ==
  { <<"a", "\n", "a", "#", "a", "\r", "\n">>, <<"a", "/", "/", "a", "\r", "\n", "a", "\n">> }
=============================================================================
