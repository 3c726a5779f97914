------------------------------ MODULE MCMacros ------------------------------
(***************************************************************************)
(* Files of two declarations and two statements, from lists of bodies and  *)
(* calls chosen so that arguments, nested calls, blocks and limits meet.   *)
(***************************************************************************)
EXTENDS MacroMeaning

NL == <<"NEWLINE">>

Declare(name, args, body) == <<"@macro", name, "(">> \o args \o <<")">> \o NL \o body

Block(lines) == <<"INDENT">> \o lines \o <<"DEDENT">>

If(lines) == <<"@if", "x">> \o NL \o Block(lines)

\* m uses its arguments, ends in a block, or takes any number of them.
FirstMacros == {
  Declare("m", <<"a">>, Block(<<"x", "a">> \o NL)),
  Declare("m", <<"a">>, Block(<<"a">> \o NL \o If(<<"a", "x">> \o NL))),
  Declare("m", <<"a", ",", "b">>, Block(<<"b", ",", "a">> \o NL)),
  Declare("m", <<"a", ",", "*", "r", ",", "b">>, Block(<<"b", "r", "a">> \o NL)),
  Declare("m", <<"*", "r">>, Block(<<"x", "r">> \o NL)),
  Declare("m", << >>, << >>) }

\* n calls m, in the middle of a line, at its end in front of a block, or itself.
SecondMacros == {
  Declare("n", <<"a">>, Block(<<"x", "m", "(", "a", ")", "x">> \o NL)),
  Declare("n", <<"a">>, Block(<<"m", "(", "x", ")">> \o NL \o If(<<"a", "y">> \o NL))),
  Declare("n", <<"a">>, Block(If(<<"m", "(", "a", ",", "x", ")">> \o NL \o <<"y">> \o NL))),
  Declare("n", <<"a">>, Block(<<"m", "(", "n", "(", "a", ")", ")", "x">> \o NL)) }

Statements == {
  <<"m", "(", ")">> \o NL,
  <<"m", "(", "x", ")">> \o NL,
  <<"x", "m", "(", "y", ",", "(", "x", ",", "y", ")", ")", "y">> \o NL,
  <<"m", "(", "x", ",", "n", "(", "y", ")", ",", "z", ")">> \o NL,
  <<"n", "(", "x", ")">> \o NL,
  If(<<"n", "(", "m", "(", "x", ")", ")">> \o NL),
  <<"m", "y">> \o NL,
  <<"@include", "f">> \o NL }

Files == { d \o e \o s \o t \o <<"ENDMARKER">> : d \in FirstMacros, e \in SecondMacros,
                                                s, t \in Statements \ {<<"m", "y">> \o NL} }
\* A name that is no call: in a statement, and in what a call stands for.
UncalledFiles == {
  Declare("m", <<"a">>, Block(<<"x", "a">> \o NL)) \o s \o <<"ENDMARKER">> :
    s \in {<<"y", "m">> \o NL, <<"m", "(", "m", ")">> \o NL} }


\* As many calls as are allowed, each the last token of what the one before it
\* stands for: no end is read before the last call's, which is read at a full stack.
\* And names without a call that push an end before there is a call behind them.
FullFiles == {
  Declare("m", <<"a">>, Block(<<"a">> \o NL)) \o s \o NL \o <<"ENDMARKER">> :
    s \in {<<"m", "(", "m", "(", "m", "(", "m", "(", "x", ")", ")", ")", ")">>,
          <<"m", "(", "m", "y", "(", "m", "y", "(", "x", ")", ")", ")">>} }

IncludingFiles ==
  {<<"@include", "empty">> \o NL \o <<"ENDMARKER">>} \cup
  {<<"@include", "f">> \o NL \o s \o <<"ENDMARKER">> : s \in Statements}

MCFiles == Files \cup UncalledFiles \cup FullFiles \cup IncludingFiles

MCIncluded == [
  f |-> Declare("p", << >>, Block(<<"y">> \o NL)) \o <<"z">> \o NL \o <<"ENDMARKER">>,
  empty |-> <<"ENDMARKER">> ]

\* A macro whose body ends in a block, and in the block with a call.
DedentFiles == {
  Declare("m", << >>, Block(<<"y">> \o NL))
    \o Declare("n", << >>, Block(If(<<"m", "(", ")">> \o NL)))
    \o <<"n", "(", ")">> \o NL \o <<"ENDMARKER">> }
=============================================================================
