---------------------------- MODULE MacroMeaning ----------------------------
(***************************************************************************)
(* What macros mean: a call stands for the body of its declaration, and    *)
(* what it stands for is read again, together with what follows.  Items    *)
(* are tokens with the calls they came from; an END stands where a body    *)
(* ends.  Against this the token list of Macros is checked.                *)
(***************************************************************************)
EXTENDS Macros

VARIABLE meaning      \* what the file means

Items(texts, trace) == [i \in DOMAIN texts |-> [text |-> texts[i], trace |-> trace]]

Texts(items) == [i \in DOMAIN items |-> items[i].text]

\* The length of the declaration at the front of t, and of its header.
HeaderLength(t) == CHOOSE i \in DOMAIN t : t[i] = "NEWLINE" /\ \A j \in 1..(i - 1) : t[j] # "NEWLINE"

Indents(t, i, j) ==
  Cardinality({k \in i..j : t[k] = "INDENT"}) - Cardinality({k \in i..j : t[k] = "DEDENT"})

DeclarationLength(t) ==
  LET h == HeaderLength(t)
  IN  IF t[h + 1] # "INDENT" THEN h
      ELSE CHOOSE i \in (h + 2)..Len(t) :
             Indents(t, h + 1, i) = 0 /\ \A j \in (h + 1)..(i - 1) : Indents(t, h + 1, j) > 0

\* A declared macro: its arguments, its body, and the DEDENTs owed behind it.
Meant(t) ==
  LET h     == HeaderLength(t)
      named == {i \in 4..h : t[i] \notin {",", "*", ")", "NEWLINE"}}
      order == SetToSortSeq(named, <)
      lines == SubSeq(t, h + 2, DeclarationLength(t))
      kept  == CHOOSE i \in 0..Len(lines) :
                 /\ i > 0 => lines[i] # "DEDENT"
                 /\ \A j \in (i + 1)..Len(lines) : lines[j] = "DEDENT"
  IN  [args |-> [i \in DOMAIN order |-> [name |-> t[order[i]], is_variadic |-> t[order[i] - 1] = "*"]],
       body |-> SubSeq(lines, 1, kept - 1),
       owed |-> IF lines = << >> THEN 0 ELSE Len(lines) - kept - 1]

\* The arguments by name: those in front of the variadic one count from the front,
\* those behind it from the back, and it is all between them.
Given(m, name, args) ==
  LET i == CHOOSE i \in DOMAIN m.args : m.args[i].name = name
      behind == Len(m.args) - i
  IN  IF ~\E j \in 1..i : m.args[j].is_variadic THEN args[i]
      ELSE IF m.args[i].is_variadic THEN Joined(SubSeq(args, i, Len(args) - behind))
      ELSE args[Len(args) - behind]

Filled(m, args) ==
  FlattenSeq([i \in DOMAIN m.body |->
    IF \E j \in DOMAIN m.args : m.args[j].name = m.body[i] THEN Given(m, m.body[i], args)
    ELSE <<m.body[i]>>])

RECURSIVE Substituted(_)
Substituted(s) ==
  LET t    == Texts(s.in)
      i    == s.in[1]
      name == i.text
      rest(k) == SubSeq(s.in, k + 1, Len(s.in))
      copied(k) == [s EXCEPT !.in = rest(k), !.out = @ \o SubSeq(s.in, 1, k)]
      m    == s.known[name]
      args == CallArgs(m, t)
  IN  CASE s.in = << >> \/ s.result # "none" -> s
        [] name = "END" ->
             Substituted([s EXCEPT !.in = rest(1), !.owed = @ + s.known[i.trace[1]].owed])
        [] name = "NEWLINE" ->
             Substituted([copied(1) EXCEPT !.owed = 0,
               !.out = @ \o Items([j \in 1..s.owed |-> "DEDENT"], i.trace)])
        [] name = "@macro" /\ t[2] \in DOMAIN s.known ->
             [copied(2) EXCEPT !.result = "Declared"]
        [] name = "@macro" /\ t[2] \notin DOMAIN s.known ->
             Substituted([copied(DeclarationLength(t)) EXCEPT
               !.known = [n \in DOMAIN s.known \cup {t[2]} |->
                            IF n = t[2] THEN Meant(t) ELSE s.known[n]]])
        [] name = "@include" ->
             Substituted([copied(3) EXCEPT
               !.in = Items(Append(Front(Included[t[2]]), "NEWLINE"), << >>) \o rest(3)])
        [] name \in DOMAIN s.known /\ Len(t) > 1 /\ t[2] = "(" ->
             IF s.count = MAX_MACRO_EXPANSION_LIMIT THEN [s EXCEPT !.result = "MacroLimit"]
             ELSE IF ~ArgsOK(m, Len(args)) THEN [s EXCEPT !.result = "Args"]
             ELSE Substituted([s EXCEPT !.count = @ + 1,
                    !.in = Items(Append(Filled(m, args), "END"), <<name>> \o i.trace)
                             \o rest(CallEnd(t))])
        [] OTHER -> Substituted([copied(1) EXCEPT !.uncalled = @ \/ name \in DOMAIN s.known])

Meaning(f) ==
  Substituted([in |-> Items(f, << >>), known |-> << >>, owed |-> 0, count |-> 0,
               uncalled |-> FALSE, out |-> << >>, result |-> "none"])

MInit == Init /\ meaning = Meaning(file)

MNext == Next /\ UNCHANGED meaning

MSpec == MInit /\ [][MNext]_<<vars, meaning>>

----------------------------------------------------------------------------

\* Whatever the parser reads, and when, it reads what the macros mean, every token
\* with the calls it came from, and stops where they mean nothing, unless it crashes
\* or writes behind macro_ends.  That it does only when the file has every expansion
\* that is allowed, or a macro's name that is not called.
ReadIsMeaning ==
  /\ IsPrefix(read, meaning.out)
  /\ at = "end" => read = meaning.out /\ meaning.result = "none"
  /\ result \notin {"none", "CRASH", "OVERRUN"} => meaning.result = result
  /\ result = "OVERRUN" => meaning.count = MAX_MACRO_EXPANSION_LIMIT \/ meaning.uncalled
=============================================================================
