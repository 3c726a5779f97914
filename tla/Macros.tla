------------------------------- MODULE Macros -------------------------------
(***************************************************************************)
(* The token list of src/core/parser.c: macros are declared on it, calls   *)
(* are replaced in it while the parser reads ahead, and included files are *)
(* linked into it.                                                         *)
(*                                                                         *)
(* A token is its text; its number is its address, and 0 is NULL.  The     *)
(* parser is left out but for what it does to the list: it declares macros *)
(* and includes files at the start of a statement, reads every other       *)
(* statement up to its NEWLINE, peeking now and then, and skips the        *)
(* NEWLINEs behind it.                                                     *)
(***************************************************************************)
EXTENDS Integers, Sequences, FiniteSets, SequencesExt

CONSTANTS
  Sources,                   \* the files: the tokens tokenize() hands out
  Included,                  \* the tokens of the files @include names
  MAX_MACRO_EXPANSION_LIMIT,
  MaxPeek                    \* how far the parser peeks

ASSUME MacrosAssumption ==
  /\ MAX_MACRO_EXPANSION_LIMIT \in Nat \ {0}
  /\ MaxPeek \in Nat
  /\ \A s \in Sources \cup Range(Included) : Len(s) > 0 /\ Last(s) = "ENDMARKER"

VARIABLES
  file,       \* the file being read
  source,     \* what the tokenizer has not handed out of it yet
  tokens,     \* every token there is: its text and its macro_trace
  next,       \* its link
  head, tail, last_token, peek,
  macros,     \* the declared macros
  is_inside_macro_decl,
  macro_expansion_count,
  pending_dedents,
  macro_ends,
  asked,      \* what the parser has asked for
  re,         \* _fill_and_expand_macros: none, or where it reads
  at,         \* the parser's place
  decl,       \* the macro being declared, the file being included
  saved,      \* the token in front of the statement
  read,       \* what the parser has read, as text and trace
  result

parser == <<file, at, decl, saved>>
list   == <<source, tokens, next>>
expander == <<macro_expansion_count, pending_dedents, macro_ends>>
state  == <<macros, is_inside_macro_decl, expander>>
vars   == <<list, head, tail, last_token, peek, state, asked, re, parser, read, result>>

Text(n) == tokens[n].text

NotFilling == -1     \* re, outside of _fill_and_expand_macros

----------------------------------------------------------------------------
(* The list                                                                *)

\* The tokens behind token n, in a list linked as links says; NULL has none.
Behind(links, n) ==
  LET chain[i \in Nat] == IF links[i] = 0 THEN << >> ELSE <<links[i]>> \o chain[links[i]]
  IN  IF n = 0 THEN << >> ELSE chain[n]

\* The texts _advance would go over, those tokenize() has still to hand out included.
Ahead(n) ==
  LET linked == Behind(next, n)
  IN  [i \in DOMAIN linked |-> Text(linked[i])] \o source

New(texts, trace) == [i \in DOMAIN texts |-> [text |-> texts[i], trace |-> trace]]

\* k calls of _advance: the tokens that do not exist yet are made and linked.
Pull(n, k) ==
  LET linked == Behind(next, n)
      made   == IF k > Len(linked) THEN k - Len(linked) ELSE 0
      from   == IF linked = << >> THEN n ELSE Last(linked)
      size   == Len(tokens)
      links  == [i \in 1..made |-> IF i < made THEN size + i + 1 ELSE 0]
  IN  [tokens |-> tokens \o New(SubSeq(source, 1, made), << >>),
       next   |-> (IF made > 0 /\ from > 0 THEN [next EXCEPT ![from] = size + 1] ELSE next) \o links,
       source |-> SubSeq(source, made + 1, Len(source)),
       last   |-> IF k <= Len(linked) THEN linked[k] ELSE size + made]

----------------------------------------------------------------------------
(* A call                                                                  *)

IsMacro(text) == ~is_inside_macro_decl /\ text \in DOMAIN macros

\* How deep in parentheses position i of a call is; the call's name is at 1.
Nesting(t, i) ==
  Cardinality({j \in 2..i : t[j] = "("}) - Cardinality({j \in 2..i : t[j] = ")"})

\* The closing parenthesis of the call at the front of t.
CallEnd(t) ==
  CHOOSE i \in 3..Len(t) : Nesting(t, i) = 0 /\ \A j \in 2..(i - 1) : Nesting(t, j) > 0

Variadic(m) == \E i \in DOMAIN m.args : m.args[i].is_variadic

MinArgs(m) == Len(m.args) - (IF Variadic(m) THEN 1 ELSE 0)

\* The arguments of a call; one with nothing in it has an empty one for each that
\* is declared.
CallArgs(m, t) ==
  LET end    == CallEnd(t)
      commas == {i \in 3..end : t[i] = "," /\ Nesting(t, i) = 1}
      cuts   == SetToSortSeq(commas \cup {2, end}, <)
  IN  IF end = 3 THEN [i \in DOMAIN m.args |-> << >>]
      ELSE [i \in 1..(Len(cuts) - 1) |-> SubSeq(t, cuts[i] + 1, cuts[i + 1] - 1)]

ArgsOK(m, n) == n >= MinArgs(m) /\ (Variadic(m) \/ n = MinArgs(m))

\* Which of the call's n arguments the variadic one takes.
Left(m) == (CHOOSE i \in DOMAIN m.args : m.args[i].is_variadic) - 1
VaStart(m) == Left(m) + 1
VaEnd(m, n) == n - (MinArgs(m) - Left(m))

\* The call's argument at the i-th declared one: one further for each declared
\* before, behind the variadic one's last when it takes any.
Walked(m, i, n) ==
  LET at_[j \in 1..i] ==
        IF j = 1 THEN 1
        ELSE IF ~m.args[j - 1].is_variadic THEN at_[j - 1] + 1
        ELSE IF n > MinArgs(m) THEN VaEnd(m, n) + 1
        ELSE at_[j - 1]
  IN  at_[i]

Joined(args) ==
  FlattenSeq([i \in DOMAIN args |-> IF i = 1 THEN args[i] ELSE <<",">> \o args[i]])

\* What stands for the i-th argument in the body.
Bound(m, i, args) ==
  IF m.args[i].is_variadic THEN Joined(SubSeq(args, VaStart(m), VaEnd(m, Len(args))))
  ELSE args[Walked(m, i, Len(args))]

\* The body with the arguments in place.
Copy(m, body, args) ==
  LET Put(text) ==
        IF \E i \in DOMAIN m.args : m.args[i].name = text
        THEN Bound(m, CHOOSE i \in DOMAIN m.args : m.args[i].name = text, args)
        ELSE <<text>>
  IN  FlattenSeq([i \in DOMAIN body |-> Put(body[i])])

\* The tokens of the declaration, where they are on the list.
Body(m) ==
  LET all == <<m.tokens>> \o Behind(next, m.tokens)
  IN  IF m.tok_len = 0 THEN << >> ELSE [i \in 1..m.tok_len |-> Text(all[i])]

----------------------------------------------------------------------------
(* _fill_and_expand_macros, one round of its loop at a time                *)

Init ==
  /\ file \in Sources /\ source = file
  /\ tokens = << >> /\ next = << >>
  /\ head = 0 /\ tail = 0 /\ last_token = 0 /\ peek = 0
  /\ macros = << >>
  /\ is_inside_macro_decl = FALSE /\ macro_expansion_count = 0
  /\ pending_dedents = 0 /\ macro_ends = << >>
  /\ asked = "none" /\ re = NotFilling
  /\ at = "statement" /\ decl = << >> /\ saved = 0
  /\ read = << >> /\ result = "none"

HandWithoutPeek(links, texts, first) ==
  LET where == IF asked = "read" THEN last_token ELSE peek
      token == IF where = 0 THEN first ELSE links[where]
  IN  /\ IF asked = "read"
         THEN last_token' = token /\ read' = Append(read, texts[token]) /\ UNCHANGED peek
         ELSE peek' = token /\ UNCHANGED <<last_token, read>>
      /\ asked' = "none" /\ re' = NotFilling

\* The token asked for is handed over; where is the link behind which it is.
Hand(links, texts, first) ==
  LET where == IF asked = "read" THEN last_token ELSE peek
      token == IF where = 0 THEN first ELSE links[where]
  IN  /\ peek' = token
      /\ last_token' = IF asked = "read" THEN token ELSE last_token
      /\ read' = IF asked = "read" THEN Append(read, texts[token]) ELSE read
      /\ asked' = "none" /\ re' = NotFilling

Position == IF asked = "read" THEN last_token ELSE peek

\* _read_token and _peek_token, when the list goes on.
Walk ==
  /\ asked # "none" /\ re = NotFilling /\ result = "none"
  /\ IF Position = 0 THEN head # 0 ELSE Position # tail
  /\ Hand(next, tokens, head)
  /\ UNCHANGED <<list, head, tail, state, parser, result>>

\* ... and when it does not: re is the token in front of those to read.
Filling ==
  /\ asked # "none" /\ result = "none"
  /\ re = NotFilling => IF Position = 0 THEN head = 0 ELSE Position = tail

InTail == re \in {NotFilling, tail}
Start  == IF re = NotFilling THEN tail ELSE re

Fail(why) ==
  /\ result' = why
  /\ UNCHANGED <<list, head, tail, last_token, peek, state, asked, re, parser, read>>

\* k dedents copied from the NEWLINE n are linked behind it.
Dedents(p, n, k) ==
  LET size == Len(p.tokens)
  IN  [p EXCEPT
         !.tokens = @ \o [i \in 1..k |-> [text |-> "DEDENT", trace |-> p.tokens[n].trace]],
         !.next = [@ EXCEPT ![n] = IF k = 0 THEN @ ELSE size + 1]
                    \o [i \in 1..k |-> IF i = k THEN p.next[n] ELSE size + i + 1]]

OneDedent(p, n) == Dedents(p, n, IF pending_dedents = 0 THEN 0 ELSE 1)

WithDedents(p, n) == Dedents(p, n, pending_dedents)

EndsFull == Len(macro_ends) = MAX_MACRO_EXPANSION_LIMIT

\* Token n, no NEWLINE, is the end of the expansion entered last.
IsEnd(p, n) == p.tokens[n].text # "NEWLINE" /\ macro_ends # << >> /\ n = Last(macro_ends)

\* A pop writes NULL in the place above the entry, which a full macro_ends does not have.
FillToken ==
  /\ Filling
  /\ ~IsMacro(Ahead(Start)[1])
  /\ LET p == Pull(Start, 1)
         n == p.last
         q == IF p.tokens[n].text = "NEWLINE" THEN WithDedents(p, n) ELSE p
         first == IF head = 0 THEN n ELSE head
         last  == IF InTail THEN n ELSE tail
     IN  \/ IsEnd(p, n) /\ EndsFull /\ Fail("OVERRUN")
         \/ /\ IsEnd(p, n) => ~EndsFull
            /\ tokens' = q.tokens /\ next' = q.next /\ source' = q.source
            /\ head' = first /\ tail' = last
            /\ \/ /\ p.tokens[n].text = "NEWLINE"
                  /\ pending_dedents' = 0
                  /\ UNCHANGED macro_ends
               \/ /\ IsEnd(p, n)
                  /\ macro_ends' = Front(macro_ends)
                  /\ pending_dedents' =
                       pending_dedents + macros[p.tokens[n].trace[1]].dedents_needed
               \/ /\ p.tokens[n].text # "NEWLINE" /\ ~IsEnd(p, n)
                  /\ UNCHANGED <<macro_ends, pending_dedents>>
            /\ IF n = last THEN Hand(q.next, q.tokens, first)
               ELSE re' = n /\ UNCHANGED <<last_token, peek, read, asked>>
            /\ UNCHANGED <<macros, is_inside_macro_decl, macro_expansion_count, parser, result>>

IsCall(t) == IsMacro(t[1]) /\ t[2] = "("

\* A macro's name without a call: _read has read one token too many, which makes
\* the name look like an expansion. It has no trace, unless it came from a macro.
FillNameWithoutCall ==
  /\ Filling
  /\ IsMacro(Ahead(Start)[1]) /\ ~IsCall(Ahead(Start))
  /\ LET p == Pull(Start, 2)
         n == p.next[Start]
     IN  \/ p.tokens[n].trace = << >> /\ Fail("CRASH")
         \/ p.tokens[n].trace # << >> /\ EndsFull /\ Fail("OVERRUN")
         \/ /\ p.tokens[n].trace # << >> /\ ~EndsFull
            /\ tokens' = p.tokens /\ source' = p.source
            /\ next' = IF p.next[p.last] = 0 THEN p.next
                       ELSE [p.next EXCEPT ![n] = p.next[p.last]]
            /\ tail' = IF p.next[p.last] = 0 THEN n ELSE IF InTail THEN p.last ELSE tail
            /\ macro_ends' = Append(macro_ends, n)
            /\ re' = Start
            /\ UNCHANGED <<head, last_token, peek, asked, parser, read, result, macros,
                 is_inside_macro_decl, macro_expansion_count, pending_dedents>>

CallWithoutLimit == IsCall(Ahead(Start))

\* A call within the limit.
Call == IsCall(Ahead(Start)) /\ macro_expansion_count < MAX_MACRO_EXPANSION_LIMIT

FailCall ==
  /\ Filling
  /\ IsCall(Ahead(Start))
  /\ LET t == Ahead(Start)  m == macros[t[1]]
     IN  \/ ~Call /\ Fail("MacroLimit")
         \/ Call /\ ~ArgsOK(m, Len(CallArgs(m, t))) /\ Fail("Args")

\* A call was expanded, and rest is what the tokenizer has left.
Expanded(rest) ==
  /\ source' = rest
  /\ macro_expansion_count' = macro_expansion_count + 1
  /\ UNCHANGED <<head, last_token, peek, asked, parser, read, result, macros,
       is_inside_macro_decl, pending_dedents>>

\* The expansion is linked in the place of the call, and read next.
Expand ==
  /\ Filling
  /\ Call
  /\ LET t    == Ahead(Start)
         m    == macros[t[1]]
         copy == Copy(m, Body(m), CallArgs(m, t))
         p    == Pull(Start, CallEnd(t))
         rest == p.next[p.last]
         size == Len(p.tokens)
         name == p.next[Start]
         trace == <<t[1]>> \o p.tokens[name].trace
     IN  /\ ArgsOK(m, Len(CallArgs(m, t)))
         /\ \/ copy # << >> /\ EndsFull /\ Fail("OVERRUN")
            \/ /\ copy # << >> /\ ~EndsFull
               /\ tokens' = p.tokens \o New(copy, trace)
               /\ next' = [p.next EXCEPT ![Start] = size + 1]
                            \o [i \in DOMAIN copy |-> IF i < Len(copy) THEN size + i + 1 ELSE rest]
               /\ tail' = IF rest = 0 THEN size + Len(copy)
                          ELSE IF InTail THEN p.last ELSE tail
               /\ macro_ends' = Append(macro_ends, size + Len(copy))
               /\ re' = Start
               /\ Expanded(p.source)
            \/ /\ copy = << >>
               /\ tokens' = p.tokens
               /\ next' = [p.next EXCEPT ![Start] = rest]
               /\ tail' = IF rest = 0 THEN Start ELSE IF InTail THEN p.last ELSE tail
               /\ re' = IF rest = 0 THEN Start ELSE p.last
               /\ UNCHANGED macro_ends
               /\ Expanded(p.source)

----------------------------------------------------------------------------
(* What the parser does to the list                                        *)

Parsing == asked = "none" /\ result = "none"

\* The parser goes on at place, with a token it asks for.
Ask(what, place) == asked' = what /\ at' = place

Unread == UNCHANGED <<list, head, tail, re, read, file>>

\* _parse_statement, up to its first token that is no NEWLINE
Statement ==
  /\ Parsing /\ at = "statement"
  /\ peek' = last_token /\ saved' = last_token
  /\ Ask("read", "first")
  /\ Unread /\ UNCHANGED <<last_token, state, decl, result>>

FirstToken ==
  /\ Parsing /\ at = "first"
  /\ LET text == Text(last_token)
     IN  /\ saved' = IF text = "NEWLINE" THEN last_token ELSE saved
         /\ CASE text = "NEWLINE"   -> Ask("read", "first")
              [] text = "@macro"    -> Ask("read", "name")
              [] text = "@include"  -> Ask("read", "path")
              [] text = "ENDMARKER" -> Ask("none", "end")
              [] text = "INDENT"    -> Ask("none", "statement")
              [] text = "DEDENT"    -> Ask("none", "after")
              [] OTHER              -> Ask("none", "rest")
  /\ Unread /\ UNCHANGED <<last_token, peek, state, decl, result>>

\* A statement that is no business of the list: read to its end, peeking on the way.
RestOfStatement ==
  /\ Parsing /\ at = "rest"
  /\ \/ Text(last_token) = "NEWLINE" /\ Ask("none", "after")
     \/ Text(last_token) # "NEWLINE" /\ Ask("read", "rest")
     \/ /\ Text(peek) # "NEWLINE"
        /\ \E i \in 1..MaxPeek :
             LET from == <<last_token>> \o Behind(next, last_token)
             IN  i <= Len(from) /\ from[i] = peek
        /\ Ask("peek", "rest")
  /\ Unread /\ UNCHANGED <<last_token, peek, state, decl, saved, result>>

\* @macro: its name, its arguments up to the NEWLINE, and whether it has a body.
\* It is declared from its name on, and cannot be called before its end.
\* A name declared before is a call here, unless its token is an included file's.
DeclareName ==
  /\ Parsing /\ at = "name"
  /\ \/ Text(last_token) \in DOMAIN macros /\ Fail("Declared")
     \/ /\ Text(last_token) \notin DOMAIN macros
        /\ macros' = (Text(last_token) :> [args |-> << >>, tokens |-> 0, tok_len |-> 0,
                                          dedents_needed |-> 0]) @@ macros
        /\ decl' = [name |-> Text(last_token), is_variadic |-> FALSE, level |-> 1, last_dedents |-> 0]
        /\ Ask("read", "arguments")
        /\ Unread /\ UNCHANGED <<last_token, peek, expander, is_inside_macro_decl, saved, result>>

DeclareArguments ==
  /\ Parsing /\ at = "arguments"
  /\ LET text == Text(last_token)
         arg  == [name |-> text, is_variadic |-> decl.is_variadic]
     IN  /\ macros' = IF text \in {"(", ",", ")", "*", "NEWLINE"} THEN macros
                      ELSE [macros EXCEPT ![decl.name].args = Append(@, arg)]
         /\ decl' = [decl EXCEPT !.is_variadic = (text = "*")]
         /\ is_inside_macro_decl' = (text = "NEWLINE")
         /\ IF text = "NEWLINE" THEN Ask("peek", "indent") ELSE Ask("read", "arguments")
  /\ Unread /\ UNCHANGED <<last_token, peek, expander, saved, result>>

\* Without a body the token behind the declaration stays peeked at.
DeclareIndent ==
  /\ Parsing /\ at = "indent"
  /\ IF Text(peek) = "INDENT"
     THEN Ask("read", "first token") /\ UNCHANGED is_inside_macro_decl
     ELSE Ask("none", "after") /\ is_inside_macro_decl' = FALSE
  /\ Unread /\ UNCHANGED <<last_token, peek, macros, expander, decl, saved, result>>

DeclareFirst ==
  /\ Parsing /\ at = "first token"
  /\ IF peek = last_token
     THEN Ask("peek", "first token") /\ UNCHANGED macros
     ELSE Ask("read", "body") /\ macros' = [macros EXCEPT ![decl.name].tokens = peek]
  /\ Unread
  /\ UNCHANGED <<last_token, peek, is_inside_macro_decl, expander, decl, saved, result>>

\* The body is as long as its tokens, without the DEDENTs at its end and the NEWLINE
\* in front of them; all but one of them are owed to every call.
DeclareBody ==
  /\ Parsing /\ at = "body"
  /\ LET text == Text(last_token)
         d == [decl EXCEPT
                 !.level = CASE text = "INDENT" -> @ + 1 [] text = "DEDENT" -> @ - 1 [] OTHER -> @,
                 !.last_dedents = IF text = "DEDENT" THEN @ + 1 ELSE 0]
     IN  /\ decl' = d
         /\ \/ /\ d.level > 0
               /\ macros' = [macros EXCEPT ![d.name].tok_len = @ + 1]
               /\ Ask("read", "body")
               /\ UNCHANGED is_inside_macro_decl
            \/ /\ d.level = 0
               /\ macros' = [macros EXCEPT ![d.name].tok_len = @ - d.last_dedents,
                                           ![d.name].dedents_needed = d.last_dedents - 1]
               /\ is_inside_macro_decl' = FALSE
               /\ Ask("none", "after")
  /\ Unread /\ UNCHANGED <<last_token, peek, expander, saved, result>>

\* @include: the file's tokens, which no call is looked for in, come in front of the
\* NEWLINE of the statement, and behind what came before the statement.
Include ==
  /\ Parsing /\ at = "path"
  /\ \/ /\ Text(last_token) # "NEWLINE"
        /\ decl' = Included[Text(last_token)]
        /\ Ask("read", "path")
        /\ Unread /\ UNCHANGED <<last_token, peek, state, saved, result>>
     \/ /\ Text(last_token) = "NEWLINE" /\ Len(decl) = 1
        /\ Fail("CRASH")
     \/ /\ Text(last_token) = "NEWLINE" /\ Len(decl) > 1
        /\ LET new  == Front(decl)
               size == Len(tokens)
               links == next \o [i \in DOMAIN new |-> IF i < Len(new) THEN size + i + 1
                                                      ELSE last_token]
           IN  /\ tokens' = tokens \o New(new, << >>)
               /\ next' = IF saved = 0 THEN links ELSE [links EXCEPT ![saved] = size + 1]
               /\ head' = IF saved = 0 THEN size + 1 ELSE head
        /\ last_token' = saved /\ peek' = saved
        /\ Ask("none", "after")
        /\ UNCHANGED <<source, tail, re, read, file, state, decl, saved, result>>

\* _parse_block skips the NEWLINEs behind a statement.
SkipNewLines ==
  /\ Parsing
  /\ \/ at = "after" /\ Ask("peek", "new line") /\ UNCHANGED peek
     \/ /\ at = "new line" /\ Text(peek) = "NEWLINE"
        /\ Ask("read", "after") /\ UNCHANGED peek
     \/ /\ at = "new line" /\ Text(peek) # "NEWLINE"
        /\ peek' = last_token /\ Ask("none", "statement")
  /\ Unread /\ UNCHANGED <<last_token, state, decl, saved, result>>

\* There is nothing to do behind the end of the file, or behind an error.
Stopped == (at = "end" \/ result # "none") /\ UNCHANGED vars

Next ==
  \/ Walk \/ FillToken \/ FillNameWithoutCall \/ FailCall \/ Expand
  \/ Statement \/ FirstToken \/ RestOfStatement
  \/ DeclareName \/ DeclareArguments \/ DeclareIndent \/ DeclareFirst \/ DeclareBody
  \/ Include \/ SkipNewLines \/ Stopped

Spec == Init /\ [][Next]_vars

----------------------------------------------------------------------------
(* Properties                                                              *)

\* The type invariant of the list and of the expander.  macro_ends keeps its bound
\* since a step that goes beyond it is the last one: ReadIsMeaning says when that is.
TypeOK ==
  /\ tokens \in Seq([text : STRING, trace : Seq(STRING)])
  /\ Len(next) = Len(tokens) /\ \A n \in DOMAIN next : next[n] \in 0..Len(tokens)
  /\ {head, tail, last_token, peek, saved} \subseteq 0..Len(tokens)
  /\ is_inside_macro_decl \in BOOLEAN
  /\ macro_expansion_count \in 0..MAX_MACRO_EXPANSION_LIMIT
  /\ pending_dedents \in Nat
  /\ Len(macro_ends) <= MAX_MACRO_EXPANSION_LIMIT /\ ToSet(macro_ends) \subseteq 1..Len(tokens)
  /\ asked \in {"none", "read", "peek"} /\ re \in {NotFilling} \cup 1..Len(tokens)
  /\ result \in {"none", "MacroLimit", "Args", "Declared", "CRASH", "OVERRUN"}

\* Between calls of _fill_and_expand_macros the parser's places are on the list,
\* in order, and the list ends at tail or in DEDENTs not read yet.
PlacesInOrder ==
  LET l == IF head = 0 THEN << >> ELSE <<head>> \o Behind(next, head)
      place(n) == IF n = 0 THEN 0 ELSE CHOOSE i \in DOMAIN l : l[i] = n
  IN  re = NotFilling =>
        /\ {last_token, peek, tail} \subseteq ToSet(l) \cup {0}
        /\ place(last_token) <= place(peek) /\ place(peek) <= place(tail)
        /\ \A i \in (place(tail) + 1)..Len(l) : Text(l[i]) = "DEDENT"

----------------------------------------------------------------------------
(* What the comments of the code say, and the code does not do             *)

\* _read has three outcomes, "... : never" another one: an expansion, nothing, or
\* one token at the place read.
NeverAnother == result # "CRASH"

\* The DEDENTs removed from a body are emitted when it ends: blocks are closed
\* when the file ends.
BlocksClosed ==
  at = "end" =>
    Cardinality({i \in DOMAIN read : read[i].text = "INDENT"})
      = Cardinality({i \in DOMAIN read : read[i].text = "DEDENT"})
=============================================================================
