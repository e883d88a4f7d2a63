------------------------------ MODULE AaRegex ------------------------------
(***************************************************************************)
(* From the globs of the policy to expression trees: filter_slashes and    *)
(* convert_aaregex_to_pcre (parser_regex.c) write a regular expression,    *)
(* regex_lex and the grammar of parse.y read it.                           *)
(*                                                                         *)
(* A text is a sequence of characters.  Of the ordinary characters the     *)
(* model keeps "/", "p" and "q"; "0" stands for the digits of an escape    *)
(* sequence for NUL and only follows a backslash, as do "C" and "L" for    *)
(* the byte of a rule class and of labels.  The metacharacters share one   *)
(* code when they are meant literally.                                     *)
(***************************************************************************)
EXTENDS ExprTree

CONSTANT MaxAltDepth           \* MAX_ALT_DEPTH, 50 in the code

NUL == 0
Slash == 1
Meta == 4
Code(c) == CASE c = "0" -> NUL [] c \in {"/", "L"} -> Slash [] c = "p" -> 2 [] c = "q" -> 3 [] OTHER -> Meta

(* filter_slashes: exactly two leading slashes stay, every other run of     *)
(* slashes becomes one.                                                     *)
FilterSlashes(path) ==
  LET two == Len(path) >= 2 /\ path[1] = "/" /\ path[2] = "/" /\ (Len(path) = 2 \/ path[3] # "/")
      again(out, c) == c = "/" /\ out # <<>> /\ Last(out) = "/"
      rest == FoldLeft(LAMBDA out, c : IF again(out, c) THEN out ELSE Append(out, c), <<>>,
                       IF two THEN SubSeq(path, 3, Len(path)) ELSE path)
  IN  IF two THEN <<"/", "/">> \o rest ELSE rest

(***************************************************************************)
(* convert_aaregex_to_pcre.  st: the expression so far, whether the last   *)
(* character was a quoting backslash, the nesting of { }, the commas seen  *)
(* at each depth, whether inside [ ], the type of the pattern, whether the *)
(* next character is already done, and whether there was an error.         *)
(***************************************************************************)
Emit(st, s) == [st EXCEPT !.pcre = @ \o s, !.esc = FALSE]
Err(st) == [st EXCEPT !.error = TRUE]
Regex(st) == [st EXCEPT !.type = "Regex"]
Quoted(c) == <<"\\", c>>

NotSlash(glob) == IF glob = "default" THEN <<"[", "^", "/", "\\", "0", "]">> ELSE <<"[", "^", "/", "]">>
AnyRun(glob) == IF glob = "default" THEN <<"[", "^", "\\", "0", "]", "*">> ELSE <<".", "*">>

Backslash(st) == IF st.esc THEN Emit(st, Quoted("\\")) ELSE [st EXCEPT !.esc = TRUE]

(* Mutant: a star may stand for nothing even as a component of its own. *)
IsComponent_never(aare, i, st) == FALSE
(* A star that is a path component of its own matches one character or more *)
IsComponent(aare, i, st) ==
  /\ st.pcre # <<>> /\ Last(st.pcre) = "/"
  /\ LET rest == {j \in i .. Len(aare) : aare[j] # "*"} IN rest = {} \/ aare[Min(rest)] = "/"

StarChar(aare, i, glob, st) ==
  LET lead == IF IsComponent(aare, i, st) THEN NotSlash(glob) ELSE <<>>
      two == i < Len(aare) /\ aare[i + 1] = "*"
      tail == i + 2 > Len(aare) /\ st.type = "Basic"
  IN  IF st.esc THEN Emit(st, Quoted("*"))
      ELSE IF two THEN [Emit(st, lead \o AnyRun(glob)) EXCEPT !.skip = TRUE,
                                                              !.type = IF tail THEN "TailGlob" ELSE "Regex"]
      ELSE Regex(Emit(st, lead \o NotSlash(glob) \o <<"*">>))

QuestionChar(glob, st) == IF st.esc THEN Emit(st, <<"?">>) ELSE Regex(Emit(st, NotSlash(glob)))

OpenClass(st) == IF st.esc THEN Emit(st, Quoted("["))
                 ELSE Regex([Emit(st, <<"[">>) EXCEPT !.class = TRUE])
CloseClass(st) == IF st.esc THEN Emit(st, Quoted("]"))
                  ELSE LET closed == [Emit(st, <<"]">>) EXCEPT !.class = FALSE]
                       IN  IF st.class THEN closed ELSE Err(closed)

OpenGroup(st) ==
  LET depth == st.depth + 1
  IN  IF st.esc THEN Emit(st, Quoted("{"))
      ELSE IF st.class THEN Emit(st, <<"{">>)
      ELSE IF depth >= MaxAltDepth THEN Err([st EXCEPT !.depth = depth])
      ELSE Regex([Emit(st, <<"(">>) EXCEPT !.depth = depth, !.count[depth] = 0])

CloseGroup(st) ==
  LET closed == [Emit(st, <<")">>) EXCEPT !.depth = Max({@ - 1, 0})]
  IN  IF st.esc THEN Emit(st, Quoted("}"))
      ELSE IF st.class THEN Emit(st, <<"}">>)
      ELSE IF st.count[st.depth] = 0 \/ st.depth = 0 THEN Err(closed)
      ELSE closed

Comma(st) ==
  IF st.esc THEN Emit(st, IF st.class THEN Quoted(",") ELSE <<",">>)
  ELSE IF st.depth > 0 /\ ~st.class THEN [Emit(st, <<"|">>) EXCEPT !.count[st.depth] = @ + 1]
  ELSE Emit(st, <<",">>)

(* Everything else: a quote stays before an escape sequence and is dropped  *)
(* before a character that needs none.                                      *)
OtherChar(c, st) ==
  CASE c \in {"^", "$"} -> Emit(st, IF st.class THEN <<c>> ELSE Quoted(c))
    [] c \in {".", "+", "|", "(", ")"} -> Emit(st, Quoted(c))
    [] c = "0" /\ st.esc -> Emit(st, Quoted(c))
    [] OTHER -> Emit(st, <<c>>)

ConvertChar(aare, i, glob, st) ==
  LET c == aare[i]
  IN  IF st.error THEN st
      ELSE IF st.skip THEN [st EXCEPT !.skip = FALSE]
      ELSE CASE c = "\\" -> Backslash(st)
             [] c = "*" -> StarChar(aare, i, glob, st)
             [] c = "?" -> QuestionChar(glob, st)
             [] c = "[" -> OpenClass(st)
             [] c = "]" -> CloseClass(st)
             [] c = "{" -> OpenGroup(st)
             [] c = "}" -> CloseGroup(st)
             [] c = "," -> Comma(st)
             [] OTHER -> OtherChar(c, st)

(* The whole conversion, appended to buf.  What is appended before an error *)
(* stays in the buffer.                                                     *)
Converted(st) ==
  [pcre |-> st.pcre, type |-> IF st.error \/ st.depth > 0 \/ st.class \/ st.esc THEN "Invalid" ELSE st.type]
Convert(buf, aare, glob) ==
  LET st0 == [pcre |-> buf, esc |-> FALSE, depth |-> 0, count |-> [k \in 0 .. MaxAltDepth - 1 |-> 0],
              class |-> FALSE, type |-> "Basic", skip |-> FALSE, error |-> FALSE]
  IN  Converted(FoldLeft(LAMBDA s, i : ConvertChar(aare, i, glob, s), st0, [i \in DOMAIN aare |-> i]))

(* convert_entry: no text is the default pattern *)
None == <<"none">>
DefaultMatch == <<"[", "^", "\\", "0", "]", "*">>           \* default_match_pattern
AnyoneMatch == <<"[", "^", "\\", "0", "]", "+">>            \* anyone_match_pattern
ConvertEntry(buf, text, default) ==
  IF text = None THEN [pcre |-> buf \o default, type |-> "Regex"] ELSE Convert(buf, text, "default")

(***************************************************************************)
(* regex_lex.  A token is its character (special to the grammar or CHAR)   *)
(* with its code.  An escape that str_escseq does not know is backed up    *)
(* over twice, so the lexer returns the same backslash for ever: stuck.    *)
(***************************************************************************)
Special == {"*", "+", ".", "|", "^", "-", "[", "]", "(", ")"}
Escapable == Special \union {"$", "{", "}", "\\", "0", "C", "L"}
Tok(s, c) == [s |-> s, c |-> Code(c)]

RECURSIVE RegexLex(_)
RegexLex(text) ==
  IF text = <<>> THEN [toks |-> <<>>, stuck |-> FALSE]
  ELSE LET quoted == text[1] = "\\"
           bad == quoted /\ text[2] \notin Escapable
           rest == RegexLex(SubSeq(text, IF quoted THEN 3 ELSE 2, Len(text)))
           tok == IF quoted THEN Tok("CHAR", text[2])
                  ELSE IF text[1] \in Special THEN Tok(text[1], text[1]) ELSE Tok("CHAR", text[1])
       IN  IF bad THEN [toks |-> <<>>, stuck |-> TRUE] ELSE [rest EXCEPT !.toks = <<tok>> \o @]

(***************************************************************************)
(* The grammar.  A parser takes the tokens and a position, and returns what *)
(* it read, the position after it and whether that was possible.           *)
(***************************************************************************)
Got(n, i) == [n |-> n, i |-> i, ok |-> TRUE]
NoParse(i) == [n |-> Eps, i |-> i, ok |-> FALSE]
At(t, i) == IF i \in DOMAIN t THEN t[i].s ELSE "end"
InClass == {"CHAR", "[", "*", "+", ".", "|", "(", ")"}        \* cset_char
InClassN == InClass \union {"^"}                              \* cset_charN
Span(a, b) == IF a > b THEN b .. a ELSE a .. b                \* insert_char_range

RECURSIVE CsetChars(_, _, _)
CsetChars(t, i, S) ==
  IF At(t, i) = "]" THEN Got(S, i + 1)
  ELSE IF At(t, i) \notin InClassN THEN NoParse(i)
  ELSE IF At(t, i + 1) # "-" THEN CsetChars(t, i + 1, S \union {t[i].c})
  ELSE IF At(t, i + 2) \notin InClassN THEN NoParse(i)
  ELSE CsetChars(t, i + 3, S \union Span(t[i].c, t[i + 2].c))

Charset(t, i) ==
  IF At(t, i) \notin InClass \union {"]", "-"} THEN NoParse(i)
  ELSE IF At(t, i + 1) # "-" THEN CsetChars(t, i + 1, {t[i].c})
  ELSE IF At(t, i + 2) \notin InClassN THEN NoParse(i)
  ELSE CsetChars(t, i + 3, Span(t[i].c, t[i + 2].c))

ClassNode(neg, r) ==
  IF ~r.ok THEN r
  ELSE IF neg THEN Got(NotCharSetNode(r.n), r.i)
  ELSE Got(IF Cardinality(r.n) = 1 THEN CharNode(CHOOSE c \in r.n : TRUE) ELSE CharSetNode(r.n), r.i)
ClassTerm(t, i) ==
  IF At(t, i) # "^" THEN ClassNode(FALSE, Charset(t, i))
  ELSE ClassNode(TRUE, IF At(t, i + 1) = "^" THEN CsetChars(t, i + 2, {t[i].c}) ELSE Charset(t, i + 1))

(* qterm: a term with its operator *)
Qterm(t, r) == IF ~r.ok THEN r
               ELSE IF At(t, r.i) = "*" THEN Got(Star(r.n), r.i + 1)
               ELSE IF At(t, r.i) = "+" THEN Got(Plus(r.n), r.i + 1)
               ELSE r

RECURSIVE Expr(_, _), Terms(_, _, _)
Group(t, r, i) == IF r.ok /\ At(t, r.i) = ")" THEN Got(r.n, r.i + 1) ELSE NoParse(i)
Term(t, i) ==
  CASE At(t, i) = "." -> Got(AnyChar, i + 1)
    [] At(t, i) \in {"CHAR", "^", "-", "]"} -> Got(CharNode(t[i].c), i + 1)
    [] At(t, i) = "[" -> ClassTerm(t, i + 1)
    [] At(t, i) = "(" -> Group(t, Expr(t, i + 1), i)
    [] OTHER -> NoParse(i)
(* terms0: the concatenation from i on, read so far as l *)
Terms(t, i, l) ==
  LET more(q) == IF q.ok THEN Terms(t, q.i, Append(l, q.n)) ELSE q
  IN  IF At(t, i) \in {"|", ")", "end"} THEN Got(IF l = <<>> THEN Eps ELSE FoldLeft(Cat, l[1], Tail(l)), i)
      ELSE more(Qterm(t, Term(t, i)))
(* expr, or nothing at all *)
Expr(t, i) ==
  LET RECURSIVE alts(_)
      or(r, s) == IF s.ok THEN alts(Got(Alt(r.n, s.n), s.i)) ELSE s
      alts(r) == IF ~r.ok \/ At(t, r.i) # "|" THEN r ELSE or(r, Terms(t, r.i + 1, <<>>))
  IN  alts(Terms(t, i, <<>>))

(* regex_parse of a whole expression, as add_rule_vec calls it              *)
Whole(t, r) == [n |-> r.n, res |-> IF r.ok /\ At(t, r.i) = "end" THEN "ok" ELSE "error"]
ParseTokens(lex) == IF lex.stuck THEN [n |-> Eps, res |-> "hang"] ELSE Whole(lex.toks, Expr(lex.toks, 1))
RegexParse(text) == ParseTokens(RegexLex(text))

(***************************************************************************)
(* Reference: what a glob matches by "Globbing (AARE)" of apparmor.d.pod.  *)
(* The glob is cut into items, { } is expanded to several globs and each   *)
(* of them is matched against the string.  Once it is expanded, a star (or *)
(* several) between slashes, or between a slash and the end, is a name and *)
(* not nothing: a rule that ends in /* is not about the directory.         *)
(***************************************************************************)
Item(k, S) == [k |-> k, set |-> S, edge |-> FALSE]
Lit(c) == Item("lit", {Code(c)})
Bad == Item("bad", {})

RECURSIVE Members(_)
Members(body) ==
  IF body = <<>> THEN {}
  ELSE IF body[1] = "\\" THEN {Code(body[2])} \union Members(SubSeq(body, 3, Len(body)))
  ELSE IF Len(body) >= 3 /\ body[2] = "-"
  THEN Span(Code(body[1]), Code(body[3])) \union Members(SubSeq(body, 4, Len(body)))
  ELSE {Code(body[1])} \union Members(Tail(body))
ClassItem(body) ==
  LET neg == body # <<>> /\ body[1] = "^"
      in == IF neg THEN Tail(body) ELSE body
      open == Len(in) >= 2 /\ Last(in) = "-" /\ in[Len(in) - 1] # "\\"
  IN  IF in = <<>> \/ open THEN Bad ELSE Item(IF neg THEN "notset" ELSE "set", Members(in))

QuotedAt(g, i) == Cardinality({j \in 1 .. i - 1 : \A k \in j .. i - 1 : g[k] = "\\"}) % 2 = 1
RECURSIVE Items(_)
Items(g) ==
  LET from(i) == SubSeq(g, i, Len(g))
      close == {j \in 2 .. Len(g) : g[j] = "]" /\ ~QuotedAt(g, j)}
      end == Min({j \in DOMAIN g : g[j] # "*"} \union {Len(g) + 1})
  IN  IF g = <<>> THEN <<>>
      ELSE CASE g[1] = "\\" -> IF Len(g) = 1 THEN <<Bad>> ELSE <<Lit(g[2])>> \o Items(from(3))
             [] g[1] = "[" -> IF close = {} THEN <<Bad>>
                              ELSE <<ClassItem(SubSeq(g, 2, Min(close) - 1))>> \o Items(from(Min(close) + 1))
             [] g[1] = "]" -> <<Bad>>
             [] g[1] = "*" -> <<Item(IF end = 2 THEN "star" ELSE "deep", {})>> \o Items(from(end))
             [] g[1] \in {"?", "{", "}", ","} -> <<Item(g[1], {Meta})>> \o Items(from(2))
             [] OTHER -> <<Lit(g[1])>> \o Items(from(2))

DepthAt(it, i) == Cardinality({j \in 1 .. i : it[j].k = "{"}) - Cardinality({j \in 1 .. i : it[j].k = "}"})
CloseOf(it, i) == {j \in i + 1 .. Len(it) : it[j].k = "}" /\ DepthAt(it, j) < DepthAt(it, i)}
SepsOf(it, i) == {j \in i + 1 .. Min(CloseOf(it, i)) : it[j].k = "," /\ DepthAt(it, j) = DepthAt(it, i)}
ValidGlob(it) ==
  \A i \in DOMAIN it :
    /\ it[i].k # "bad"
    /\ DepthAt(it, i) \in 0 .. MaxAltDepth - 1
    /\ it[i].k = "{" => CloseOf(it, i) # {} /\ SepsOf(it, i) # {}

RECURSIVE Expand(_)
Expand(it) ==
  LET opens == {i \in DOMAIN it : it[i].k = "{"}
      o == Min(opens)
      c == Min(CloseOf(it, o))
      cuts == SepsOf(it, o) \union {o, c}
      next(i) == Min({j \in cuts : j > i})
      alt(i) == SubSeq(it, 1, o - 1) \o SubSeq(it, i + 1, next(i) - 1) \o SubSeq(it, c + 1, Len(it))
  IN  IF opens = {} THEN {it} ELSE UNION {Expand(alt(i)) : i \in cuts \ {c}}

(* The names among the stars of an expanded glob: each is the first of a    *)
(* run of stars that is a component of its own.                             *)
IsStar(item) == item.k \in {"star", "deep"}
RunEnd(it, i) == Min({j \in i .. Len(it) : ~IsStar(it[j])} \union {Len(it) + 1})
NamesOf(it) ==
  {i \in 2 .. Len(it) : /\ IsStar(it[i]) /\ it[i - 1] = Lit("/")
                        /\ RunEnd(it, i) > Len(it) \/ it[RunEnd(it, i)] = Lit("/")}

(* it from i on matches w, the stars in names as names *)
RECURSIVE ItemsMatch(_, _, _, _, _)
ItemsMatch(it, i, w, glob, names) ==
  LET h == it[i]
      none == IF glob = "default" THEN {NUL} ELSE {}
      one(ok) == w # <<>> /\ ok /\ ItemsMatch(it, i + 1, Tail(w), glob, names)
      run(not) == \E k \in (IF i \in names THEN 1 ELSE 0) .. Len(w) :
                    /\ \A j \in 1 .. k : w[j] \notin not /\ w[j] # OOB
                    /\ i \in names => w[1] # Slash
                    /\ ItemsMatch(it, i + 1, SubSeq(w, k + 1, Len(w)), glob, names)
  IN  IF i > Len(it) THEN w = <<>>
      ELSE CASE h.k = "star" -> run(none \union {Slash})
             [] h.k = "deep" -> run(none)
             [] h.k = "?" -> one(w[1] \notin none \union {Slash, OOB})
             [] h.k = "notset" -> one(w[1] \notin h.set \union {OOB})
             [] OTHER -> one(w[1] \in h.set)

GlobMatch(g, w, glob) == \E it \in Expand(Items(g)) : ItemsMatch(it, 1, w, glob, NamesOf(it))

(* The exception: a star beside a brace or a comma of { } is never taken    *)
(* for a name, whatever stands there once the braces are expanded, because  *)
(* the conversion looks at the characters around it.                        *)
Edges(it) ==
  LET cut(j) == j \in DOMAIN it /\ (it[j].k \in {"{", "}"} \/ (it[j].k = "," /\ DepthAt(it, j) > 0))
  IN  [i \in DOMAIN it |-> [it[i] EXCEPT !.edge = IsStar(it[i]) /\ (cut(i - 1) \/ cut(i + 1))]]
StarAtGroup(g) == \E i \in DOMAIN Items(g) : Edges(Items(g))[i].edge
LooseMatch(g, w, glob) ==
  \E it \in Expand(Edges(Items(g))) : ItemsMatch(it, 1, w, glob, {i \in NamesOf(it) : ~it[i].edge})

(* Texts with a class in which the conversion does not keep the meaning of  *)
(* a character: * and ? are expanded, and the quote of ^ and - is dropped;  *)
(* a quoted comma leaves an escape that the lexer does not know.            *)
InClassAt(g, i) == \E j \in 1 .. i - 1 : /\ g[j] = "[" /\ ~QuotedAt(g, j)
                                         /\ \A k \in j + 1 .. i - 1 : g[k] # "]" \/ QuotedAt(g, k)
QuotedComma(g) == \E i \in DOMAIN g : InClassAt(g, i) /\ QuotedAt(g, i) /\ g[i] = ","
LosesQuote(g) == \E i \in DOMAIN g :
  InClassAt(g, i) /\ IF QuotedAt(g, i) THEN g[i] \in {"^", "-", ","} ELSE g[i] \in {"*", "?"}
=============================================================================
