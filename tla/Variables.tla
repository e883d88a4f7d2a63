------------------------------ MODULE Variables ------------------------------
(***************************************************************************)
(* Policy with variables, conditionals and aliases, from the preamble to   *)
(* the file rules that reach the pattern compiler (parser_yacc.y,          *)
(* parser_variable.c, parser_policy.c, parser_alias.c), with the symbol    *)
(* table (variable.cc, symtab.cc) and the conditions (cond_expr.cc).       *)
(*                                                                         *)
(* A text is a sequence of pieces and a piece the set of its alternatives, *)
(* each a sequence of tokens: one alternative of one token for plain text, *)
(* several for {a,b}.  A reference @{A} is the token "@A", the name of the *)
(* variable; "@," stands for a name with a comma and "@!" for one that is  *)
(* not valid otherwise.  A symbol table maps the names that are defined to *)
(*   [type, values, expanded, expanding, bool].                            *)
(***************************************************************************)
EXTENDS Integers, Sequences, SequencesExt, FiniteSets, FiniteSetsExt, Functions, TLC

Tok(t) == {<<t>>}
Txt(s) == [i \in DOMAIN s |-> Tok(s[i])] \o <<>>
RefTokens == {"@A", "@B", "@N", "@T", "@E", "@U", "@,", "@!"}
IsRef(piece) == \E t \in RefTokens : piece = Tok(t)
RefName(piece) == CHOOSE t \in RefTokens : piece = Tok(t)
(* The order of std::set<std::string>: by character, digits and / before @. *)
Rank(piece) == IF IsRef(piece) THEN 3 ELSE IF piece = Tok("/") THEN 0 ELSE IF piece = Tok("1") THEN 1
               ELSE IF piece = Tok("2") THEN 2 ELSE IF piece = Tok("a") THEN 4 ELSE IF piece = Tok("b") THEN 5
               ELSE IF piece = Tok("p") THEN 6 ELSE IF piece = Tok("q") THEN 7 ELSE 8
LexLess(s, t) ==
  \E k \in 1 .. Len(t) : /\ Len(s) >= k - 1 /\ SubSeq(s, 1, k - 1) = SubSeq(t, 1, k - 1)
                         /\ Len(s) = k - 1 \/ Rank(s[k]) < Rank(t[k])
Sorted(set) == SetToSortSeq(set, LexLess)

NewSet(values) == [type |-> "set", values |-> values, expanded |-> {}, expanding |-> FALSE, bool |-> FALSE]
NewBool(b) == [type |-> "bool", values |-> {}, expanded |-> {}, expanding |-> FALSE, bool |-> b]
NoVars == [v \in {} |-> NewBool(FALSE)]
AddVar(tab, v, rec) == (v :> rec) @@ tab
DeleteVar(tab, v) == Restrict(tab, DOMAIN tab \ {v})

(* extract_variable: the position of the first reference, 0 if there is none *)
ExtractVariable(txt) == LET at == {i \in DOMAIN txt : IsRef(txt[i])} IN IF at = {} THEN 0 ELSE Min(at)

(* expand_variable: [tab, rc].  What was expanded once is never expanded    *)
(* again, and what was inserted before an error stays.  The values found in *)
(* place of a reference join the end of the work list.                      *)
ExpandingOff(tab, v) == [tab EXCEPT ![v].expanding = FALSE]
RECURSIVE ExpandVariable(_, _), Work(_, _, _), WorkOn(_, _, _, _, _), Replaced(_, _, _, _, _)
ExpandVariable(tab, v) ==
  IF tab[v].type = "bool" THEN [tab |-> tab, rc |-> 2]
  ELSE IF tab[v].expanded # {} THEN [tab |-> tab, rc |-> 0]
  ELSE [Work([tab EXCEPT ![v].expanding = TRUE], v, Sorted(tab[v].values)) EXCEPT !.tab = ExpandingOff(@, v)]
Work(tab, v, work) ==
  IF work = <<>> THEN [tab |-> tab, rc |-> 0] ELSE WorkOn(tab, v, Head(work), ExtractVariable(Head(work)), Tail(work))
WorkOn(tab, v, txt, at, work) ==
  IF at = 0 THEN Work([tab EXCEPT ![v].expanded = @ \union {txt}], v, work)
  ELSE LET u == RefName(txt[at])
       IN  IF u \notin DOMAIN tab \/ tab[u].expanding THEN [tab |-> tab, rc |-> 1]
           ELSE Replaced(ExpandVariable(tab, u), v, txt, at, work)
Replaced(r, v, txt, at, work) ==
  LET found == Sorted(r.tab[RefName(txt[at])].expanded)
  IN  IF r.rc # 0 THEN r
      ELSE Work(r.tab, v, work \o [k \in DOMAIN found |-> SubSeq(txt, 1, at - 1) \o found[k] \o SubSeq(txt, at + 1, Len(txt))])

(* get_set_var: the result of expand_variable is not looked at. *)
GetSetVar(tab, v) ==
  IF v \notin DOMAIN tab \/ tab[v].type # "set" THEN [tab |-> tab, ok |-> FALSE]
  ELSE [tab |-> ExpandVariable(tab, v).tab, ok |-> TRUE]

(* expand_by_alternation: [tab, txt, rc], rc "crash" for the value that is  *)
(* read from an empty set.  Slashes next to the prefix or the suffix are    *)
(* dropped, unless the prefix has nothing but slashes.                      *)
RECURSIVE TrimLeading(_)
TrimLeading(s) == IF s # <<>> /\ Head(s) = Tok("/") THEN TrimLeading(Tail(s)) ELSE s
TrimTrailing(s) == Reverse(TrimLeading(Reverse(s)))
Flat(txt) == {FlattenSeq(c) : c \in {[i \in DOMAIN txt |-> f[i]] \o <<>> :
                                     f \in {g \in [DOMAIN txt -> UNION {txt[i] : i \in DOMAIN txt}] : \A i \in DOMAIN txt : g[i] \in txt[i]}}}
(* Mutant: one value stands for all. *)
Alternation_last(values) == CHOOSE s \in values : TRUE
Alternation(values) ==
  IF Cardinality(values) = 1 THEN CHOOSE s \in values : TRUE ELSE <<UNION {Flat(s) : s \in values}>>
RECURSIVE ExpandByAlternation(_, _), ExpandAt(_, _, _), ExpandOne(_, _, _, _)
ExpandByAlternation(tab, txt) == ExpandAt(tab, txt, ExtractVariable(txt))
ExpandAt(tab, txt, at) ==
  IF at = 0 THEN [tab |-> tab, txt |-> txt, rc |-> "ok"]
  ELSE CASE RefName(txt[at]) = "@," -> [tab |-> tab, txt |-> txt, rc |-> "ok"]
         [] RefName(txt[at]) = "@!" -> [tab |-> tab, txt |-> txt, rc |-> "error"]
         [] OTHER -> ExpandOne(GetSetVar(tab, RefName(txt[at])), txt, SubSeq(txt, 1, at - 1), SubSeq(txt, at + 1, Len(txt)))
Prefixed(rest, prefix) == IF rest.rc # "ok" THEN rest ELSE [rest EXCEPT !.txt = prefix \o @]
ExpandOne(g, txt, prefix, suffix) ==
  LET values == g.tab[RefName(txt[Len(prefix) + 1])].expanded
      leading == prefix # <<>> /\ Last(prefix) = Tok("/") /\ \E i \in DOMAIN prefix : prefix[i] # Tok("/")
      trailing == suffix # <<>> /\ Head(suffix) = Tok("/")
      trim(s) == LET l == IF leading THEN TrimLeading(s) ELSE s IN IF trailing THEN TrimTrailing(l) ELSE l
  IN  IF ~g.ok THEN [tab |-> g.tab, txt |-> txt, rc |-> "error"]
      ELSE IF values = {} THEN [tab |-> g.tab, txt |-> txt, rc |-> "crash"]
      ELSE Prefixed(ExpandByAlternation(g.tab, Alternation({trim(s) : s \in values}) \o suffix), prefix)

(***************************************************************************)
(* Conditions [op, v, l, r]: v the variable of the unary ones; the texts l *)
(* and r are a variable if they are just a reference.  [tab, val, ok]      *)
(***************************************************************************)
Expansion(r, v) == [tab |-> r.tab, set |-> r.tab[v].expanded, ok |-> r.rc = 0]
GetSet(tab, txt) ==
  IF Len(txt) # 1 \/ ~IsRef(txt[1]) THEN [tab |-> tab, set |-> {txt}, ok |-> TRUE]
  ELSE IF RefName(txt[1]) \notin DOMAIN tab THEN [tab |-> tab, set |-> {}, ok |-> FALSE]
  ELSE Expansion(ExpandVariable(tab, RefName(txt[1])), RefName(txt[1]))
IsNumber(set) == set \in {{Txt(<<"1">>)}, {Txt(<<"2">>)}}
SetLess(s, t) ==                          \* std::set's operator<
  LET a == Sorted(s)
      b == Sorted(t)
  IN  \E k \in 1 .. Len(b) : /\ Len(a) >= k - 1 /\ SubSeq(a, 1, k - 1) = SubSeq(b, 1, k - 1)
                             /\ Len(a) = k - 1 \/ LexLess(a[k], b[k])
Compare(op, less, greater) ==
  CASE op = "lt" -> less [] op = "gt" -> greater [] op = "le" -> ~greater [] op = "ge" -> ~less
Compared(op, l, r) ==
  [tab |-> r.tab, ok |-> l.ok /\ r.ok /\ (op \in {"in", "eq", "ne"} \/ IsNumber(l.set) = IsNumber(r.set)),
   val |-> CASE op = "in" -> l.set \subseteq r.set [] op = "eq" -> l.set = r.set [] op = "ne" -> l.set # r.set
             [] OTHER -> Compare(op, SetLess(l.set, r.set), SetLess(r.set, l.set))]
CompareWith(op, l, txt) == Compared(op, l, GetSet(l.tab, txt))
Defined(g) == [tab |-> g.tab, val |-> g.ok, ok |-> TRUE]
Both(op, x, y) == [tab |-> y.tab, ok |-> x.ok /\ y.ok, val |-> IF op = "and" THEN x.val /\ y.val ELSE x.val \/ y.val]
RECURSIVE CondExpr(_, _), AndThen(_, _, _)
CondExpr(tab, c) ==
  CASE c.op = "true" -> [tab |-> tab, val |-> TRUE, ok |-> TRUE]
    [] c.op = "not" -> [CondExpr(tab, c.x) EXCEPT !.val = ~@]
    [] c.op \in {"and", "or"} -> AndThen(c.op, CondExpr(tab, c.x), c.y)
    [] c.op = "bool" -> [tab |-> tab, ok |-> c.v \in DOMAIN tab /\ tab[c.v].type = "bool",
                         val |-> c.v \in DOMAIN tab /\ tab[c.v].bool]
    [] c.op = "defined" -> Defined(GetSetVar(tab, c.v))
    [] OTHER -> CompareWith(c.op, GetSet(tab, c.l), c.r)
AndThen(op, x, c) == Both(op, x, CondExpr(x.tab, c))    \* both sides, whatever the first is

(***************************************************************************)
(* Aliases [from, to]                                                      *)
(***************************************************************************)
DoAlias(a, txt) == a.to \o SubSeq(txt, Len(a.from) + 1, Len(txt))
(* process_entries for one alias: a copy behind each entry whose name or    *)
(* link name starts with its text, and no copies of copies or of rules on   *)
(* profiles (AA_SHARED_PERMS).                                              *)
Hits(a, e) == IsPrefix(a.from, e.txt) \/ (e.link # <<>> /\ IsPrefix(a.from, e.link))
Renamed(a, txt) == IF IsPrefix(a.from, txt) THEN DoAlias(a, txt) ELSE txt
Copied(a, e) == [e EXCEPT !.txt = Renamed(a, @), !.link = Renamed(a, @), !.ignore = TRUE]
(* Mutant: copies are renamed again. *)
ProcessEntries_chain(es, a) ==
  FlattenSeq([i \in DOMAIN es |-> IF ~es[i].shared /\ Hits(a, es[i]) THEN <<es[i], Copied(a, es[i])>> ELSE <<es[i]>>])
ProcessEntries(es, a) ==
  FlattenSeq([i \in DOMAIN es |-> IF ~es[i].shared /\ ~es[i].ignore /\ Hits(a, es[i])
                                  THEN <<es[i], Copied(a, es[i])>> ELSE <<es[i]>>])

(***************************************************************************)
(* The parser's state                                                      *)
(***************************************************************************)
CONSTANT Setups           \* [stmts, n, profiles]: what the preamble may hold, and the profiles after it

VARIABLES setup, tab, aliases, phase, n,
          prof, rule,     \* the profile and the rule that are next
          kept,           \* the rules whose conditions hold, <<profile, rule>>
          name,           \* [name, attach, alts] of the profile
          entries,        \* its file rules
          saved,          \* the variables that saved_var keeps, as a symbol table
          stale,          \* history: variables expanded before what they refer to changed
          base            \* history: the variables as the preamble left them
vars == <<setup, tab, aliases, phase, n, prof, rule, kept, name, entries, saved, stale, base>>

NoText == <<>>
NoProf == [name |-> NoText, attach |-> NoText, alts |-> <<>>]
Init == /\ setup \in Setups /\ tab = NoVars /\ aliases = {} /\ phase = "preamble" /\ n = 0
        /\ prof = 1 /\ rule = 1 /\ kept = {} /\ name = NoProf /\ entries = <<>> /\ saved = NoVars
        /\ stale = {} /\ base = NoVars

(***************************************************************************)
(* What a text should mean: every reference replaced by all values that    *)
(* have been assigned, without what is undefined or refers to itself.      *)
(***************************************************************************)
Cat(a, b) == {s \o t : s \in a, t \in b}
RECURSIVE Meaning(_, _, _), ValueOf(_, _, _)
Meaning(t, txt, seen) ==
  IF txt = <<>> THEN {<<>>}
  ELSE Cat(IF IsRef(Head(txt)) THEN ValueOf(t, RefName(Head(txt)), seen) ELSE Head(txt), Meaning(t, Tail(txt), seen))
ValueOf(t, v, seen) ==
  IF v \in seen \/ v \notin DOMAIN t THEN {} ELSE UNION {Meaning(t, s, seen \union {v}) : s \in t[v].values}
RECURSIVE Reach(_, _, _)
Reach(t, vs, k) ==
  LET refs(v) == IF v \in DOMAIN t THEN {RefName(p) : p \in {q \in UNION {Range(s) : s \in t[v].values} : IsRef(q)}} ELSE {}
      more == vs \union UNION {refs(v) : v \in vs}
  IN  IF k = 0 THEN vs ELSE Reach(t, more, k - 1)
Refs(txt) == {RefName(p) : p \in {q \in Range(txt) : IsRef(q)}}
ReachAll(t, txt) == Reach(t, Refs(txt), 4)
(* The variables that a reference to v leads back to v *)
Cyclic(t, v) == v \in DOMAIN t /\ v \in ReachAll(t, FlattenSeq(Sorted(t[v].values)))
WellDefined(t, txt) == \A v \in ReachAll(t, txt) : v \in DOMAIN t /\ t[v].type = "set" /\ ~Cyclic(t, v)
RECURSIVE Squeeze(_)
Squeeze(s) == IF Len(s) < 2 THEN s
              ELSE IF s[1] = "/" /\ s[2] = "/" THEN Squeeze(Tail(s)) ELSE <<s[1]>> \o Squeeze(Tail(s))
UpToSlashes(lang) == {Squeeze(s) : s \in lang}
(* The variables whose expansion is out of date once w changes in t *)
Outdated(t, w) == {v \in DOMAIN t : t[v].expanded # {} /\ w \in Reach(t, {v}, 4)}

(***************************************************************************)
(* The preamble                                                            *)
(***************************************************************************)
Fail == phase' = "error" /\ UNCHANGED <<tab, aliases, stale>>
Stmt(s) == /\ phase = "preamble" /\ n < setup.n /\ s \in setup.stmts /\ n' = n + 1
           /\ UNCHANGED <<setup, prof, rule, kept, name, entries, saved, base>>
Assign(t, w) == tab' = t /\ stale' = (stale \union Outdated(tab, w)) \ (IF w \in DOMAIN tab /\ t[w].expanded = {} THEN {w} ELSE {})
(* varassign: =, ?=, := and += *)
Declares(op, v, t) == op = ":=" \/ v \notin DOMAIN t
SetAssign(s) ==
  /\ s.kind = "set" /\ Stmt(s)
  /\ \/ /\ s.op # "+=" /\ Declares(s.op, s.v, tab)
        /\ Assign(AddVar(tab, s.v, NewSet(s.values)), s.v) /\ UNCHANGED <<aliases, phase>>
     \/ s.op = "?=" /\ s.v \in DOMAIN tab /\ UNCHANGED <<tab, stale, aliases, phase>>
     \/ s.op = "=" /\ s.v \in DOMAIN tab /\ Fail
     \/ /\ s.op = "+=" /\ s.v \in DOMAIN tab /\ tab[s.v].type = "set"
        /\ Assign([tab EXCEPT ![s.v].values = @ \union s.values], s.v) /\ UNCHANGED <<aliases, phase>>
     \/ s.op = "+=" /\ ~(s.v \in DOMAIN tab /\ tab[s.v].type = "set") /\ Fail
SetBool(s, c) == IF s.op = "+=" \/ ~c.ok \/ (s.op = "=" /\ s.v \in DOMAIN tab) THEN Fail
                 ELSE /\ tab' = IF Declares(s.op, s.v, tab) THEN AddVar(c.tab, s.v, NewBool(c.val)) ELSE c.tab
                      /\ UNCHANGED <<aliases, phase, stale>>
BoolAssign(s) == s.kind = "bool" /\ Stmt(s) /\ SetBool(s, CondExpr(tab, s.cond))
NewAlias(s) == /\ s.kind = "alias" /\ Stmt(s)
               /\ aliases' = aliases \union {[from |-> s.from, to |-> s.to]} /\ UNCHANGED <<tab, phase, stale>>
EndPreamble == /\ phase = "preamble" /\ phase' = "parse" /\ base' = tab
               /\ UNCHANGED <<setup, tab, aliases, n, prof, rule, kept, name, entries, saved, stale>>

(***************************************************************************)
(* Profiles: their conditionals are decided while they are parsed, their   *)
(* rules are expanded once all of them are.                                *)
(***************************************************************************)
NextRule == IF rule < Len(setup.profiles[prof].rules) THEN prof' = prof /\ rule' = rule + 1
            ELSE prof' = prof + 1 /\ rule' = 1
Conditional(c) == /\ tab' = c.tab /\ phase' = IF c.ok THEN "parse" ELSE "error"
                  /\ kept' = IF c.ok /\ c.val THEN kept \union {<<prof, rule>>} ELSE kept
ParseRule == /\ phase = "parse" /\ prof <= Len(setup.profiles)
             /\ Conditional(CondExpr(tab, setup.profiles[prof].rules[rule].cond))
             /\ NextRule /\ UNCHANGED <<setup, aliases, n, name, entries, saved, stale, base>>
EndParse == /\ phase = "parse" /\ prof > Len(setup.profiles) /\ phase' = "name" /\ prof' = 1 /\ rule' = 1
            /\ UNCHANGED <<setup, tab, aliases, n, kept, name, entries, saved, stale, base>>

(* escape_re: alternatives in the name become plain text. *)
EscapeRe(txt) == [i \in DOMAIN txt |-> IF Cardinality(txt[i]) > 1 THEN Tok("{}") ELSE txt[i]] \o <<>>
(* process_profile_variables up to the rules: the name and the attachment   *)
(* are expanded, then the built-in variables replace any of that name.      *)
Attachment(nm, attach) == IF attach # NoText THEN ExpandByAlternation(nm.tab, attach)
                          ELSE [nm EXCEPT !.txt = IF @ # <<>> /\ Head(@) = Tok("/") THEN @ ELSE NoText]
SetBuiltins(nm, att) ==
  LET auto == {"@N"} \union (IF att.txt # NoText THEN {"@T", "@E"} ELSE {})
      value(v) == NewSet({IF v = "@N" THEN EscapeRe(nm.txt) ELSE att.txt})
  IN  IF nm.rc # "ok" \/ att.rc # "ok"
      THEN /\ phase' = IF "crash" \in {nm.rc, att.rc} THEN "crash" ELSE "error"
           /\ UNCHANGED <<tab, saved, name, stale>>
      ELSE /\ saved' = Restrict(att.tab, auto \intersect DOMAIN att.tab)
           /\ tab' = [v \in auto |-> value(v)] @@ att.tab
           /\ stale' = stale \union UNION {Outdated(att.tab, v) : v \in auto}
           /\ name' = [name |-> nm.txt, attach |-> att.txt, alts |-> <<>>]
           /\ phase' = "rules"
ExpandName(nm) == SetBuiltins(nm, Attachment(nm, setup.profiles[prof].attach))
ProcessVariablesInName ==
  /\ phase = "name" /\ prof <= Len(setup.profiles) /\ ExpandName(ExpandByAlternation(tab, setup.profiles[prof].name))
  /\ entries' = <<>> /\ rule' = 1
  /\ UNCHANGED <<setup, aliases, n, prof, kept, base>>
(* block::expand_variables, one rule at a time *)
AddExpanded(e, r, l) ==
  /\ tab' = l.tab /\ phase' = IF l.rc = "ok" THEN "rules" ELSE l.rc
  /\ entries' = IF l.rc # "ok" THEN entries
                ELSE Append(entries, [txt |-> r.txt, link |-> l.txt, shared |-> e.shared, ignore |-> FALSE])
ExpandLink(e, r) == AddExpanded(e, r, IF r.rc = "ok" THEN ExpandByAlternation(r.tab, e.link) ELSE r)
ExpandRule ==
  LET e == setup.profiles[prof].rules[rule]
  IN  /\ phase = "rules" /\ rule <= Len(setup.profiles[prof].rules) /\ rule' = rule + 1
      /\ IF <<prof, rule>> \notin kept THEN UNCHANGED <<tab, entries, phase>> ELSE ExpandLink(e, ExpandByAlternation(tab, e.txt))
      /\ UNCHANGED <<setup, aliases, n, prof, kept, name, saved, stale, base>>
(* Mutant: the built-in names are removed and not restored. *)
RestoreVars_drop(t, s, auto) == Restrict(t, DOMAIN t \ auto)

(* ~saved_var *)
RestoreVars(t, s, auto) == s @@ Restrict(t, DOMAIN t \ auto)
LeaveProfile ==
  LET auto == {"@N"} \union (IF name.attach # NoText THEN {"@T", "@E"} ELSE {})
  IN  /\ phase = "rules" /\ rule > Len(setup.profiles[prof].rules)
      /\ tab' = RestoreVars(tab, saved, auto) /\ saved' = NoVars
      /\ stale' = (stale \union UNION {Outdated(tab, v) : v \in auto}) \ auto
      /\ phase' = "alias" /\ UNCHANGED <<setup, aliases, n, prof, rule, kept, name, entries, base>>
(* replace_profile_aliases: names and rules, the aliases in their order *)
ReplaceAliases ==
  LET order == SetToSortSeq(aliases, LAMBDA a, b : LexLess(a.from, b.from) \/ (a.from = b.from /\ LexLess(a.to, b.to)))
      nm == IF name.attach # NoText THEN name.attach ELSE name.name
      alts == SelectSeq(order, LAMBDA a : IsPrefix(a.from, nm))
  IN  /\ phase = "alias"
      /\ name' = [name EXCEPT !.alts = Reverse([i \in DOMAIN alts |-> DoAlias(alts[i], nm)])]
      /\ entries' = FoldLeft(ProcessEntries, entries, order)
      /\ phase' = "done" /\ UNCHANGED <<setup, tab, aliases, n, prof, rule, kept, saved, stale, base>>
NextProfile == /\ phase = "done" /\ prof < Len(setup.profiles) /\ prof' = prof + 1 /\ phase' = "name"
               /\ UNCHANGED <<setup, tab, aliases, n, rule, kept, name, entries, saved, stale, base>>
Finished == /\ phase \in {"error", "crash"} \/ (phase = "done" /\ prof = Len(setup.profiles))
            /\ UNCHANGED vars

Next == \/ \E s \in setup.stmts : SetAssign(s) \/ BoolAssign(s) \/ NewAlias(s)
        \/ EndPreamble \/ ParseRule \/ EndParse \/ ProcessVariablesInName \/ ExpandRule \/ LeaveProfile
        \/ ReplaceAliases \/ NextProfile \/ Finished
Spec == Init /\ [][Next]_vars

(***************************************************************************)
(* Properties                                                              *)
(***************************************************************************)
KeptBefore(k) == SelectSeq([i \in 1 .. k |-> i], LAMBDA i : <<prof, i>> \in kept)
TextOf(k) == setup.profiles[prof].rules[KeptBefore(rule - 1)[k]].txt
Got(k) == UpToSlashes(Flat(entries[k].txt))
Should(k) == UpToSlashes(Meaning(tab, TextOf(k), {}))

(* A rule is expanded to exactly what the assigned values make of it, and   *)
(* never to more, even if a variable is undefined or recursive; not claimed *)
(* of a variable whose expansion was kept from before something it refers   *)
(* to changed (variable.cc expand_variable, expand_by_alternation).         *)
ExpansionExact ==
  phase = "rules" => \A k \in DOMAIN entries :
    "@," \notin Refs(TextOf(k)) /\ ReachAll(tab, TextOf(k)) \intersect stale = {} =>
      /\ Got(k) \subseteq Should(k)
      /\ WellDefined(tab, TextOf(k)) => Got(k) = Should(k)

(* Reading from a variable without values, which ends the parser, needs a   *)
(* text that refers to something undefined or recursive.                    *)
CrashNeedsBadReference ==
  phase = "crash" => LET p == setup.profiles[prof]
                     IN  \E txt \in {p.name, p.attach} \union {p.rules[i].txt : i \in DOMAIN p.rules} : ~WellDefined(tab, txt)

(* After each profile the built-in names mean again what the preamble made  *)
(* of them (parser_variable.c saved_var).                                   *)
BuiltinsRestored ==
  phase \in {"name", "alias", "done"} => \A v \in {"@N", "@T", "@E"} :
    /\ (v \in DOMAIN tab) = (v \in DOMAIN base)
    /\ v \in DOMAIN tab => tab[v].values = base[v].values

(* No variable is left marked as being expanded, so that none is taken for  *)
(* recursive that is not, whatever failed before.                           *)
NothingLeftExpanding == \A v \in DOMAIN tab : ~tab[v].expanding

(* Expansion gives the values that were assigned, fails only where a        *)
(* reference is at fault, and leaves no trace of a failure.                 *)
ExpansionRight == ExpansionExact /\ CrashNeedsBadReference /\ NothingLeftExpanding

(* Every file rule has exactly one copy for every alias that its path or    *)
(* its link name starts with, and copies have none, also where one alias    *)
(* leads to the start of another (parser_alias.c process_entries).          *)
AliasesOnce ==
  phase = "done" =>
    LET orig == SelectSeq(entries, LAMBDA e : ~e.ignore)
        hits == {<<i, a>> \in (DOMAIN orig) \X aliases : ~orig[i].shared /\ Hits(a, orig[i])}
        copies == SelectSeq(entries, LAMBDA e : e.ignore)
    IN  /\ Len(orig) = Len(KeptBefore(rule - 1)) /\ Len(copies) = Cardinality(hits)
        /\ \A h \in hits : \E i \in DOMAIN copies : copies[i] = Copied(h[2], orig[h[1]])
=============================================================================
