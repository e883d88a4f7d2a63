-------------------------- MODULE PatternCompiler --------------------------
(***************************************************************************)
(* aare_rules: from a list of rules to the compressed tables, step by      *)
(* step as create_chfa goes through them.  A rule is                       *)
(*   [exprs, oob, pri, mode, perms, audit, tail]                           *)
(* with the parts of its pattern, the separator between them, and whether  *)
(* it belongs to the tail that is appended to every other rule.            *)
(***************************************************************************)
EXTENDS Chfa

CONSTANTS Inputs,        \* the rule lists tried, with the compiler options and the kind of rules
          MaxWord        \* length of the strings a match is checked on

VARIABLES pc, rules, opts, addr, file, added, exprs, plain, minlen, tree, d, follow, eq, enc, todo, chfa,
          table
vars == <<pc, rules, opts, addr, file, added, exprs, plain, minlen, tree, d, follow, eq, enc, todo, chfa, table>>

(* UniquePermsCache::insert: the kind of accept node of a rule.             *)
FlagOf(r, exact) ==
  [pri |-> r.pri, perms |-> r.perms, audit |-> r.audit,
   mode |-> IF r.mode = "allow" /\ exact THEN "exact" ELSE r.mode]

CatWithSeparator(parts, oob) ==
  FoldLeft(LAMBDA l, e : Cat(Cat(l, CharNode(IF oob THEN OOB ELSE 0)), e), parts[1], Tail(parts))

RuleTree(r) == CatWithSeparator(r.exprs, r.oob)
RuleFlag(r) == FlagOf(r, ExactMatch(RuleTree(r)))
Flags(rs) == {RuleFlag(rs[i]) : i \in DOMAIN rs}

Init ==
  /\ \E in \in Inputs : rules = in.rules /\ opts = in.opts /\ file = in.file
  /\ addr \in SetToSeqs(Flags(rules))
  /\ pc = "add" /\ added = 0
  /\ exprs = [tail |-> NoTrans, main |-> NoTrans] /\ plain = exprs
  /\ minlen = -1 /\ tree = Eps /\ d = Dfa0 /\ follow = {} /\ eq = NoTrans
  /\ enc = [expected |-> 0, saved |-> 0, count |-> 0] /\ todo = <<>>
  /\ chfa = [num |-> <<>>] /\ table = <<>>

(* add_rule_vec and add_to_rules: one alternative more for the accept node  *)
AddTo(map, f, t) == Put(map, f, IF f \in DOMAIN map THEN Alt(map[f], t) ELSE t)
AddRule ==
  /\ pc = "add" /\ added < Len(rules)
  /\ LET r == rules[added + 1]
         t == RuleTree(r)
     IN  exprs' = IF r.tail THEN [exprs EXCEPT !.tail = AddTo(@, RuleFlag(r), t)]
                  ELSE [exprs EXCEPT !.main = AddTo(@, RuleFlag(r), t)]
  /\ added' = added + 1
  /\ plain' = exprs'
  /\ UNCHANGED <<pc, rules, opts, addr, file, minlen, tree, d, follow, eq, enc, todo, chfa, table>>

Simplified(map) == [f \in DOMAIN map |-> IF opts.simple THEN SimplifyTree(map[f], opts) ELSE map[f]] @@ NoTrans

(* build_tree: every accept node's tree, followed by it or by (it | tail),  *)
(* the accept nodes by address.                                             *)
JoinTrees(map, tail) ==
  LET fs == ByAddress(DOMAIN map, addr)
      n(f) == Cat(map[f], IF tail = <<>> THEN MatchFlag(f) ELSE Alt(MatchFlag(f), tail[1]))
  IN  FoldLeft(LAMBDA t, f : Alt(t, n(f)), n(fs[1]), Tail(fs))

HasTail == \E i \in DOMAIN rules : rules[i].tail
(* Mutant: only the first expression is looked at. *)
MinLen_first(map) == MinMatchLen(map[ByAddress(DOMAIN map, addr)[1]])
MinLen(map) == Min({MinMatchLen(map[f]) : f \in DOMAIN map})

BuildTree ==
  /\ pc = "add" /\ added = Len(rules)
  /\ exprs' = [tail |-> Simplified(exprs.tail), main |-> Simplified(exprs.main)]
  /\ minlen' = MinLen(exprs'.main)
  /\ tree' = JoinTrees(exprs'.main,
                       IF HasTail THEN <<SharedTree(Cat(CharNode(OOB), JoinTrees(exprs'.tail, <<>>)))>>
                       ELSE <<>>)
  /\ pc' = "dfa"
  /\ UNCHANGED <<rules, opts, addr, file, added, plain, d, follow, eq, enc, todo, chfa, table>>

Fail(e) == IF e.err THEN "fail" ELSE pc

StartDfa ==
  /\ pc = "dfa" /\ d.start = 0
  /\ follow' = ComputePos(tree, <<>>).follow
  /\ d' = NewDfa(tree, addr, file)
  /\ pc' = Fail(d')
  /\ UNCHANGED <<rules, opts, addr, file, added, exprs, plain, minlen, tree, eq, enc, todo, chfa, table>>

WorkQueue ==
  /\ pc = "dfa" /\ d.queue # <<>>
  /\ d' = ProcessWorkQueue(d, follow, addr, file)
  /\ pc' = Fail(d')
  /\ UNCHANGED <<rules, opts, addr, file, added, exprs, plain, minlen, tree, follow, eq, enc, todo, chfa, table>>

Rest == UNCHANGED <<rules, opts, addr, file, added, exprs, plain, minlen, tree, follow, todo, chfa>>

(* apply_and_clear_deny without a permission table, or when asked for       *)
FilterDeny ==
  /\ pc = "dfa" /\ d.start # 0 /\ d.queue = <<>>
  /\ d' = IF ~opts.permstable \/ opts.filterDeny THEN DfaApplyAndClearDeny(d) ELSE d
  /\ pc' = "minimize"
  /\ UNCHANGED <<eq, enc, table>> /\ Rest

MinimizeDfa ==
  /\ pc = "minimize"
  /\ d' = IF opts.minimize THEN Minimize(d) ELSE d
  /\ pc' = "unreachable"
  /\ UNCHANGED <<eq, enc, table>> /\ Rest

Unreachable ==
  /\ pc = "unreachable"
  /\ d' = IF opts.unreachable THEN RemoveUnreachable(d) ELSE d
  /\ pc' = "equiv"
  /\ UNCHANGED <<eq, enc, table>> /\ Rest

Equiv ==
  /\ pc = "equiv"
  /\ eq' = IF opts.equiv THEN EquivalenceClasses(d) ELSE NoTrans
  /\ d' = IF opts.equiv THEN ApplyEquivalenceClasses(d, eq') ELSE d
  /\ pc' = "diff"
  /\ UNCHANGED <<enc, table>> /\ Rest

TakeEncoding(e) == d' = e.d /\ enc' = [expected |-> e.expected, saved |-> e.saved, count |-> e.count]
Encode ==
  /\ pc = "diff"
  /\ TakeEncoding(IF opts.diff THEN DiffEncode(d) ELSE [d |-> d, expected |-> 0, saved |-> 0, count |-> 0])
  /\ pc' = "perms"
  /\ UNCHANGED <<eq, table>> /\ Rest

(* compute_perms_table_ent: two entries for a file rule's permissions       *)
Entry(p) == LET w == AcceptWords(p)
            IN  IF file THEN <<ComputeFpermsUser(w), ComputeFpermsOther(w)>> ELSE <<ComputePermsEntry(w)>>

(* compute_perms_table: entry 0 is the nonmatching state's, which the start *)
(* state shares; table maps a state to the entry it is given.               *)
PermsTable ==
  /\ pc = "perms"
  /\ table' = IF opts.permstable
              THEN [s \in Range(d.states) |-> Entry(d.perms[IF s = d.start THEN d.non ELSE s])]
              ELSE [s \in Range(d.states) |-> <<AcceptWords(d.perms[s])>>]
  /\ pc' = "compress"
  /\ UNCHANGED <<d, eq, enc>> /\ Rest

StartChfa ==
  /\ pc = "compress"
  /\ chfa' = NewChfa(d)
  /\ todo' = InsertOrder(d, opts.high)
  /\ pc' = "insert"
  /\ UNCHANGED <<rules, opts, addr, file, added, exprs, plain, minlen, tree, d, follow, eq, enc, table>>

Insert ==
  /\ pc = "insert" /\ todo # <<>>
  /\ chfa' = InsertState(chfa, d, Head(todo))
  /\ todo' = Tail(todo)
  /\ UNCHANGED <<pc, rules, opts, addr, file, added, exprs, plain, minlen, tree, d, follow, eq, enc, table>>

Serialized ==
  /\ pc = "insert" /\ todo = <<>>
  /\ pc' = "done"
  /\ UNCHANGED <<rules, opts, addr, file, added, exprs, plain, minlen, tree, d, follow, eq, enc, todo, chfa, table>>

(* The compiler has returned its tables or thrown its error.                *)
Finished == pc \in {"done", "fail"} /\ UNCHANGED vars

Next == \/ AddRule \/ BuildTree \/ StartDfa \/ WorkQueue \/ FilterDeny \/ MinimizeDfa \/ Unreachable
        \/ Equiv \/ Encode \/ PermsTable \/ StartChfa \/ Insert \/ Serialized \/ Finished
Spec == Init /\ [][Next]_vars

(***************************************************************************)
(* Properties                                                              *)
(***************************************************************************)
(* Characters that no rule names behave alike: one of them is enough.       *)
RECURSIVE CharsOf(_)
CharsOf(n) == (n.set \ {OOB}) \union UNION {CharsOf(n.kids[i]) : i \in DOMAIN n.kids}
Named == UNION {CharsOf(RuleTree(rules[i])) : i \in DOMAIN rules}
Alphabet == IF Cardinality(Named) > 3 THEN Named ELSE Named \union {Min(Chars \ Named)}
Words == LET Str(n) == UNION {[1 .. k -> Alphabet] : k \in 0 .. n}
             oobUsed == \E i \in DOMAIN rules : (rules[i].oob /\ Len(rules[i].exprs) > 1)
                                                \/ rules[i].tail
         IN  Str(MaxWord) \union (IF oobUsed THEN {u \o <<OOB>> \o v : u \in Str(MaxWord - 1), v \in Str(1)} ELSE {})

MainFlags == {RuleFlag(rules[i]) : i \in {j \in DOMAIN rules : ~rules[j].tail}}
(* The accept nodes a string reaches according to the rules as written.     *)
MainMatch(i, w) == ~rules[i].tail /\ Matches(RuleTree(rules[i]), w)
TailMatch(i, w) ==
  /\ rules[i].tail
  /\ \E k \in DOMAIN w : /\ w[k] = OOB
                         /\ \E j \in DOMAIN rules : MainMatch(j, SubSeq(w, 1, k - 1))
                         /\ Matches(RuleTree(rules[i]), SubSeq(w, k + 1, Len(w)))
RefFlags(w) == {RuleFlag(rules[i]) : i \in {j \in DOMAIN rules : MainMatch(j, w) \/ TailMatch(j, w)}}

(* What accept nodes F say together, in whatever order they are looked at.  *)
(* The nodes of the highest priority decide a bit; among these a deny wins  *)
(* over an exact match of an exec bit, this over other allow nodes, and     *)
(* these over a prompt.  The exec type of a file goes with its exec bit.    *)
Strength(f, b) == CASE f.mode = "deny" -> 3 [] f.mode = "exact" /\ b \in ExecBits -> 2 [] f.mode = "prompt" -> 0 [] OTHER -> 1
Weaker(g, b, f, c) == g.pri < f.pri \/ (g.pri = f.pri /\ Strength(g, b) <= Strength(f, c))
About(F, b) == {f \in F : b \in f.perms \union f.audit}
Deciding(F, b) == {f \in About(F, b) : \A g \in About(F, b) : Weaker(g, b, f, b)}
DecidedBy(b) == IF file /\ b \in UserExecType THEN "x" ELSE IF file /\ b \in OtherExecType THEN "ox" ELSE b
Said(F, modes, field) ==
  {b \in Bits : \E f \in Deciding(F, DecidedBy(b)) : f.mode \in modes /\ b \in f[field]}
(* Inheriting the confinement needs mmap, unless a stronger node is about   *)
(* mmap; that does not undo a deny of mmap, however weak.  A match may go   *)
(* on even where a deny ends it.                                            *)
Implied(F, allow) ==
  {m \in {"m", "om"} :
     LET x == IF m = "m" THEN "x" ELSE "ox"
     IN  /\ file /\ {x, IF m = "m" THEN "i" ELSE "oi"} \subseteq allow
         /\ \A g \in Deciding(F, m), f \in Deciding(F, x) : Weaker(g, m, f, x)}
Together(F) ==
  LET allow == Said(F, {"allow", "exact"}, "perms")
      denied == Said(F, {"deny"}, "perms")
  IN  [allow |-> allow \union Implied(F, allow) \union (denied \intersect {ContMatch}),
       deny |-> denied, prompt |-> Said(F, {"prompt"}, "perms"),
       audit |-> Said(F, {"allow", "exact", "prompt"}, "audit"), quiet |-> Said(F, {"deny"}, "audit")]
(* Two ways to run a program that cannot both be *)
Contradict(f, g) == f.mode # "deny" /\ g.mode # "deny" /\ ~IsMergedXConsistent(f.perms, g.perms)

Cleared == ~opts.permstable \/ opts.filterDeny
RefPerms(w) == LET p == Together(RefFlags(w))
               IN  IF Cleared /\ pc # "dfa" THEN ApplyAndClearDeny(p) ELSE p
(* Before and after every pass that changes the automaton, and at the end.  *)
HasDfa == pc \in {"minimize", "unreachable", "equiv", "diff", "perms", "done"}
Mapped(w) == IF pc \in {"diff", "perms", "compress", "insert", "done"}
             THEN [i \in DOMAIN w |-> ClassOf(eq, w[i])] ELSE w

(* Simplifying a tree, pairwise or by vectors, keeps the strings it matches *)
(* (simplify_tree).                                                         *)
SimplifyKeepsLanguage ==
  pc = "dfa" /\ d.start = 0 =>
    \A part \in {"main", "tail"} : \A f \in DOMAIN exprs[part] : \A w \in Words :
      Matches(exprs[part][f], w) <=> Matches(plain[part][f], w)

(* min_match_len never exceeds the characters of the shortest match.        *)
MinLenIsBound ==
  pc = "dfa" /\ d.start = 0 =>
    \A w \in Words : (\E i \in DOMAIN rules : MainMatch(i, w)) =>
      minlen <= Len(SelectSeq(w, LAMBDA c : c # OOB))

(* A tree that was simplified is the tree that was written, and the length  *)
(* that attachments are ordered by is one that every match has.             *)
TreesFaithful == SimplifyKeepsLanguage /\ MinLenIsBound

(* Whatever step the automaton is at, the permissions it gives a string are *)
(* those of the rules that match the string, in whatever order memory has   *)
(* their accept nodes (create_chfa, perms_t).  Strings with an out of band  *)
(* character count until diff_encode: make_relative gives a state that has  *)
(* no transition for one the transition of the state it is encoded against. *)
(* Only rules that contradict each other about the same string are refused, *)
(* and they always are if no other rule overrides them; if one does, the    *)
(* addresses of the nodes decide whether they are.                          *)
InBand(w) == \A i \in DOMAIN w : w[i] # OOB
Encoded == opts.diff /\ pc \in {"perms", "compress", "insert", "done"}
PermsAreRules ==
  /\ HasDfa => \A w \in Words : (Encoded /\ ~InBand(w)) \/ d.perms[Match(d, Mapped(w))] = RefPerms(w)
  /\ pc = "minimize" /\ file =>
       \A w \in Words : \A x \in ExecBits : \A f, g \in Deciding(RefFlags(w), x) : ~Contradict(f, g)
  /\ pc = "fail" /\ d.err => file /\ \E w \in Words : \E f, g \in RefFlags(w) : Contradict(f, g)

(* diff_encode saves as many transitions as it computed beforehand, the     *)
(* check that diff_encode itself makes and reports.                         *)
DiffSavings == enc.saved = enc.expected

(* Walking the compressed tables is walking the automaton.                  *)
TablesAreDfa ==
  pc = "done" => \A s \in Range(d.states), c \in 0 .. UpperBound - 1 : Lookup(chfa, s, c) = Next_(d, s, c)

(* While states are inserted: the free list holds exactly the free cells,   *)
(* each cell belongs to the state it was written for, and every character   *)
(* of every state looks at a cell of the table (insert_state).              *)
TableConsistent ==
  pc = "insert" =>
    /\ FreeChain(chfa, chfa.first, {}) = DOMAIN chfa.cell \ (Occupied(chfa) \union {0})
    /\ \A i \in FreeChain(chfa, chfa.first, {}) :
         chfa.free[i].next # 0 => chfa.free[chfa.free[i].next].prev = i
    /\ \A n \in DOMAIN chfa.num :
         /\ chfa.base[n] >= 0 /\ chfa.base[n] + UpperBound - 1 < Size(chfa)
         /\ \A c \in DOMAIN d.trans[chfa.num[n]] : chfa.cell[chfa.base[n] + c].check = chfa.num[n]

(* From the automaton to its tables: what diff_encode leaves out is what it *)
(* counted, the comb is sound after every insertion, and in the end it      *)
(* gives the automaton's transitions.                                       *)
TablesFaithful == DiffSavings /\ TableConsistent /\ TablesAreDfa
=============================================================================
