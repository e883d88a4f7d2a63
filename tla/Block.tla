-------------------------------- MODULE Block --------------------------------
(***************************************************************************)
(* The rules of a profile while it is parsed (parser_yacc.y, block.cc,     *)
(* block_rules.cc, cond_expr.h) and until they are handed to the pattern   *)
(* compiler.  Block 1 is the profile's main block; a block is              *)
(* [path, kind, set, late, pre, files, rules, caps, net, rlimits, prompt, xtab] *)
(* path: its ancestors and itself; kind: main, block, cond (a branch of a  *)
(* conditional) or hat (the main block of a hat); set: the branch is the   *)
(* one its conditional chose; late: an earlier branch was chosen.          *)
(***************************************************************************)
EXTENDS Prefix, SequencesExt, FiniteSetsExt

CONSTANTS Setups,         \* what a policy may contain: kinds of statements and blocks, qualifiers, sizes
          ExecSlots       \* entries of exec_table for named transitions, 12 in the code

AllCaps == {"c1", "c2"}
AllTypes == {"t1", "t2"}
LimitNames == {"nice", "nofile", "data", "cpu"}
Files == UNION {s.files : s \in Setups}

(* The target of an exec rule: a name with a namespace, profile//tail or tail *)
Names == [ns : BOOLEAN, prof : {"", "P", "hat"} \union {f.nt.prof : f \in Files}, tail : {""} \union {f.nt.tail : f \in Files}]
NoName == [ns |-> FALSE, prof |-> "", tail |-> ""]
Entries == [obj : {"cp", "proc", "any"} \union {f.obj : f \in Files}, perms : SUBSET (UserPerms \union OtherPerms \union SharedPerms),
            nt : Names, xu : Nat, xo : Nat, prio : Int, mode : Modes, audit : Audits]
RuleKinds == {"ipc", "net", "all"}
Rules == [prio : Int, audit : Audits, mode : Modes, owner : Owners, kind : RuleKinds, obj : RuleKinds \union AllTypes \union {"any"}]
Limits == [specified : SUBSET LimitNames, limits : [LimitNames -> Int]]
BlockRecs == [path : Seq(Nat), kind : {"main", "block", "cond", "hat"}, set : BOOLEAN, late : BOOLEAN, pre : PrefixRecs,
              files : Seq(Entries), rules : Seq(Rules), caps : Tables(AllCaps), net : Tables(AllTypes),
              rlimits : Limits, prompt : BOOLEAN, xtab : Seq(Names)]

(* parse_sub_perms: the type of an exec permission comes with the           *)
(* permission itself, for the user and for others.                          *)
TypedWithX(perms) == /\ perms \intersect {"i", "p", "c"} # {} => "x" \in perms
                     /\ perms \intersect {"oi", "op", "oc"} # {} => "ox" \in perms
(* parse_perms: what is written is given to the user and to others alike.   *)
ForBoth(perms) == \A q \in {<<"r", "or">>, <<"w", "ow">>, <<"x", "ox">>, <<"i", "oi">>, <<"p", "op">>, <<"c", "oc">>} :
                     q[1] \in perms <=> q[2] \in perms
ASSUME SetupsAssumption ==
  /\ \A s \in Setups : s.prefixes \subseteq PrefixRecs /\ s.limits \subseteq [l : LimitNames, v : Int, unit : {"", "K", "s", "ms"}]
  /\ \A f \in Files : /\ f.perms \subseteq UserPerms \union OtherPerms \union SharedPerms /\ TypedWithX(f.perms)
                       /\ ForBoth(f.perms) /\ f.nt \in Names
ASSUME ExecSlotsAssumption == ExecSlots \in Nat

(* Loops: the steps, each a function on the state of the loop, one after    *)
(* the other.                                                               *)
Run(steps, init) == LET f[i \in 0 .. Len(steps)] == IF i = 0 THEN init ELSE steps[i][f[i - 1]] IN f[Len(steps)]
(* The members of a set of numbers up to n, in their order *)
InOrder(set, n) == Run([j \in 1 .. n |-> [s \in Seq(Nat) |-> IF j \in set THEN Append(s, j) ELSE s]], <<>>)

VARIABLES setup, blocks, open, phase, chain,
          stmts,          \* history: the statements as written, [kind, what, pre, path]
          given,          \* history: the qualifiers of the closed blocks
          before          \* history: the policy before its rules were merged
vars == <<setup, blocks, open, phase, chain, stmts, given, before>>

NoLimits == [specified |-> {}, limits |-> [l \in LimitNames |-> 0]]
NewBlock(path, kind, set) ==
  [path |-> path, kind |-> kind, set |-> set, late |-> chain = "yes", pre |-> NoPrefix, files |-> <<>>, rules |-> <<>>,
   caps |-> NoTable, net |-> NoTable, rlimits |-> NoLimits, prompt |-> FALSE, xtab |-> <<>>]

Init == /\ setup \in Setups
        /\ chain = "none" /\ blocks = <<NewBlock(<<1>>, "main", TRUE)>> /\ open = <<1>>
        /\ phase = "parse" /\ stmts = <<>> /\ given = [b \in {} |-> NoPrefix]
        /\ before = {}

Cur == open[Len(open)]
Under(i) == {j \in DOMAIN blocks : \E k \in DOMAIN blocks[j].path : blocks[j].path[k] = i}
(* The main block of the profile or hat that block i belongs to. *)
Root(i) == blocks[i].path[Max({k \in DOMAIN blocks[i].path : blocks[blocks[i].path[k]].kind \in {"main", "hat"}})]

(***************************************************************************)
(* Statements.  The qualifiers are added to the new rule, and the rule to  *)
(* the block that is being parsed.                                         *)
(***************************************************************************)
Put(bs, r) == IF r.ok THEN blocks' = bs /\ UNCHANGED phase
              ELSE phase' = "error" /\ UNCHANGED blocks
Written(kind, what, p) ==
  /\ phase = "parse" /\ Len(stmts) < setup.stmts /\ kind \in setup.kinds /\ p \in setup.prefixes
  /\ stmts' = Append(stmts, [kind |-> kind, what |-> what, pre |-> p, path |-> blocks[Cur].path])
  /\ chain' = "none" /\ UNCHANGED <<setup, open, given, before>>

NewEntry(obj, perms, nt) == [obj |-> obj, perms |-> perms, nt |-> nt, xu |-> 0, xo |-> 0, prio |-> 0,
                             mode |-> "unspec", audit |-> "unspec"]
AddEntry(b, e) == [b EXCEPT !.files = <<e>> \o @, !.prompt = @ \/ e.mode = "prompt"]
AddRule(b, r) == [b EXCEPT !.rules = Append(@, r), !.prompt = @ \/ r.mode = "prompt"]
NewRule(kind, obj) == [prio |-> 0, audit |-> "unspec", mode |-> "unspec", owner |-> "unspec", kind |-> kind, obj |-> obj]

FileStmt(f, p) ==
  LET r == EntryAddPrefix(NewEntry(f.obj, f.perms, f.nt), p)
  IN  Written("file", f, p) /\ Put([blocks EXCEPT ![Cur] = AddEntry(@, r.r)], r)
(* change_profile: no owner, no exec *)
ChangeProfileStmt(p) ==
  LET r == GenericAddPrefix(NewEntry("cp", {"cp"}, NoName), p)
      ok == [r EXCEPT !.ok = @ /\ p.owner = "unspec"]
  IN  Written("cp", "cp", p) /\ Put([blocks EXCEPT ![Cur] = AddEntry(@, r.r)], ok)
(* A rule of one of the classes under prefix_rule, or an all rule *)
RuleStmt(kind, p) ==
  LET r == AddPrefix(kind, NewRule(kind, kind), p)
  IN  Written(kind, kind, p) /\ Put([blocks EXCEPT ![Cur] = AddRule(@, r.r)], r)
NetStmt(t, p) ==
  LET r == AddPrefix("net", NewRule("net", t), p)
      b == AddRule(blocks[Cur], r.r)
  IN  Written("net", t, p) /\ Put([blocks EXCEPT ![Cur] = [b EXCEPT !.net = AddCompatNet(@, p, {t})]], r)
CapStmt(c, p) ==
  /\ Written("cap", c, p)
  /\ Put([blocks EXCEPT ![Cur].caps = AddCapabilities(@, p, {c})], [ok |-> p.owner = "unspec"])

(* add_rlimit, convert_time_units: a limit's value, -1 if it is invalid.    *)
(* Scaled down: nice -2 .. 1 for -20 .. 19, a KB is 4 bytes, a second 4 ms. *)
Infinity == 1000
RlimitValue(l, v, unit) ==
  IF v = Infinity THEN v ELSE
  CASE l = "nice" -> IF unit = "" /\ v \in -2 .. 1 THEN v + 2 ELSE -1
    [] l = "nofile" -> IF unit = "" /\ v >= 0 THEN v ELSE -1
    [] l = "data" -> IF v < 0 THEN -1 ELSE IF unit = "K" THEN v * 4 ELSE IF unit = "" THEN v ELSE -1
    [] l = "cpu" -> IF v < 0 \/ unit \notin {"", "s", "ms"} THEN -1
                    ELSE IF unit = "ms" THEN (IF v < 4 THEN -1 ELSE v \div 4) ELSE v
RlimitStmt(l, v, unit) ==
  LET n == RlimitValue(l, v, unit)
  IN  /\ Written("rlimit", [l |-> l, n |-> n], NoPrefix)
      /\ Put([blocks EXCEPT ![Cur].rlimits = [specified |-> @.specified \union {l}, limits |-> [@.limits EXCEPT ![l] = n]]],
             [ok |-> n # -1])

(***************************************************************************)
(* Blocks                                                                  *)
(***************************************************************************)
OpenBlock(kind, set) ==
  /\ phase = "parse" /\ kind \in setup.blocks /\ Len(blocks) < setup.nblocks /\ Len(open) < setup.depth
  /\ blocks' = Append(blocks, NewBlock(Append(blocks[Cur].path, Len(blocks) + 1), kind, set))
  /\ open' = Append(open, Len(blocks) + 1)
  /\ chain' = "none" /\ UNCHANGED <<setup, phase, stmts, given, before>>
OpenSub == OpenBlock("block", TRUE)
OpenHat == /\ \A i \in DOMAIN blocks : blocks[i].kind # "hat"
           /\ OpenBlock("hat", TRUE)
(* if; else if and else follow the branch before them; the first that holds *)
(* is the one of the conditional.                                           *)
OpenIf(val) == chain = "none" /\ OpenBlock("cond", val)
OpenElse(val) == chain # "none" /\ OpenBlock("cond", val /\ chain = "no")

(* block_rules::add_prefix *)
RulesAddPrefix(b, p) ==
  LET fs == [i \in 1 .. Len(b.files) |-> EntryAddPrefix(b.files[i], p)]
      rs == [i \in 1 .. Len(b.rules) |-> AddPrefix(b.rules[i].kind, b.rules[i], p)]
      c == CapsAddPrefix(b.caps, p)
  IN  [ok |-> /\ \A i \in DOMAIN fs : fs[i].ok
              /\ \A i \in DOMAIN rs : rs[i].ok
              /\ c.ok /\ (b.rlimits.specified = {} \/ p = NoPrefix),
       b |-> [b EXCEPT !.files = [i \in 1 .. Len(@) |-> fs[i].r], !.rules = [i \in 1 .. Len(@) |-> rs[i].r],
                       !.net = ApplyCompatPrefix(@, p), !.caps = c.r, !.prompt = @ \/ p.mode = "prompt"]]

(* block::add_prefix: to the block, and to the rules of all blocks in it,   *)
(* branches that were not chosen and hats included.                         *)
BlockAddPrefix(bs, i, p) ==
  LET own == AddPrefix("block", bs[i].pre, p)
      done == [j \in DOMAIN bs |-> IF j \in Under(i) THEN RulesAddPrefix(bs[j], p) ELSE [ok |-> TRUE, b |-> bs[j]]]
  IN  [ok |-> own.ok /\ \A j \in DOMAIN bs : done[j].ok,
       bs |-> [j \in 1 .. Len(bs) |-> IF j = i THEN [done[j].b EXCEPT !.pre = own.r] ELSE done[j].b]]

(* Mutant: the limits stay in the block. *)
MergeCompatRules_nolimits(a, b) ==
  [ok |-> a.rlimits.specified \intersect b.rlimits.specified = {},
   b |-> [a EXCEPT !.caps = Join(@, b.caps), !.net = Join(@, b.net), !.prompt = @ \/ b.prompt]]
(* merge_compat_rules: what is kept per profile moves up to the parent.     *)
MergeCompatRules(a, b) ==
  [ok |-> a.rlimits.specified \intersect b.rlimits.specified = {},
   b |-> [a EXCEPT !.caps = Join(@, b.caps), !.net = Join(@, b.net), !.prompt = @ \/ b.prompt,
                   !.rlimits = [specified |-> @.specified \union b.rlimits.specified,
                                limits |-> [l \in LimitNames |-> IF b.rlimits.limits[l] # 0 THEN b.rlimits.limits[l] ELSE @.limits[l]]]]]

Parent == open[Len(open) - 1]
Closed == /\ open' = Front(open) /\ UNCHANGED <<setup, stmts, before>>

(* The block's qualifiers are added, then add_subblock adds the parent's    *)
(* own, which it gets only at its end.                                      *)
CloseBlock(p) ==
  LET one == BlockAddPrefix(blocks, Cur, p)
      two == BlockAddPrefix(one.bs, Cur, one.bs[Parent].pre)
      mrg == MergeCompatRules(two.bs[Parent], two.bs[Cur])
  IN  /\ phase = "parse" /\ Len(open) > 1 /\ blocks[Cur].kind = "block" /\ p \in setup.prefixes
      /\ Put([two.bs EXCEPT ![Parent] = mrg.b], [ok |-> one.ok /\ two.ok /\ mrg.ok])
      /\ given' = [b \in DOMAIN given \union {Cur} |-> IF b = Cur THEN p ELSE given[b]]
      /\ chain' = "none" /\ Closed

(* add_cond_set: only the chosen branch moves up.                           *)
CloseCond ==
  LET mrg == MergeCompatRules(blocks[Parent], blocks[Cur])
  IN  /\ phase = "parse" /\ Len(open) > 1 /\ blocks[Cur].kind = "cond"
      /\ IF blocks[Cur].set THEN Put([blocks EXCEPT ![Parent] = mrg.b], mrg) ELSE UNCHANGED <<blocks, phase>>
      /\ chain' = IF blocks[Cur].set \/ blocks[Cur].late THEN "yes" ELSE "no"
      /\ Closed /\ UNCHANGED given

(* for_each_recursive: a block, its subblocks, its conditionals.  What is   *)
(* still to visit is kept in order; every block has one parent, so as many  *)
(* turns as there are blocks are enough.                                    *)
Tree(bs) == [j \in 1 .. Len(bs) |-> [path |-> bs[j].path, kind |-> bs[j].kind, set |-> bs[j].set]]
Kids(tree, i, kind, eval) ==
  InOrder({j \in DOMAIN tree : /\ tree[j].kind = kind /\ Len(tree[j].path) = Len(tree[i].path) + 1
                               /\ tree[j].path[Len(tree[i].path)] = i
                               /\ kind = "cond" /\ eval => tree[j].set}, Len(tree))
WalkState == [todo : Seq(Nat), done : Seq(Nat)]
Visit(tree, eval, s) ==
  IF s.todo = <<>> THEN s
  ELSE [todo |-> Kids(tree, Head(s.todo), "block", eval) \o Kids(tree, Head(s.todo), "cond", eval) \o Tail(s.todo),
        done |-> Append(s.done, Head(s.todo))]
Walk(tree, i, eval) ==
  Run([k \in 1 .. Len(tree) |-> [s \in WalkState |-> Visit(tree, eval, s)]], [todo |-> <<i>>, done |-> <<>>]).done

(***************************************************************************)
(* The end of a profile or hat: named transitions                          *)
(***************************************************************************)
Local == 3                                \* AA_EXEC_LOCAL >> 10; the table's entries follow
(* Mutant: every name gets the first slot. *)
AddEntryToXTable_first(tab, name) == [tab |-> IF tab = <<>> THEN <<name>> ELSE tab, n |-> Local + 1]
AddEntryToXTable(tab, name) ==
  IF \E i \in DOMAIN tab : tab[i] = name THEN [tab |-> tab, n |-> Local + (CHOOSE i \in DOMAIN tab : tab[i] = name)]
  ELSE IF Len(tab) < ExecSlots THEN [tab |-> Append(tab, name), n |-> Local + Len(tab) + 1]
  ELSE [tab |-> tab, n |-> 0]

(* A child of the profile itself with the name of the rule's file is the    *)
(* local transition.  The comparison of the profile's name with the target's *)
(* starts at the // and so never matches.                                   *)
ProfName(root) == IF root = 1 THEN "P" ELSE "hat"
AddNamedTransition(tab, root, e) ==
  LET child == "c" \in e.perms \/ "oc" \in e.perms
  IN  IF ~e.nt.ns /\ (e.nt.prof # "" \/ child) /\ e.nt.tail = e.obj
      THEN [tab |-> tab, n |-> Local]
      ELSE AddEntryToXTable(tab, IF ~e.nt.ns /\ child THEN [e.nt EXCEPT !.prof = ProfName(root)] ELSE e.nt)

(* add_proc_access: the rules that change_profile and change_hat need       *)
AddProcAccess(b) == AddEntry(AddEntry(b, NewEntry("proc", {"r"}, NoName)), NewEntry("proc", {"w"}, NoName))

(* post_parse_profile_file on block j of the profile with main block root   *)
ParseState == [ok : BOOLEAN, bs : Seq(BlockRecs)]
NameTransition(a, j, root, k) ==
  LET e == a.bs[j].files[k]
      x == AddNamedTransition(a.bs[root].xtab, root, e)
      done == [e EXCEPT !.nt = NoName, !.xu = IF "x" \in e.perms THEN x.n ELSE 0,
                        !.xo = IF "ox" \in e.perms THEN x.n ELSE 0]
  IN  IF ~a.ok \/ e.nt = NoName THEN a
      ELSE IF x.n = 0 THEN [a EXCEPT !.ok = FALSE]
      ELSE [a EXCEPT !.bs = [@ EXCEPT ![root].xtab = x.tab, ![j].files[k] = done]]
PostParseFile(a, j, root) ==
  LET named == Run([k \in 1 .. Len(a.bs[j].files) |-> [s \in ParseState |-> NameTransition(s, j, root, k)]], a)
      cp == \E k \in DOMAIN a.bs[j].files : "cp" \in a.bs[j].files[k].perms
  IN  IF named.ok /\ cp THEN [named EXCEPT !.bs[root] = AddProcAccess(@)] ELSE named
PostParseIn(order, bs, root) ==
  Run([k \in 1 .. Len(order) |-> [s \in ParseState |-> PostParseFile(s, order[k], root)]], [ok |-> TRUE, bs |-> bs])
PostParse(bs, root) == PostParseIn(Walk(Tree(bs), root, TRUE), bs, root)

CloseHat ==
  LET r == PostParse(blocks, Cur)
  IN  /\ phase = "parse" /\ Len(open) > 1 /\ blocks[Cur].kind = "hat"
      /\ Put(r.bs, r) /\ chain' = "none" /\ Closed /\ UNCHANGED given
EndProfile ==
  LET r == PostParse(blocks, 1)
  IN  /\ phase = "parse" /\ open = <<1>> /\ stmts # <<>>
      /\ blocks' = IF r.ok THEN r.bs ELSE blocks
      /\ phase' = IF r.ok THEN "implied" ELSE "error"
      /\ UNCHANGED <<setup, open, chain, stmts, given, before>>

(***************************************************************************)
(* post_process_profile                                                    *)
(***************************************************************************)
(* all_rule::add_implied_rules with p, the qualifiers of the all rule: a    *)
(* rule of every class, files without exec, exec at a lower priority and    *)
(* all capabilities, each with p once more.                                 *)
AllImplies(b, all) ==
  LET p == [prio |-> all.prio, audit |-> all.audit, mode |-> all.mode, owner |-> all.owner]
      perms == IF p.mode = "deny" THEN {"r"} ELSE {"r", "or"}
      exec == {"x", "ox"} \union (IF p.mode = "deny" THEN {} ELSE {"i", "oi"})
      file == EntryAddPrefix(NewEntry("any", perms, NoName), p).r
      ix == EntryAddPrefix(NewEntry("any", exec, NoName), [p EXCEPT !.prio = @ - 1]).r
      add(c, kind) == AddRule(c, AddPrefix(kind, NewRule(kind, "any"), p).r)
      b1 == AddEntry(AddEntry(add(add(b, "ipc"), "net"), file), ix)
  IN  [b1 EXCEPT !.net = AddCompatNet(@, p, AllTypes), !.caps = AddCapabilities(@, p, AllCaps)]

(* The all rules among rs, on b *)
AllsImply(b, rs) ==
  Run([k \in 1 .. Len(rs) |-> [c \in BlockRecs |-> IF rs[k].kind = "all" THEN AllImplies(c, rs[k]) ELSE c]], b)
ImpliedIn(order, bs, b) == Run([k \in 1 .. Len(order) |-> [c \in BlockRecs |-> AllsImply(c, bs[order[k]].rules)]], b)
AddImpliedTo(bs, root) ==
  LET all == [bs EXCEPT ![root] = ImpliedIn(Walk(Tree(bs), root, TRUE), bs, @)]
      hat == bs[root].kind = "hat" \/ \E j \in DOMAIN bs : bs[j].kind = "hat"
  IN  IF hat THEN [all EXCEPT ![root] = AddProcAccess(@)] ELSE all
Roots == InOrder({i \in DOMAIN blocks : blocks[i].kind \in {"main", "hat"}}, Len(blocks))

(* What a rule or entry says, one permission at a time; exec with its type. *)
Says(e, kind, perm, type) ==
  [kind |-> kind, obj |-> e.obj, perm |-> perm, type |-> type, prio |-> e.prio,
   mode |-> Given(e.mode, "allow"), mark |-> AuditEq(e.audit, "force")]
XType(e, perm) == CASE perm = "x" -> <<e.perms \intersect {"i", "p", "c"}, e.xu>>
                    [] perm = "ox" -> <<e.perms \intersect {"oi", "op", "oc"}, e.xo>>
                    [] OTHER -> <<{}, 0>>
EntrySays(e) == {Says(e, "file", q, XType(e, q)) : q \in e.perms \ ExecType}
FilesSay(fs) == UNION {EntrySays(fs[k]) : k \in DOMAIN fs}
RulesSay(rs) == {Says(rs[k], rs[k].kind, "all", <<{}, 0>>) : k \in DOMAIN rs}
Policy(bs, root) ==
  UNION {FilesSay(bs[j].files) \union RulesSay(bs[j].rules) : j \in Range(Walk(Tree(bs), root, TRUE))}

AddImpliedRules ==
  /\ phase = "implied"
  /\ blocks' = Run([k \in 1 .. Len(Roots) |-> [bs \in Seq(BlockRecs) |-> AddImpliedTo(bs, Roots[k])]], blocks)
  /\ before' = {<<r, Policy(blocks', r)>> : r \in Range(Roots)}
  /\ phase' = "merge" /\ UNCHANGED <<setup, open, chain, stmts, given>>

(* Mutant: entries of different modes become one. *)
SameEntry_nomode(e, f) == e.obj = f.obj /\ e.prio = f.prio /\ AuditEq(e.audit, f.audit)

(* merge_file: entries that differ in their permissions only become one.    *)
(* Of the index bits that are put together either both are equal or one is  *)
(* zero (XPlaced in Block_proofs), so that their union is the larger one.   *)
SameEntry(e, f) == e.obj = f.obj /\ e.mode = f.mode /\ AuditEq(e.audit, f.audit) /\ e.prio = f.prio
FilesState == [ok : BOOLEAN, out : Seq(Entries), n : Nat]
MergeEntry(a, e) ==
  LET hits == {i \in DOMAIN a.out : SameEntry(a.out[i], e)}
      i == Min(hits)
  IN  IF ~a.ok THEN a
      ELSE IF hits = {} THEN [a EXCEPT !.out = Append(@, e)]
      ELSE IF ~IsMergedXConsistent(a.out[i], e) THEN [a EXCEPT !.ok = FALSE]
      ELSE [a EXCEPT !.n = @ + 1, !.out[i].perms = @ \union e.perms,
                      !.out[i].xu = Max({@, e.xu}), !.out[i].xo = Max({@, e.xo})]
MergeFile(fs) ==
  Run([k \in 1 .. Len(fs) |-> [a \in FilesState |-> MergeEntry(a, fs[k])]], [ok |-> TRUE, out |-> <<>>, n |-> 0])
(* merge_rule_t: rules that compare equal are deleted but one.              *)
RulesState == [out : Seq(Rules), n : Nat]
MergeRule(a, r) == IF \E i \in DOMAIN a.out : a.out[i] = r THEN [a EXCEPT !.n = @ + 1] ELSE [a EXCEPT !.out = Append(@, r)]
MergeRuleT(rs) == Run([k \in 1 .. Len(rs) |-> [a \in RulesState |-> MergeRule(a, rs[k])]], [out |-> <<>>, n |-> 0])
(* merge_duplicated_rules goes through the blocks, and for_each_recursive   *)
(* stops at the first one that returns a number other than 0.               *)
MergeState == [ok : BOOLEAN, stop : BOOLEAN, bs : Seq(BlockRecs)]
MergeBlock(s, j) ==
  LET f == MergeFile(s.bs[j].files)
      r == MergeRuleT(s.bs[j].rules)
  IN  IF s.stop THEN s
      ELSE IF ~f.ok THEN [s EXCEPT !.ok = FALSE, !.stop = TRUE]
      ELSE [s EXCEPT !.bs[j].files = f.out, !.bs[j].rules = r.out, !.stop = f.n + r.n # 0]
MergeIn(order, a) == Run([k \in 1 .. Len(order) |-> [s \in MergeState |-> MergeBlock(s, order[k])]], [a EXCEPT !.stop = ~a.ok])
MergeProfile(a, root) == MergeIn(Walk(Tree(a.bs), root, FALSE), a)
MergeAll == Run([k \in 1 .. Len(Roots) |-> [a \in MergeState |-> MergeProfile(a, Roots[k])]],
                [ok |-> TRUE, stop |-> FALSE, bs |-> blocks])
MergeRules ==
  /\ phase = "merge"
  /\ blocks' = IF MergeAll.ok THEN MergeAll.bs ELSE blocks
  /\ phase' = IF MergeAll.ok THEN "done" ELSE "error"
  /\ UNCHANGED <<setup, open, chain, stmts, given, before>>

Finished == phase \in {"done", "error"} /\ UNCHANGED vars

Statement ==
  \/ \E f \in setup.files, p \in setup.prefixes : FileStmt(f, p)
  \/ \E p \in setup.prefixes : ChangeProfileStmt(p) \/ RuleStmt("ipc", p) \/ RuleStmt("all", p)
  \/ \E t \in AllTypes, p \in setup.prefixes : NetStmt(t, p)
  \/ \E c \in AllCaps, p \in setup.prefixes : CapStmt(c, p)
  \/ \E v \in setup.limits : RlimitStmt(v.l, v.v, v.unit)
Blocks == \/ OpenSub \/ OpenHat \/ \E val \in BOOLEAN : OpenIf(val) \/ OpenElse(val)
          \/ \E p \in setup.prefixes : CloseBlock(p)
          \/ CloseCond \/ CloseHat
Next == Statement \/ Blocks \/ EndProfile \/ AddImpliedRules \/ MergeRules \/ Finished
Spec == Init /\ [][Next]_vars

(***************************************************************************)
(* Properties                                                              *)
(***************************************************************************)
Parsed == phase = "implied"               \* every rule stands as its qualifiers left it

(* The qualifiers of a statement and of the blocks around it, inside out    *)
Around(s) == SelectSeq(Reverse(s.path), LAMBDA b : b \in DOMAIN given)
QuChain(s) == <<s.pre>> \o [k \in DOMAIN Around(s) |-> given[Around(s)[k]]]
QuOf(s, f) == {QuChain(s)[k][f] : k \in DOMAIN QuChain(s)} \ {"unspec"}
Denied(s) == "deny" \in QuOf(s, "mode")
Audited(s) == "force" \in QuOf(s, "audit")
DeniedOnce(s) == Cardinality({k \in DOMAIN QuChain(s) : QuChain(s)[k].mode = "deny"}) <= 1

(* The rule that statement n has become: entries are put in front, rules    *)
(* behind the others of the block.                                          *)
IsFile(s) == s.kind \in {"file", "cp"}
IsRule(s) == s.kind \in {"ipc", "net", "all"}
Home(n) == Last(stmts[n].path)
RuleOf(n) ==
  LET same(m) == stmts[m].path = stmts[n].path /\ (IF IsFile(stmts[n]) THEN IsFile(stmts[m]) ELSE IsRule(stmts[m]))
      k == Cardinality({m \in 1 .. n : same(m)})
      fs == blocks[Home(n)].files
  IN  IF IsFile(stmts[n]) THEN fs[Len(fs) - k + 1] ELSE blocks[Home(n)].rules[k]
Quiet(e) == e.mode = "deny" /\ AuditEq(e.audit, "force")
Logged(e) == e.mode # "deny" /\ AuditEq(e.audit, "force")

(* Every rule ends up with the mode that it or a block around it was given, *)
(* with no permission that an owner qualifier took from it, and is logged   *)
(* or silent as they say together, provided that no plain deny is repeated  *)
(* around a denial (rule.h, parser_misc.c, block.cc add_prefix).            *)
QualifiersCombine ==
  Parsed => \A n \in {m \in DOMAIN stmts : IsFile(stmts[m]) \/ IsRule(stmts[m])} :
    LET s == stmts[n]
        e == RuleOf(n)
    IN  /\ {e.mode} \ {"unspec"} = QuOf(s, "mode")
        /\ Denied(s) /\ DeniedOnce(s) => Quiet(e) = ~Audited(s)
        /\ ~Denied(s) => Logged(e) = Audited(s)
        /\ s.kind = "file" => e.perms = s.what.perms \ ((IF "owner" \in QuOf(s, "owner") THEN OtherPerms ELSE {})
                                                        \union (IF "other" \in QuOf(s, "owner") THEN UserPerms ELSE {}))

(* Why parsing may fail: contradicting modes (but not on a capability),     *)
(* qualifiers that a rule or block may not have, exec qualifiers that do    *)
(* not fit, bad or repeated limits, and too many named transitions.         *)
Refused(n) ==
  LET s == stmts[n]
      around == Around(s)
      x == s.kind = "file" /\ s.what.perms \intersect ExecBits # {}
      typed == s.what.perms \intersect ExecType # {}
  IN  \/ Cardinality(QuOf(s, "mode")) > 1 /\ (IsFile(s) \/ IsRule(s))
      \/ QuOf(s, "owner") # {} /\ (IsRule(s) \/ s.kind = "cap" \/ (s.pre.owner # "unspec" /\ s.kind = "cp"))
      \/ s.pre.prio # 0 /\ (s.kind \in {"net", "all"} \/ (s.kind = "ipc" /\ around # <<>>))
      \/ x /\ ~typed /\ s.pre.mode # "deny"
      \/ x /\ typed /\ Denied(s) /\ Cardinality(QuOf(s, "owner")) < 2
      \/ s.kind = "rlimit" /\ (s.what.n = -1 \/ \E k \in DOMAIN around : given[around[k]] # NoPrefix)
ChosenBelow(s, d) == \A k \in DOMAIN s.path : k > d /\ blocks[s.path[k]].kind = "cond" => blocks[s.path[k]].set
Effective(s) == ChosenBelow(s, Len(blocks[Root(Last(s.path))].path))
LimitTwice ==
  \E m, n \in DOMAIN stmts :
    LET s == stmts[m]
        t == stmts[n]
        d == Len(LongestCommonPrefix({s.path, t.path}))
    IN  /\ m < n /\ s.kind = "rlimit" /\ t.kind = "rlimit" /\ s.what.l = t.what.l
        /\ ChosenBelow(s, d) /\ ChosenBelow(t, d) /\ Root(Home(m)) = Root(Home(n))
        /\ ~IsPrefix(t.path, s.path)
FullName(n) ==
  LET f == stmts[n].what
  IN  IF ~f.nt.ns /\ f.perms \intersect {"c", "oc"} # {} THEN [f.nt EXCEPT !.prof = ProfName(Root(Home(n)))] ELSE f.nt
Named == {n \in DOMAIN stmts : stmts[n].kind = "file" /\ stmts[n].what.nt # NoName}
Targets(root) == {FullName(n) : n \in {m \in Named : Root(Home(m)) = root}}
(* A policy is refused when, and only when, it contradicts itself.          *)
OnlyContradictionsRefused ==
  LET bad == \/ \E b \in DOMAIN given : given[b].prio # 0
             \/ LimitTwice
             \/ \E n \in DOMAIN stmts : Refused(n)
  IN  /\ Parsed => ~bad
      /\ phase = "error" /\ before = {} => bad \/ \E r \in Range(Roots) : Cardinality(Targets(r)) > ExecSlots

(* The tables of capabilities and socket types, which move up to the        *)
(* profile while blocks close: a name is denied if some statement denies it *)
(* and otherwise allowed if one names it, and logged if they all ask for it. *)
TableRight(t, kind, root, names) ==
  \A c \in names :
    LET on == {n \in DOMAIN stmts : /\ stmts[n].kind = kind /\ stmts[n].what = c /\ Effective(stmts[n])
                                    /\ Root(Home(n)) = root}
        deny == \E n \in on : Denied(stmts[n])
    IN  /\ (c \in t.deny) = deny
        /\ on # {} /\ ~deny => c \in t.allow
        /\ on = {} => \A f \in DOMAIN t : c \notin t[f]
        /\ deny /\ (\A n \in on : Audited(stmts[n])) /\ (kind = "net" => \A n \in on : DeniedOnce(stmts[n]))
             => c \notin t.quiet
        /\ deny /\ (\A n \in on : ~Audited(stmts[n])) => c \in t.quiet
        /\ ~deny => (c \in t.audit) = \E n \in on : Audited(stmts[n])
TablesAgree ==
  Parsed => \A r \in Range(Roots) : /\ TableRight(blocks[r].caps, "cap", r, AllCaps)
                                    /\ TableRight(blocks[r].net, "net", r, AllTypes)

(* What blocks do to the rules, tables and qualifiers inside them is what   *)
(* the statements say together, and only a contradiction is refused.        *)
BlocksMean == QualifiersCombine /\ OnlyContradictionsRefused /\ TablesAgree

(* A limit set in a block or a chosen branch is the profile's, the last one *)
(* if a block around sets it again.                                         *)
LimitsReachProfile ==
  Parsed => \A r \in Range(Roots) :
    LET on(l) == {n \in DOMAIN stmts : /\ stmts[n].kind = "rlimit" /\ stmts[n].what.l = l /\ Effective(stmts[n])
                                       /\ Root(Home(n)) = r}
        ls == {stmts[n].what.l : n \in {m \in DOMAIN stmts : stmts[m].kind = "rlimit"}}
    IN  /\ blocks[r].rlimits.specified = {l \in ls : on(l) # {}}
        /\ \A l \in blocks[r].rlimits.specified : blocks[r].rlimits.limits[l] = stmts[Max(on(l))].what.n

(* Every named transition leads to the profile that the rule names.  Not    *)
(* claimed of other//file, which is taken for the profile's own child.      *)
TransitionsNamed ==
  Parsed => \A n \in Named :
    LET e == RuleOf(n)
        root == Root(Home(n))
        local == [ns |-> FALSE, prof |-> ProfName(root), tail |-> stmts[n].what.obj]
        at(i) == IF i = Local THEN local ELSE blocks[root].xtab[i - Local]
    IN  stmts[n].what.nt.prof \in {"", ProfName(root)} /\ Effective(stmts[n]) =>
          /\ "x" \in e.perms => at(e.xu) = FullName(n)
          /\ "ox" \in e.perms => at(e.xo) = FullName(n)

(* What is kept by number or name for a whole profile, its limits and its   *)
(* transitions, is what its blocks say wherever they say it                 *)
(* (block_rules::merge_block_rules, add_entry_to_x_table).                  *)
ProfileTables == LimitsReachProfile /\ TransitionsNamed

(* Merging duplicate rules changes no permission, no exec type, no mode and *)
(* no logging of the profile and its hats.                                  *)
MergeKeepsPolicy ==
  phase = "done" => \A s \in before : Policy(blocks, s[1]) = s[2]
=============================================================================
