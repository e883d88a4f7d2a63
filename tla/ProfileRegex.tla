---------------------------- MODULE ProfileRegex ----------------------------
(***************************************************************************)
(* process_profile_rules (parser_regex.c): the file rules of a profile, its *)
(* name and attachment, and its policydb rules are written as patterns,    *)
(* one after the other, and each of the three rule sets is compiled.  A    *)
(* job is one of the three, or a list of rules that is there already.      *)
(***************************************************************************)
EXTENDS PatternCompiler, MountRule

CONSTANT Jobs

VARIABLES job, did
pvars == <<job, did>>

LinkBits == {"l", "ol"}
DefaultLink == <<"/", "[", "^", "/", "]", ".", "*">>
AnyExec == <<"/">> \o NotSlash("default") \o AnyRun("default")

(* LINK_TO_LINK_SUBSET: only the owner's bit has a subset bit.              *)
LinkSubset(perms) == IF "l" \in perms THEN {"s"} ELSE {}

(* _parse_label: [&][:ns:[//]]name *)
InNamespace(stack, l, end) ==
  LET after == SubSeq(l, end + 1, Len(l))
      slashes == Len(after) >= 2 /\ SubSeq(after, 1, 2) = <<"/", "/">>
      parts == <<SubSeq(l, 2, end - 1), IF slashes THEN SubSeq(after, 3, Len(after)) ELSE after>>
  IN  [ok |-> parts[1] # <<>> /\ parts[2] # <<>>, stack |-> stack, parts |-> parts]
LabelParts(stack, l) ==
  IF l = <<>> \/ l[1] # ":" THEN [ok |-> l # <<>>, stack |-> stack, parts |-> <<l>>]
  ELSE InNamespace(stack, l, Min({i \in 2 .. Len(l) : l[i] = ":"} \union {Len(l) + 1}))
ParseLabel(label) ==
  IF label # <<>> /\ label[1] = "&" THEN LabelParts(TRUE, Tail(label)) ELSE LabelParts(FALSE, label)

(* The two or three rules of process_dfa_entry for the parts of an entry.   *)
(* Mutant: a deny rule with the link bit masks the first half of the pair.  *)
FilePart_links(e, acc, text) ==
  AddIf(e.perms \ {ChangeProfile} # {} /\ ChangeProfile \notin e.perms, acc, <<text>>, FlagFor(e, e.perms \ {ChangeProfile}))
FilePart(e, acc, text) ==
  LET perms == IF e.mode = "deny" THEN e.perms \ LinkBits ELSE e.perms
  IN  AddIf(perms # {} /\ ChangeProfile \notin e.perms, acc, <<text>>, FlagFor(e, perms))

LinkTo(e, acc, text, l) ==
  LET bits == e.perms \intersect LinkBits
      subset == IF e.link = None \/ e.subset THEN LinkSubset(bits) ELSE {}
  IN  IF l.type = "Invalid" THEN GiveUp(acc)
      ELSE AddIf(TRUE, acc, <<text, l.pcre>>, [FlagFor(e, bits) EXCEPT !.perms = @ \union subset])
LinkPart(e, acc, text) ==
  IF e.perms \intersect LinkBits = {} THEN acc
  ELSE LinkTo(e, acc, text, IF e.link = None THEN [pcre |-> DefaultLink, type |-> "Regex"]
                            ELSE Convert(<<>>, FilterSlashes(e.link), "default"))

OnexecRules(e, acc, exec, names) ==
  LET flag(perms) == [FlagFor(e, perms) EXCEPT !.audit = {}]
      a == AddIf(TRUE, acc, names, flag({ChangeProfile, Onexec}))
      b == AddIf(TRUE, a, <<exec>>, flag({Onexec}))
  IN  AddIf(TRUE, b, <<exec>> \o names, flag({Onexec} \union (e.perms \intersect ExecBits)))
ChangeTo(e, acc, x, label, stacking) ==
  IF x.type = "Invalid" \/ (~stacking /\ (~label.ok \/ label.stack)) THEN GiveUp(acc)
  ELSE OnexecRules(e, acc, x.pcre, label.parts)
ChangeProfilePart(e, acc, text, stacking) ==
  IF acc.res # "ok" \/ ChangeProfile \notin e.perms THEN acc
  ELSE ChangeTo(e, acc, IF e.onexec = None THEN [pcre |-> AnyExec, type |-> "Regex"] ELSE Convert(<<>>, e.onexec, "default"),
                IF stacking THEN [ok |-> TRUE, stack |-> FALSE, parts |-> <<text>>] ELSE ParseLabel(text), stacking)

EntryParts(e, t, stacking) ==
  IF t.type = "Invalid" THEN NoConvert
  ELSE ChangeProfilePart(e, LinkPart(e, FilePart(e, Nothing, t.pcre), t.pcre), t.pcre, stacking)
ProcessDfaEntry(e, stacking) ==
  EntryParts(e, Convert(<<>>, IF ChangeProfile \in e.perms THEN e.name ELSE FilterSlashes(e.name), "default"), stacking)

(* process_profile_name_xmatch.  Whether an alternative name or the value   *)
(* of an extended attribute could be converted is not looked at: the part   *)
(* that was written is used.                                                *)
Exec == [pri |-> 0, mode |-> "allow", perms |-> {"x"}, audit |-> {}]
XattrText(v) == Convert(Quoted("0"), IF v = None THEN <<"*", "*">> ELSE v, "null").pcre
RECURSIVE LocalName(_)
LocalName(name) ==
  LET at == {i \in 1 .. Len(name) - 1 : name[i] = "/" /\ name[i + 1] = "/"}
  IN  IF at = {} THEN name ELSE LocalName(SubSeq(name, Min(at) + 2, Len(name)))
MatchName(a) == IF a.attachment # None THEN a.attachment ELSE LocalName(a.name)
NamePatterns(a, t) ==
  LET alts == Each(LAMBDA n : Convert(<<>>, FilterSlashes(n), "default").pcre, a.alts)
  IN  FoldLeft(LAMBDA acc, n : AddIf(TRUE, acc, <<n>>, Exec), Nothing, <<t.pcre>> \o alts)
XattrPatterns(acc, xs) ==
  FoldLeft(LAMBDA l, i : AddText(l, SubSeq(xs, 1, i), TRUE, Exec, TRUE), acc, [i \in DOMAIN xs |-> i])
XmatchRules(a, t) ==
  IF t.type = "Invalid" THEN NoConvert
  ELSE IF t.type = "Basic" /\ a.alts = <<>> /\ a.attachment = None /\ a.xattrs = <<>> THEN Nothing
  ELSE IF ~a.supported THEN NamePatterns(a, t)
  ELSE XattrPatterns(NamePatterns(a, t), Each(XattrText, a.xattrs))
ProcessProfileNameXmatch(a) ==
  XmatchRules(a, Convert(<<>>, FilterSlashes(MatchName(a)), "default"))

(***************************************************************************)
(* The steps                                                               *)
(***************************************************************************)
Idle == /\ added = 0 /\ exprs = [tail |-> NoTrans, main |-> NoTrans] /\ plain = exprs
        /\ minlen = -1 /\ tree = Eps /\ d = Dfa0 /\ follow = {} /\ eq = NoTrans
        /\ enc = [expected |-> 0, saved |-> 0, count |-> 0] /\ todo = <<>>
        /\ chfa = [num |-> <<>>] /\ table = <<>>
PInit == /\ did = 0
         /\ \/ Init /\ job = [kind |-> "rules"]
            \/ /\ \E j \in Jobs : job = j /\ opts = j.opts /\ file = (j.kind = "file")
               /\ pc = "patterns" /\ rules = <<>> /\ addr = <<>> /\ Idle

(* What is written is added to the rules; an error ends the compile of the  *)
(* profile, and a lexer that does not advance never returns.                *)
Take(acc) == /\ rules' = rules \o acc.rules
             /\ pc' = CASE acc.res = "ok" -> pc [] acc.res = "error" -> "fail" [] acc.res = "hang" -> "hang"
             /\ did' = did + 1
             /\ UNCHANGED <<job, opts, addr, file, added, exprs, plain, minlen, tree, d, follow, eq, enc, todo, chfa, table>>
At_(kind) == pc = "patterns" /\ job.kind = kind

FileEntry == /\ At_("file") /\ did < Len(job.entries)
             /\ Take(RulesOf(ProcessDfaEntry(job.entries[did + 1], job.stacking)))
NameXmatch == /\ At_("attach") /\ did = 0
              /\ Take(RulesOf(ProcessProfileNameXmatch(job)))
Supported(r) == job.classes \intersect MediatedBy(r) # {}
ClassRule == /\ At_("class") /\ did < Len(job.policy)
             /\ LET r == job.policy[did + 1] IN Take(RulesOf(IF Supported(r) THEN RuleRe(r) ELSE Nothing))
Policydb == /\ At_("class") /\ did = Len(job.policy)
            /\ Take(RulesOf(PolicyDb(Nothing, job.classes, job.confined)))

Work == CASE job.kind = "file" -> Len(job.entries)
          [] job.kind = "attach" -> 1
          [] job.kind = "class" -> Len(job.policy) + 1

(* create_dfablob, unless there is nothing to compile                       *)
Compile == /\ pc = "patterns" /\ did = Work
           /\ addr' \in SetToSeqs(Flags(rules))
           /\ pc' = IF rules = <<>> THEN "none" ELSE "add"
           /\ UNCHANGED <<job, did, rules, opts, file, added, exprs, plain, minlen, tree, d, follow, eq, enc, todo, chfa, table>>
Ended == pc \in {"none", "hang"} /\ UNCHANGED <<vars, pvars>>

PNext == FileEntry \/ NameXmatch \/ ClassRule \/ Policydb \/ Compile \/ Ended \/ (Next /\ UNCHANGED pvars)
PSpec == PInit /\ [][PNext]_<<vars, pvars>>

(***************************************************************************)
(* Properties                                                              *)
(***************************************************************************)
Globs(e) == {e.name} \union ({e.link, e.onexec} \ {None})
JobGlobs == CASE job.kind = "file" -> UNION {Globs(job.entries[i]) : i \in DOMAIN job.entries}
              [] job.kind = "attach" -> {MatchName(job)} \union Range(job.alts)
              [] job.kind = "class" -> UNION {Range(job.policy[i].fields) \ {None} : i \in DOMAIN job.policy}
              [] job.kind = "rules" -> {}
Written == pc = "add" /\ added = 0
Plainly == \A g \in JobGlobs : ~LosesQuote(g)

(* The permissions the patterns of mode m give a string, the tail left out. *)
Gives(m, w) == UNION {rules[i].perms : i \in {k \in DOMAIN rules : /\ rules[k].mode = m /\ ~rules[k].tail
                                                                  /\ Matches(RuleTree(rules[k]), w)}}
(* Canonical text of a path: see the tests of filter_slashes. *)
Canon(g) == LET double == Len(g) >= 2 /\ SubSeq(g, 1, 2) = <<"/", "/">> /\ (Len(g) = 2 \/ g[3] # "/")
                keep == {i \in DOMAIN g : i = 1 \/ g[i] # "/" \/ g[i - 1] # "/" \/ (i = 2 /\ double)}
            IN  [k \in 1 .. Cardinality(keep) |-> g[CHOOSE i \in keep : Cardinality({j \in keep : j <= i}) = k]]
PathMatch(g, w) == GlobMatch(Canon(g), w, "default")
PathExcused(g, w) == StarAtGroup(Canon(g)) /\ LooseMatch(Canon(g), w, "default")

(* A glob that apparmor.d(5) allows is never refused, one that it does not  *)
(* is, and a glob matches what "Globbing (AARE)" says (process_dfa_entry,   *)
(* convert_aaregex_to_pcre, parse.y).  Two exceptions: a star beside a      *)
(* brace or a comma of { } may be nothing where it is a whole component     *)
(* (StarAtGroup), so such a glob matches more; and nothing is said of the   *)
(* globs that lose a quote inside a class.  The lexer never returns for a   *)
(* quoted comma in a class, and for nothing else.                           *)
Single == job.kind = "file" /\ Len(job.entries) = 1 /\ job.entries[1].perms = {"r"}
GlobsMean ==
  /\ pc = "hang" => \E g \in JobGlobs : QuotedComma(g)
  /\ Single /\ Plainly =>
       LET g == job.entries[1].name
       IN  /\ pc = "fail" /\ rules = <<>> => ~ValidGlob(Items(Canon(g)))
           /\ Written => /\ ValidGlob(Items(Canon(g)))
                         /\ \A w \in Words : "r" \in Gives("allow", w) <=> PathMatch(g, w) \/ PathExcused(g, w)

(* A link needs the link bit at the name of the link and at the pair of     *)
(* names: it has both exactly if an allow rule names the pair and no deny   *)
(* rule does, whatever else is denied about either name; and the owner's    *)
(* subset test is asked for unless a rule with a target goes without it     *)
(* (process_dfa_entry).                                                     *)
Links == {[from |-> u, to |-> v] : u, v \in {<<1, 2>>, <<1, 3>>}}
Pair(l) == l.from \o <<NUL>> \o l.to
Names(e, l) == PathMatch(e.name, l.from) /\ (e.link = None \/ PathMatch(e.link, l.to))
Allowed(w) == Gives("allow", w) \ Gives("deny", w)
LinkRules(m, bit) == {i \in DOMAIN job.entries : job.entries[i].mode = m /\ bit \in job.entries[i].perms}
LinksPaired ==
  job.kind = "file" /\ Written =>
    \A l \in Links : \A bit \in LinkBits :
      LET by(m) == {i \in LinkRules(m, bit) : Names(job.entries[i], l)}
          tested == \E i \in by("allow") : job.entries[i].link = None \/ job.entries[i].subset
      IN  /\ (bit \in Allowed(l.from) /\ bit \in Allowed(Pair(l))) <=> by("allow") # {} /\ by("deny") = {}
          /\ bit = "l" /\ by("deny") = {} => ("s" \in Allowed(Pair(l)) <=> tested)

(* A change of profile on exec needs the bit at the program and at program  *)
(* and name, one at once the bit at the name: a rule without a deny rule    *)
(* beside it permits exactly the names and programs it gives.               *)
Execs == {<<1, 2>>, <<1, 3>>}
Targets == {<<2>>, <<3>>, <<2, NUL, 3>>, <<Meta, 2, Meta, 3>>}
NameMatch(e, w) ==
  LET l == ParseLabel(e.name)
  IN  IF job.stacking THEN GlobMatch(e.name, w, "default")
      ELSE \E k \in 1 .. Len(w) + 1 :
             IF Len(l.parts) = 1 THEN GlobMatch(l.parts[1], w, "default")
             ELSE /\ k \in DOMAIN w /\ w[k] = NUL
                  /\ GlobMatch(l.parts[1], SubSeq(w, 1, k - 1), "default")
                  /\ GlobMatch(l.parts[2], SubSeq(w, k + 1, Len(w)), "default")
Changes == {i \in DOMAIN job.entries : ChangeProfile \in job.entries[i].perms}
ProfilesChange ==
  job.kind = "file" /\ Written /\ (\A i \in DOMAIN job.entries : job.entries[i].mode = "allow") =>
    \A t \in Targets :
      /\ ChangeProfile \in Gives("allow", t) <=> \E i \in Changes : NameMatch(job.entries[i], t)
      /\ \A x \in Execs :
           {Onexec} \subseteq Gives("allow", x) \intersect Gives("allow", x \o <<NUL>> \o t) <=>
             \E i \in Changes : /\ NameMatch(job.entries[i], t)
                                /\ job.entries[i].onexec = None \/ GlobMatch(job.entries[i].onexec, x, "default")

(* A profile attaches by pattern to the programs its attachment, else the   *)
(* last part of its name, or an alternative name matches; without a pattern *)
(* there is no automaton (process_profile_name_xmatch).  Attributes narrow  *)
(* what follows an out of band separator only.                              *)
Attaches ==
  job.kind = "attach" =>
    /\ Written =>
         \A w \in Words : InBand(w) => ("x" \in Gives("allow", w) <=> \E g \in JobGlobs : PathMatch(g, w))
    /\ pc = "none" => \A g \in JobGlobs : \A i \in DOMAIN g : g[i] \notin {"*", "?", "[", "{"}

(* What a policy says about paths, links, profiles and attachments is what  *)
(* the patterns written for it say.                                         *)
EntriesMean == GlobsMean /\ LinksPaired /\ ProfilesChange /\ Attaches

Given(alone, w) == UNION {alone[k].perms : k \in {j \in DOMAIN alone : Matches(RuleTree(alone[j]), w)}}
Finds(alone, r) == \A q \in RuleRequests(r) : Given(alone, q.word) = q.grants
(* A rule of the policydb is found by exactly the requests it is about and  *)
(* refused only if it contradicts itself.  Exceptions, for mount rules: one *)
(* with nothing but options in a list also grants the mount with no option  *)
(* at all (NoneListed), and a list also grants the flags it clears          *)
(* (ClearedSet); requests that are found by a source taken for a mount      *)
(* point are left out (SourceAsPoint), and so are rules whose command does  *)
(* not fit their other conditions (Misfit).  And whatever the rules deny,   *)
(* at any priority a policy may give, the byte of a mediated class leads to *)
(* a state that can be read: a class that cannot is taken for unmediated    *)
(* (gen_policy_re, process_profile_policydb).                               *)
ClassesMean ==
  job.kind = "class" =>
    /\ pc = "fail" => \E i \in DOMAIN job.policy : Refusable(job.policy[i])
    /\ Written =>
         /\ \A i \in DOMAIN job.policy : Finds(RulesOf(RuleRe(job.policy[i])).rules, job.policy[i])
         /\ \A class \in job.classes : job.confined \/ class = "userns" =>
              \A w \in MediatedWords(class) :
                "r" \in ApplyAndClearDeny(Together(RefFlags(w))).allow
=============================================================================
