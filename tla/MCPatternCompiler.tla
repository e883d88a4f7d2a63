------------------------- MODULE MCPatternCompiler -------------------------
EXTENDS ProfileRegex

A == CharNode(2)
B == CharNode(3)
NotNul == NotCharSetNode({0})
Name == NotCharSetNode({0, 1})

Rule(es, oob, pri, mode, perms, audit, tail) ==
  [exprs |-> es, oob |-> oob, pri |-> pri, mode |-> mode, perms |-> perms, audit |-> audit, tail |-> tail]
Reads(e) == Rule(<<e>>, FALSE, 0, "allow", {"r"}, {}, FALSE)

(* Trees for the simplifier: alternations of three and concatenations. *)
Parts == {A, Cat(A, B), Cat(Star(Name), B), Eps}
Trees == {Alt(x, Alt(y, z)) : x, y, z \in Parts}
           \union {Alt(Alt(x, Cat(Cat(A, B), A)), Cat(z, B)) : x, z \in Parts}
           \union {Cat(Alt(x, B), Plus(y)) : x \in Parts, y \in Parts \ {Eps}}
TreeRules == {<<Reads(t)>> : t \in Trees}

(* Permissions: an exact rule, a glob rule and sometimes a rule on all. *)
Flag(pri, mode, perms, audit) == [pri |-> pri, mode |-> mode, perms |-> perms, audit |-> audit]
FlagSet == {Flag(0, "allow", {"x", "i"}, {"x"}), Flag(0, "allow", {"r", "x", "p"}, {}),
            Flag(0, "deny", {"r", "x"}, {"r"}), Flag(1, "allow", {"x", "i", "ox", "op"}, {}),
            Flag(0, "deny", {"m", "cont"}, {"m"}), Flag(0, "prompt", {"r", "x", "i"}, {"r"}),
            Flag(-1, "deny", {"m"}, {})}
On(e, f) == Rule(<<e>>, FALSE, f.pri, f.mode, f.perms, f.audit, FALSE)
PermRules == {<<On(A, f), On(Name, g)>> : f, g \in FlagSet}
               \union {<<On(A, f), On(Name, g), On(NotNul, h)>> :
                         f, g \in FlagSet, h \in {Flag(0, "allow", {"x", "p"}, {}), Flag(0, "deny", {"m"}, {})}}

(* Separators and the tail of the attachment's extended attributes. *)
Vec(es, oob) == Rule(es, oob, 0, "allow", {"x"}, {}, FALSE)
TailOf(es) == Rule(es, FALSE, 0, "allow", {"x"}, {}, TRUE)
SeparatorRules ==
  {<<Vec(<<x, y>>, FALSE), Reads(z)>> : x, y \in {A, Star(Name)}, z \in {Star(NotNul), Alt(A, Cat(A, B))}}
    \union {<<Reads(x), TailOf(<<y>>)>> : x \in {A, Star(Name), Cat(A, Star(Name))}, y \in {B, Star(NotNul)}}
    \union {<<Reads(x), Vec(<<z>>, FALSE), TailOf(<<A>>), TailOf(<<A, y>>)>> :
              x \in {A, Cat(Star(Name), B)}, y \in {B, Star(NotNul)}, z \in {Cat(A, B), Star(A)}}

Opt(simple, vector, normal, left, permstable, filterDeny, minimize, unreachable, equiv, diff, high) ==
  [simple |-> simple, vector |-> vector, normal |-> normal, left |-> left, permstable |-> permstable,
   filterDeny |-> filterDeny, minimize |-> minimize, unreachable |-> unreachable, equiv |-> equiv,
   diff |-> diff, high |-> high]
Default == Opt(TRUE, TRUE, TRUE, FALSE, TRUE, TRUE, TRUE, FALSE, FALSE, TRUE, FALSE)
OldRight == Opt(TRUE, FALSE, TRUE, FALSE, FALSE, TRUE, TRUE, TRUE, FALSE, TRUE, TRUE)
OldLeft == Opt(TRUE, FALSE, FALSE, TRUE, TRUE, FALSE, FALSE, TRUE, FALSE, FALSE, TRUE)
Off == Opt(FALSE, FALSE, FALSE, FALSE, FALSE, FALSE, FALSE, FALSE, FALSE, FALSE, FALSE)
Classes == Opt(TRUE, TRUE, TRUE, FALSE, TRUE, TRUE, TRUE, FALSE, TRUE, TRUE, FALSE)
NoSeparator == {<<Reads(Cat(A, Star(x))), Vec(<<A, y>>, FALSE)>> : x \in {Name, B}, y \in {B, NotNul}}
With(rs, os, f) == [rules : rs, opts : os, file : {f}]
MCInputs == With(TreeRules, {Default, OldRight, OldLeft}, FALSE)
              \union With(PermRules, {Default}, TRUE)
              \union With(SeparatorRules, {Default, Off}, FALSE)
              \union With(NoSeparator, {Classes}, FALSE)

(* Globs: every pair of fragments, pairs that start with a wildcard under a *)
(* slash, and some more.                                                    *)
T(s) == [i \in 1 .. Len(s) |-> SubSeq(s, i, i)]
Fragments == {T(s) : s \in {"/", "p", "*", "**", "?", "[pq]", "[^p]", "[p-q]", "{p,q}", "{p,}", "{q,{/,*}}",
                            "\\*", "\\\\", ",", ".", "{", "}", "]", "[", "\\{"}}
Wild == {T(s) : s \in {"*", "**", "?", "{p,}", "{q,{/,*}}"}}
More == {T(s) : s \in {"//p", "///p//*/", "p*/", "/{p,{q,{/,p}}}", "{p,q", "/p\\", "[]", "[^]", "[p-]", "[-p]", "[^^p]",
                       "[\\]p]", "[\\,p]", "[p*]", "[\\^p]", "[[p]", "{{p,q}}", "{p}", "***/", "/\\0p", "[.p]*"}}
FileRule(name, perms, mode) == [name |-> name, perms |-> perms, mode |-> mode, pri |-> 0, audit |-> FALSE,
                             link |-> None, subset |-> FALSE, onexec |-> None]
FileJob(es) == [kind |-> "file", opts |-> Default, entries |-> es, stacking |-> TRUE]
GlobJobs == {FileJob(<<FileRule(g, {"r"}, "allow")>>) :
               g \in {x \o y : x, y \in Fragments} \union {<<"/">> \o x \o y : x \in Wild, y \in Fragments} \union More}

(* Links: two rules about the same names. *)
Both == {"l", "ol"}
LinkRule(name, link, subset, mode, perms) == [FileRule(name, perms, mode) EXCEPT !.link = link, !.subset = subset]
LinkRuleSeq == <<LinkRule(T("/p"), None, FALSE, "allow", Both), LinkRule(T("/*"), T("/**"), FALSE, "allow", {"l", "r"}),
                 LinkRule(T("/*"), T("/q"), TRUE, "allow", Both), LinkRule(T("/*"), None, FALSE, "deny", {"l", "r"}),
                 LinkRule(T("/p"), T("/q"), FALSE, "deny", Both), LinkRule(T("//p"), T("/{p"), FALSE, "deny", Both)>>
LinkJobs == UNION {{FileJob(<<LinkRuleSeq[i], LinkRuleSeq[j]>>) : j \in i .. 6} : i \in 1 .. 6}

(* change_profile, with and without namespaces and stacking. *)
ChangeRule(name, onexec, perms) == [FileRule(name, {"c"} \union perms, "allow") EXCEPT !.onexec = onexec]
ChangeRuleSet == {ChangeRule(T("p"), None, {}), ChangeRule(T("*"), T("/p"), {"x"}), ChangeRule(T(":p:q"), T("/*"), {}),
                  ChangeRule(T(":p"), None, {}), ChangeRule(T("&p"), None, {}), ChangeRule(T("q"), T("/p"), {})}
ChangeJobs == {[FileJob(<<a>>) EXCEPT !.stacking = s] : a \in ChangeRuleSet, s \in BOOLEAN}
                \union {FileJob(<<ChangeRule(T("q"), T("/p"), {}), ChangeRule(T("p"), T("/q"), {})>>)}

Attach(name, attachment, alts, xattrs, supported) ==
  [kind |-> "attach", opts |-> Default, name |-> name, attachment |-> attachment, alts |-> alts, xattrs |-> xattrs,
   supported |-> supported]
AttachJobs == {Attach(T("p///*"), None, <<>>, <<>>, TRUE)} \union
              {Attach(T("/p"), a, alts, xs, sup) : a \in {None, T("//p"), T("/{p,q}"), T("/[p")},
                 alts \in {<<>>, <<T("/q*")>>}, xs \in {<<>>, <<None>>, <<T("p"), None>>}, sup \in BOOLEAN}

(* The policydb: a rule to allow something and one to deny it. *)
Policy(class, fields, perms, mode, pri) == [class |-> class, fields |-> fields, perms |-> perms, mode |-> mode, pri |-> pri, audit |-> FALSE]
Dbus(f, g) == <<f, g, None, f, None, g>>
PolicyRules(f, g) ==
  {<<"dbus", Dbus(f, g), p>> : p \in {{"m"}, {"x", "r"}, {"l"}}}
    \union {<<c, <<f, g>>, p>> : c \in {"posix", "sysv", "mqueue"}, p \in {{"r", "m"}, {"r", "l"}}}
    \union {<<"ptrace", <<g>>, {"r"}>>, <<"signal", <<f, g>>, {"x", "r"}>>, <<"userns", <<>>, {"m"}>>, <<"io_uring", <<g>>, {"m"}>>}
ClassJob(rs, classes, confined) == [kind |-> "class", opts |-> Default, policy |-> rs, classes |-> classes, confined |-> confined]
Features(class) == IF class \in {"posix", "sysv", "mqueue"} THEN {"posix", "sysv"} ELSE {class}
ClassJobs == {ClassJob(rs, cs, confined) :
                rs \in {<<Policy(x[1], x[2], x[3], "allow", 0), Policy(x[1], x[2], x[3], "deny", 1000)>> :
                          x \in UNION {PolicyRules(f, g) : f, g \in {None, T("p")}}},
                cs \in {{}, {"dbus"}, {"ptrace"}, {"signal"}, {"posix", "sysv"}, {"userns"}, {"io_uring"}},
                confined \in BOOLEAN}
(* Mount rules: every kind of options, alone and with names and types. *)
Cond(comp, vals) == [comp |-> comp, vals |-> vals]
Mount(keyword, conds, mnt, dev, types, mode, pri) ==
  [class |-> "mount", keyword |-> keyword, conds |-> conds, fields |-> <<mnt, dev>>, types |-> types,
   mode |-> mode, pri |-> pri, audit |-> FALSE]
CondSeqs == {<<>>, <<Cond("=", <<"ro">>)>>, <<Cond("=", <<"ro", "rw">>)>>, <<Cond("=", <<"foo">>)>>,
             <<Cond("=", <<"rw">>)>>, <<Cond("in", <<"ro", "nosuid">>)>>, <<Cond("in", <<"rw">>), Cond("in", <<"nosuid">>)>>,
             <<Cond("in", <<"ro", "suid">>)>>, <<Cond("=", <<"ro">>), Cond("in", <<"nosuid">>)>>,
             <<Cond("=", <<"ro">>), Cond("=", <<"remount">>)>>, <<Cond("=", <<"rbind">>)>>,
             <<Cond("=", <<"rprivate">>), Cond("in", <<"ro">>)>>, <<Cond("=", <<"move">>)>>,
             <<Cond("=", <<"remount", "bind">>)>>, <<Cond("in", <<"bind", "ro">>)>>}
Commands == {<<>>, <<Cond("=", <<"rbind">>)>>, <<Cond("=", <<"remount", "bind">>)>>}
MountRules == {Mount("mount", cs, T("p"), None, <<>>, "allow", 0) : cs \in CondSeqs}
                \union {Mount("mount", cs, None, T("p"), <<>>, "allow", 0) : cs \in CondSeqs \ {<<>>}}
                \union {Mount("mount", cs, T("p"), dv, <<>>, "allow", 0) : cs \in Commands, dv \in {T("//"), Detached}}
                \union {Mount("mount", cs, None, None, <<T("p"), T("q*")>>, "allow", 0) : cs \in Commands}
                \union {Mount("remount", cs, T("p"), None, <<>>, "allow", 0) : cs \in CondSeqs}
                \union {Mount(k, <<>>, m, T("p"), <<>>, "deny", 1000) : k \in {"umount", "pivotroot"}, m \in {None, T("p")}}
MountJobs == {ClassJob(<<r>>, {"mount"}, TRUE) : r \in MountRules}
               \union {ClassJob(<<Mount("mount", <<Cond("=", <<"ro">>)>>, None, None, <<>>, "allow", 0)>>, {}, TRUE)}
MCJobs == GlobJobs \union LinkJobs \union MountJobs \union ChangeJobs \union AttachJobs
            \union {ClassJob(<<>>, {"file", "mount", "unix"}, TRUE)}
            \union {j \in ClassJobs : /\ j.classes \in {{}, Features(j.policy[1].class)}
                                      /\ j.confined \/ j.classes \subseteq {"ptrace", "userns"}}
=============================================================================
