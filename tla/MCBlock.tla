------------------------------ MODULE MCBlock ------------------------------
(* Small policies: each setup exercises one interplay of blocks and rules. *)
EXTENDS Block

P(a, m) == [NoPrefix EXCEPT !.audit = a, !.mode = m]
Owner == [NoPrefix EXCEPT !.owner = "owner"]
Other == [NoPrefix EXCEPT !.owner = "other"]
Prio == [NoPrefix EXCEPT !.prio = 1]
Deny == P("unspec", "deny")
Audit == P("force", "unspec")
F(obj, perms, nt) == [obj |-> obj, perms |-> perms \union {IF q = "r" THEN "or" ELSE IF q = "x" THEN "ox" ELSE
                       IF q = "i" THEN "oi" ELSE IF q = "p" THEN "op" ELSE "oc" : q \in perms}, nt |-> nt]
N(prof, tail) == [ns |-> FALSE, prof |-> prof, tail |-> tail]
L(l, v, unit) == [l |-> l, v |-> v, unit |-> unit]
S(kinds, prefixes, n, bs, nblocks, depth, files, limits) ==
  [kinds |-> kinds, prefixes |-> prefixes \union {NoPrefix}, stmts |-> n, blocks |-> bs, nblocks |-> nblocks,
   depth |-> depth, files |-> files, limits |-> limits]
Read == F("f", {"r"}, NoName)

Policies ==
  << \* qualifiers across two blocks and the rule
    S({"file", "ipc", "net", "cap"}, {Deny, Audit, P("force", "deny"), P("unspec", "allow")}, 1,
      {"block"}, 3, 3, {Read}, {}),
    \* qualifiers that not every rule may have
    S({"file", "cp", "ipc", "net", "cap", "all"}, {Owner, Other, Prio, P("unspec", "prompt"), Deny}, 1,
      {"block"}, 3, 3, {Read, F("f", {"x"}, NoName), F("f", {"x", "i"}, NoName)}, {}),
    \* tables and rules of two statements in blocks side by side and nested
    S({"net", "cap"}, {Deny, Audit}, 2, {"block"}, 2, 2, {}, {}),
    S({"file", "cap"}, {P("force", "deny"), Deny}, 2, {"block"}, 3, 3, {Read}, {}),
    \* conditionals and a hat
    S({"file", "cap"}, {Deny}, 2, {"block", "cond", "hat"}, 3, 3, {Read}, {}),
    S({"cap"}, {}, 2, {"cond"}, 4, 2, {}, {}),
    \* limits
    S({"rlimit"}, {}, 1, {}, 1, 1, {}, {L(l, v, u) : l \in {"nice", "nofile", "data", "cpu"}, v \in -3 .. 4 \union {Infinity},
                                                     u \in {"", "K", "s", "ms"}}),
    S({"rlimit"}, {Audit}, 3, {"block", "cond", "hat"}, 3, 3, {}, {L("nofile", 0, ""), L("nofile", 2, ""), L("cpu", 1, "s")}),
    \* named transitions, more than the table holds
    S({"file"}, {}, 3, {"hat"}, 2, 2, {F("f", {"x", "p"}, N("", "g")), F("f", {"x", "c"}, N("", "f")), F("f", {"x", "c"}, N("", "g")),
                                  F("f", {"x", "p"}, N("P", "f")), F("f", {"x", "p"}, N("P", "g")), F("f", {"x", "p"}, N("Q", "f")),
                                  F("f", {"x", "p"}, [ns |-> TRUE, prof |-> "", tail |-> "f"])}, {}),
    \* the index of a transition, and the qualifiers of a block around its hat
    S({"file"}, {Owner, Other}, 2, {"block", "hat"}, 3, 3, {Read, F("f", {"x", "p"}, N("", "g"))}, {}),
    \* rules that are merged, and exec rules that may not be
    S({"file", "ipc", "cp"}, {Owner, Deny}, 2, {"block"}, 2, 2, {Read, F("f", {"x", "i"}, NoName), F("f", {"x", "p"}, NoName)}, {}),
    S({"file"}, {}, 3, {"block"}, 2, 2, {Read, F("f", {"x", "i"}, NoName), F("f", {"x", "p"}, NoName)}, {}),
    S({"file", "all"}, {Deny, Audit}, 2, {"block"}, 2, 2, {Read}, {}) >>
MCSetups == Range(Policies)
=============================================================================
