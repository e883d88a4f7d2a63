----------------------------- MODULE RuleClass -----------------------------
(***************************************************************************)
(* gen_policy_re of the rule classes that become patterns of the policydb: *)
(* dbus, ptrace, signal, message queues, user namespaces and io_uring, and *)
(* the rules process_profile_policydb adds to show what is mediated.       *)
(*                                                                         *)
(* A rule is [class, fields, perms, mode, pri, audit]; a field is a glob   *)
(* or None.  Of the permissions of every class the model keeps a few.      *)
(***************************************************************************)
EXTENDS AaRegex

MaxInternalPriority == 1001
MinInternalPriority == -1001

(* aare_rules::add_rule_vec: parse every part, and stop at the first that   *)
(* cannot be.  acc: the rules so far, and how it went.                      *)
AddParsed(acc, parse, text) ==
  LET bad == SelectSeq(parse, LAMBDA r : r.res # "ok")
  IN  IF acc.res # "ok" THEN acc
      ELSE IF bad # <<>> THEN [acc EXCEPT !.res = bad[1].res]
      ELSE [acc EXCEPT !.rules = Append(@, [exprs |-> Each(LAMBDA r : r.n, parse), oob |-> text.oob,
                                            pri |-> text.flag.pri, mode |-> text.flag.mode,
                                            perms |-> text.flag.perms, audit |-> text.flag.audit,
                                            tail |-> text.tail])]
AddRuleVec(acc, text) == AddParsed(acc, Each(RegexParse, text.texts), text)

(* What a rule writes: the texts it hands to add_rule_vec, in order, and    *)
(* whether it then gives up.  RulesOf is what becomes of them.              *)
Nothing == [texts |-> <<>>, res |-> "ok"]
NoConvert == [texts |-> <<>>, res |-> "error"]
GiveUp(acc) == [acc EXCEPT !.res = "error"]
RulesOf(acc) ==
  LET added == FoldLeft(AddRuleVec, [rules |-> <<>>, res |-> "ok"], acc.texts)
  IN  IF acc.res = "ok" THEN added ELSE [added EXCEPT !.res = IF @ = "ok" THEN "error" ELSE @]

FlagFor(r, perms) == [pri |-> r.pri, mode |-> r.mode, perms |-> perms, audit |-> IF r.audit THEN perms ELSE {}]
Mediates(pri) == [pri |-> pri, mode |-> "allow", perms |-> {"r"}, audit |-> {}]
AddText(acc, texts, oob, flag, tail) ==
  [acc EXCEPT !.texts = Append(@, [texts |-> texts, oob |-> oob, flag |-> flag, tail |-> tail])]
AddIf(ok, acc, texts, flag) == IF ok THEN AddText(acc, texts, FALSE, flag, FALSE) ELSE acc

ClassByte == <<"\\", "C">>
LabelByte == <<"\\", "L">>
AllValid(cs) == \A i \in DOMAIN cs : cs[i].type # "Invalid"
Pcres(cs) == Each(LAMBDA c : c.pcre, cs)

(* dbus_rule: fields bus, name, peer label, path, interface and member; the *)
(* permissions bind (m), send and receive (x, r) and eavesdrop (l) need 2,  *)
(* all and 1 of them.                                                       *)
DbusWith(r, cs) ==
  LET add(acc, P, n) == AddIf(P \intersect r.perms # {}, acc, SubSeq(Pcres(cs), 1, n), FlagFor(r, P \intersect r.perms))
  IN  IF AllValid(cs) THEN add(add(add(Nothing, {"m"}, 2), {"x", "r"}, 6), {"l"}, 1) ELSE NoConvert
DbusRule(r) ==
  DbusWith(r, [i \in 1 .. 6 |-> ConvertEntry(IF i = 1 THEN ClassByte ELSE <<>>, r.fields[i], DefaultMatch)] \o <<>>)

(* ptrace_rule: with and without the byte for labels in front *)
PtraceRule(r) ==
  LET c == ConvertEntry(<<>>, r.fields[1], AnyoneMatch)
      text == <<"(">> \o LabelByte \o <<"|", ")">> \o ClassByte \o c.pcre
  IN  IF c.type = "Invalid" THEN NoConvert ELSE AddIf(TRUE, Nothing, <<text>>, FlagFor(r, r.perms))

(* signal_rule: fields signals and peer label; no signals is all of them,   *)
(* and a rule for labels as well.                                           *)
SignalRule(r) ==
  LET c == ConvertEntry(<<>>, r.fields[2], AnyoneMatch)
      which == IF r.fields[1] = None
               THEN <<"(">> \o LabelByte \o ClassByte \o <<"|">> \o ClassByte \o <<".", ")">>
               ELSE ClassByte \o <<"[">> \o r.fields[1] \o <<"]">>
  IN  IF c.type = "Invalid" THEN NoConvert
      ELSE AddIf(TRUE, Nothing, <<which \o c.pcre>>, FlagFor(r, r.perms))

(* One of the two parts of mqueue_rule: the permissions at the name when no *)
(* label is given, create (m) and what goes with it (r) at the name in any  *)
(* case, and all of them at the label.                                      *)
MqueuePart(acc, r, name, labelbuf) ==
  LET a == AddIf(r.fields[2] = None, acc, <<name>>, FlagFor(r, r.perms))
      b == AddIf("m" \in r.perms, a, <<name>>, FlagFor(r, r.perms \intersect {"m", "r"}))
  IN  AddIf(TRUE, b, <<name, labelbuf>>, FlagFor(r, r.perms))

(* mqueue_rule: fields name and label.  The posix part is at the class      *)
(* byte, the sysv part (a key of fixed size) at the other; both write the   *)
(* label into the same buffer, which is not cleared in between.             *)
MqueueRule(r) ==
  LET posix == r.class # "sysv"
      sysv == r.class # "posix"
      name == ConvertEntry(ClassByte, r.fields[1], DefaultMatch)
      key == IF r.fields[1] = None THEN LabelByte \o <<".">> ELSE LabelByte \o r.fields[1]
      label(buf) == IF r.fields[2] = None THEN [pcre |-> AnyoneMatch, type |-> "Regex"]
                    ELSE Convert(buf, r.fields[2], "default")
      first == label(<<>>)
      second == label(IF posix /\ r.fields[2] # None THEN first.pcre ELSE <<>>)
      acc == IF posix THEN MqueuePart(Nothing, r, name.pcre, first.pcre) ELSE Nothing
  IN  IF AllValid(<<first>>) /\ (posix => AllValid(<<name>>))
      THEN IF sysv THEN MqueuePart(acc, r, key, second.pcre) ELSE acc
      ELSE NoConvert

(* userns_rule and io_uring_rule: the permissions are on the class byte     *)
(* itself, so a rule that shows the class as mediated comes with each, at   *)
(* its priority.  Overriding credentials (m) is also matched by label.      *)
OnClass(r) ==
  AddIf(TRUE, AddIf(TRUE, Nothing, <<ClassByte>>, FlagFor(r, r.perms)), <<ClassByte>>, Mediates(r.pri))
IoUringRule(r) ==
  LET c == ConvertEntry(ClassByte, r.fields[1], DefaultMatch)
  IN  IF c.type = "Invalid" THEN NoConvert
      ELSE AddIf("m" \in r.perms, OnClass(r), <<c.pcre>>, FlagFor(r, r.perms))

GenPolicyRe(r) == CASE r.class = "dbus" -> DbusRule(r)
                    [] r.class = "ptrace" -> PtraceRule(r)
                    [] r.class = "signal" -> SignalRule(r)
                    [] r.class \in {"posix", "sysv", "mqueue"} -> MqueueRule(r)
                    [] r.class = "userns" -> OnClass(r)
                    [] r.class = "io_uring" -> IoUringRule(r)

(***************************************************************************)
(* process_profile_policydb: a readable state at the byte of every class   *)
(* the kernel mediates, at a priority no rule of the policy can have, or   *)
(* at one every rule has where the permissions are on the byte itself.     *)
(***************************************************************************)
(* Mutant: at the priority of an ordinary rule. *)
MediatesPriority_zero(class) == IF class \in {"userns", "io_uring"} THEN MinInternalPriority ELSE 0
MediatesPriority(class) == IF class \in {"userns", "io_uring"} THEN MinInternalPriority ELSE MaxInternalPriority
(* Sockets have a second place, behind the family AF_UNIX. *)
MediatesTexts(class) ==
  CASE class = "sysv" -> <<LabelByte>>
    [] class = "unix" -> <<ClassByte, ClassByte \o Quoted("0") \o LabelByte>>
    [] OTHER -> <<ClassByte>>
PolicyDb(acc, classes, confined) ==
  LET mediates(a, class) ==
        FoldLeft(LAMBDA b, text : AddIf(confined \/ class = "userns", b, <<text>>, Mediates(MediatesPriority(class))),
                 a, MediatesTexts(class))
  IN  FoldLeft(mediates, acc, SetToSeq(classes))

(***************************************************************************)
(* Reference: the strings the kernel looks up for a request, and what a    *)
(* rule says about it.                                                     *)
(***************************************************************************)
MediatedWords(class) == LET texts == MediatesTexts(class)
                        IN  {[j \in 1 .. Len(texts[i]) \div 2 |-> Code(texts[i][2 * j])] : i \in DOMAIN texts}
(* The strings are kept short: a field of a request is one character.       *)
FieldMatch(f, w) == IF f = None THEN w # <<NUL>> ELSE GlobMatch(f, w, "default")
C == Meta
L == Slash
JoinNul(ws) == FoldLeft(LAMBDA l, w : l \o <<NUL>> \o w, ws[1], Tail(ws))
Request(word, grants) == [word |-> word, grants |-> grants]
MediatedBy(r) == IF r.class = "mqueue" THEN {"posix", "sysv"} ELSE {r.class}
Values == {<<2>>, <<3>>}

(* What rule r, alone, grants to every request of its class. *)
DbusRequests(r) ==
  LET ok(f, n) == \A i \in 1 .. n : FieldMatch(r.fields[i], f[i])
      of(f, n, P) == Request(JoinNul(<<<<C>> \o f[1]>> \o SubSeq(f, 2, n)), IF ok(f, n) THEN r.perms \intersect P ELSE {})
  IN  UNION {{of(f, 2, {"m"}), of(f, 6, {"x", "r"}), of(f, 1, {"l"})} : f \in [1 .. 6 -> Values]}
PeerRequests(r, prefixes, ok(_)) ==
  {Request(pre \o v, IF ok(pre) /\ FieldMatch(r.fields[Len(r.fields)], v) THEN r.perms ELSE {}) :
     pre \in prefixes, v \in Values}
SignalRequests(r) ==
  PeerRequests(r, {<<C, s>> : s \in {2, 3}} \union {<<L, C>>},
               LAMBDA pre : r.fields[1] = None \/ (pre[1] = C /\ Code(r.fields[1][1]) = pre[2]))
(* A request for a queue is checked at its name and, once it has a label,   *)
(* at the label.  The labels of a sysv part that follows a posix part are   *)
(* left out: see MqueueRule.                                                *)
MqueueRequests(r) ==
  LET parts == (IF r.class # "sysv" THEN {C} ELSE {}) \union (IF r.class # "posix" THEN {L} ELSE {})
      create == IF "m" \in r.perms THEN r.perms \intersect {"m", "r"} ELSE {}
      at(c, v) == Request(<<c>> \o v, IF ~FieldMatch(r.fields[1], v) THEN {}
                                      ELSE IF r.fields[2] = None THEN r.perms ELSE create)
      under(c, v, l) == Request(<<c>> \o v \o <<NUL>> \o l,
                                IF FieldMatch(r.fields[1], v) /\ FieldMatch(r.fields[2], l) THEN r.perms ELSE {})
      doubled(c) == c = L /\ r.class = "mqueue" /\ r.fields[2] # None
  IN  {at(c, v) : c \in parts, v \in Values}
        \union {under(c, v, l) : c \in {d \in parts : ~doubled(d)}, v \in Values, l \in Values}
(* On the class byte the read bit says that the class is mediated.          *)
OnClassRequests(r) ==
  {Request(<<C>>, r.perms \union {"r"})}
    \union {Request(<<C>> \o v, IF r.class = "io_uring" /\ "m" \in r.perms /\ FieldMatch(r.fields[1], v) THEN r.perms ELSE {}) :
              v \in Values}

Requests(r) == CASE r.class = "dbus" -> DbusRequests(r)
                 [] r.class = "ptrace" -> PeerRequests(r, {<<C>>, <<L, C>>}, LAMBDA pre : TRUE)
                 [] r.class = "signal" -> SignalRequests(r)
                 [] r.class \in {"posix", "sysv", "mqueue"} -> MqueueRequests(r)
                 [] OTHER -> OnClassRequests(r)
=============================================================================
