------------------------------- MODULE Prefix -------------------------------
(***************************************************************************)
(* Qualifiers of rules and blocks: the classes prefixes and prefix_rule_t  *)
(* of rule.h, the file entries of parser_misc.c and the bit tables of      *)
(* capabilities and of network rules for old kernels.                      *)
(***************************************************************************)
EXTENDS Integers, Sequences, FiniteSets

Audits == {"unspec", "force", "implied"}
Modes == {"unspec", "allow", "deny", "prompt"}
Owners == {"unspec", "owner", "other"}
PrefixRecs == [prio : Int, audit : Audits, mode : Modes, owner : Owners]
NoPrefix == [prio |-> 0, audit |-> "unspec", mode |-> "unspec", owner |-> "unspec"]

(* internal_audit_t::operator==: IMPLIED passes for FORCE. *)
AuditEq(a, b) == IF b = "force" THEN a \in {"force", "implied"} ELSE a = b

(* valid_prefix of the kinds of rules and of blocks *)
ValidPrefix(kind, p) ==
  /\ kind \in {"net", "all", "block"} => p.prio = 0
  /\ kind # "block" => p.owner = "unspec"

(* Mutant: every denial is a quiet one. *)
ImpliedAudit_quiet(r, p) ==
  IF p.mode = "deny" THEN [r EXCEPT !.mode = "deny", !.audit = "implied"]
  ELSE IF p.audit # "unspec" THEN [r EXCEPT !.audit = p.audit] ELSE r

(* The modifier that a prefix implies: deny with audit is a logged denial,  *)
(* deny alone a quiet one (IMPLIED).                                        *)
ImpliedAudit(r, p) ==
  IF (p.mode = "deny" \/ r.mode = "deny") /\ (p.audit = "force" \/ r.audit = "force")
  THEN [r EXCEPT !.mode = "deny", !.audit = "unspec"]
  ELSE IF p.mode = "deny" THEN [r EXCEPT !.mode = "deny", !.audit = "implied"]
  ELSE IF p.audit # "unspec" THEN [r EXCEPT !.audit = p.audit]
  ELSE r

ModeConflict(r, p) == p.mode # "unspec" /\ r.mode \notin {"unspec", p.mode}
AuditConflict(r, p) ==
  p.audit # "unspec" /\ r.audit \notin {"unspec", "implied"} /\ ~AuditEq(r.audit, p.audit)
OwnerConflict(r, p) == p.owner # "unspec" /\ r.owner \notin {"unspec", p.owner}
Given(new, old) == IF new = "unspec" THEN old ELSE new

(* prefix_rule_t::add_prefix: [ok, r] *)
AddPrefix(kind, r, p) ==
  [ok |-> /\ ValidPrefix(kind, p) /\ r.prio = 0
          /\ ~AuditConflict(r, p) /\ ~ModeConflict(r, p) /\ ~OwnerConflict(r, p),
   r |-> ImpliedAudit([r EXCEPT !.prio = p.prio, !.mode = Given(p.mode, @), !.owner = Given(p.owner, @)], p)]

(***************************************************************************)
(* File entries                                                            *)
(***************************************************************************)
UserPerms == {"r", "w", "x", "i", "p", "c"}
OtherPerms == {"or", "ow", "ox", "oi", "op", "oc"}
SharedPerms == {"cp"}                     \* change_profile
ExecBits == {"x", "ox"}
ExecType == {"i", "p", "c", "oi", "op", "oc"}

CheckXQualifier(e) ==
  e.perms \intersect ExecBits # {} =>
    (e.mode = "deny" <=> e.perms \intersect ExecType = {})

(* An entry's xu and xo are the index bits of its permissions, AA_EXEC_MODIFIERS *)
(* for the user and for others.                                             *)

(* generic_add_prefix; a later priority replaces an earlier one *)
GenericAddPrefix(e, p) ==
  [ok |-> ~ModeConflict(e, p) /\ ~AuditConflict(e, p),
   r |-> ImpliedAudit([e EXCEPT !.mode = Given(p.mode, @), !.prio = IF p.prio # 0 THEN p.prio ELSE @], p)]

EntryAddPrefix(e, p) ==
  LET g == GenericAddPrefix(e, p)
      f == [g.r EXCEPT !.perms = CASE p.owner = "owner" -> @ \ OtherPerms
                                   [] p.owner = "other" -> @ \ UserPerms
                                   [] OTHER -> @,
                        !.xu = IF p.owner = "other" THEN 0 ELSE @, !.xo = IF p.owner = "owner" THEN 0 ELSE @]
  IN  [ok |-> g.ok /\ CheckXQualifier(f), r |-> f]

IsMergedXConsistent(e, f) ==
  /\ "x" \in e.perms \intersect f.perms =>
       e.perms \intersect {"i", "p", "c"} = f.perms \intersect {"i", "p", "c"} /\ e.xu = f.xu
  /\ "ox" \in e.perms \intersect f.perms =>
       e.perms \intersect {"oi", "op", "oc"} = f.perms \intersect {"oi", "op", "oc"} /\ e.xo = f.xo

(***************************************************************************)
(* Bit tables: capabilities, and the socket types of network rules for     *)
(* kernels without network rules in the policydb                           *)
(***************************************************************************)
Tables(S) == [allow : SUBSET S, audit : SUBSET S, deny : SUBSET S, quiet : SUBSET S]
NoTable == [allow |-> {}, audit |-> {}, deny |-> {}, quiet |-> {}]
Join(t, u) == [f \in DOMAIN t |-> t[f] \union u[f]]

AddCapabilities(t, p, set) ==
  Join(t, IF p.mode = "deny"
          THEN [NoTable EXCEPT !.deny = set, !.quiet = IF AuditEq(p.audit, "force") THEN {} ELSE set]
          ELSE [NoTable EXCEPT !.allow = set, !.audit = IF p.audit = "unspec" THEN {} ELSE set])

(* update_compat_net and add_compat_net of a network rule *)
AddCompatNet(t, p, set) ==
  Join(t, IF p.mode = "deny"
          THEN [NoTable EXCEPT !.deny = set, !.quiet = IF AuditEq(p.audit, "force") THEN {} ELSE set]
          ELSE [NoTable EXCEPT !.allow = set, !.audit = IF AuditEq(p.audit, "force") THEN set ELSE {}])

(* A prefix reclassifies the four groups of a table.                        *)
Groups(t) == [allowPlain |-> (t.allow \ t.audit) \ t.deny, allowAudit |-> (t.allow \intersect t.audit) \ t.deny,
              denyQuiet |-> t.deny \intersect t.quiet, denyAudit |-> t.deny \ t.quiet]
PrefixGroups(t, p) ==
  LET g == Groups(t)
      force == AuditEq(p.audit, "force")
      allow == g.allowPlain \union g.allowAudit
      deny == g.denyQuiet \union g.denyAudit
  IN  IF p.mode = "unspec" /\ p.audit = "unspec" THEN t
      ELSE IF p.mode = "deny"
      THEN [NoTable EXCEPT !.deny = allow \union deny,
                           !.quiet = IF force THEN {} ELSE g.allowPlain \union g.denyQuiet]
      ELSE [allow |-> allow, deny |-> deny, audit |-> IF force THEN allow ELSE g.allowAudit,
            quiet |-> IF force THEN {} ELSE g.denyQuiet]

(* capabilities::add_prefix and network_rule::apply_compat_prefix           *)
CapsAddPrefix(t, p) == [ok |-> t = NoTable \/ p.owner = "unspec", r |-> PrefixGroups(t, p)]
ApplyCompatPrefix(t, p) == PrefixGroups(t, p)
=============================================================================
