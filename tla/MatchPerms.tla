----------------------------- MODULE MatchPerms -----------------------------
(***************************************************************************)
(* What a state of the automaton permits: the accept nodes of a state are  *)
(* combined bit by bit by priority (perms_t in hfa.cc), the deny bits are  *)
(* applied, and the result becomes an entry of the permission table        *)
(* (policy_compat.cc) or a pair of accept words.                           *)
(*                                                                         *)
(* A permission word is the set of its bits.  Of the file bits the model   *)
(* keeps read, exec, mmap, link and two of the exec type bits, for the     *)
(* owner ("user") and for everybody else ("other"); the owner's subset bit *)
(* of a link; change_profile, onexec and the bit that marks that a match   *)
(* goes on.                                                                *)
(***************************************************************************)
EXTENDS Integers, Sequences, SequencesExt, FiniteSetsExt

User == {"r", "x", "m", "l", "s", "i", "p"}
Other == {"or", "ox", "om", "ol", "oi", "op"}
ExecBits == {"x", "ox"}
UserExecType == {"i", "p"}            \* AA_EXEC_INHERIT, one of AA_EXEC_MODIFIERS
OtherExecType == {"oi", "op"}
ContMatch == "cont"                   \* AA_COMPAT_CONT_MATCH
ChangeProfile == "c"                  \* AA_CHANGE_PROFILE
Onexec == "e"                         \* AA_ONEXEC
Bits == User \union Other \union {ContMatch, ChangeProfile, Onexec}
BitOrder == <<"x", "r", "l", "s", "m", "i", "p", "ox", "or", "ol", "om", "oi", "op", "cont", "e", "c">>

Perms0 == [allow |-> {}, deny |-> {}, prompt |-> {}, audit |-> {}, quiet |-> {}]
MinPriority == -1001                  \* MIN_INTERNAL_PRIORITY

IsMergedXConsistent(a, b) ==
  /\ "x" \in a \intersect b => a \intersect UserExecType = b \intersect UserExecType
  /\ "ox" \in a \intersect b => a \intersect OtherExecType = b \intersect OtherExecType

ClearBits(p, bits) == [f \in DOMAIN p |-> p[f] \ bits]

(* The priority of one bit of a flag: the rule's own, then the kind of rule. *)
PriOf(f, bit) ==
  4 * f.pri + (IF f.mode = "deny" THEN 3
               ELSE IF f.mode = "exact" /\ bit \in ExecBits THEN 2
               ELSE IF f.mode # "prompt" THEN 1 ELSE 0)

XMask(bit, file) == IF ~file THEN {}
                    ELSE IF bit = "x" THEN UserExecType
                    ELSE IF bit = "ox" THEN OtherExecType ELSE {}

(* pri_update_perm.  acc: the permissions so far, the priority every bit    *)
(* was last decided with, and whether a conflict ended the computation.     *)
PriUpdatePerm(acc, bit, f, file) ==
  LET pri == PriOf(f, bit)
      xmask == XMask(bit, file)
      amask == {bit} \union xmask
      p == IF acc.priority[bit] < pri THEN ClearBits(acc.perms, amask) ELSE acc.perms
      conflict == /\ xmask # {} /\ p.allow \intersect amask # {}
                  /\ ~IsMergedXConsistent(p.allow, f.perms \intersect amask)
      gain == f.perms \intersect amask
      log == f.audit \intersect amask
      denied == [p EXCEPT !.deny = @ \union gain, !.quiet = @ \union log,
                          !.allow = (@ \ amask) \union (gain \intersect {ContMatch}),
                          !.audit = @ \ amask, !.prompt = @ \ amask]
      exact == [p EXCEPT !.allow = (@ \ xmask) \union gain, !.audit = (@ \ xmask) \union log,
                         !.prompt = @ \ xmask]
      allowed == [p EXCEPT !.allow = @ \union gain, !.audit = @ \union log]
      prompted == [p EXCEPT !.prompt = @ \union gain, !.audit = @ \union log]
  IN  IF acc.err \/ acc.priority[bit] > pri THEN acc
      ELSE IF f.mode # "deny" /\ conflict THEN [acc EXCEPT !.err = TRUE]
      ELSE [err |-> FALSE, priority |-> [acc.priority EXCEPT ![bit] = pri],
            perms |-> CASE f.mode = "deny" -> denied
                        [] f.mode = "exact" -> exact
                        [] f.mode = "prompt" -> prompted
                        [] OTHER -> allowed]

(* ix implies m, unless m was decided with a higher priority. *)
AddImpliedIxMmap(acc) ==
  LET add(a, x, i, m) ==
        IF {x, i} \subseteq a.perms.allow /\ a.priority[m] <= a.priority[x]
        THEN [a EXCEPT !.perms.allow = @ \union {m}, !.priority[m] = a.priority[x]] ELSE a
  IN  add(add(acc, "x", "i", "m"), "ox", "oi", "om")

(* The constructor of perms_t: the flags of a state in some order.          *)
WithImplied(acc, file) ==
  IF ~acc.err /\ file /\ acc.perms.allow \intersect ExecBits # {} THEN AddImpliedIxMmap(acc) ELSE acc
AcceptPerms(flags, file) ==
  LET init == [perms |-> Perms0, priority |-> [b \in Bits |-> 4 * MinPriority], err |-> FALSE]
      checked(f) == SelectSeq(BitOrder, LAMBDA b :
                       /\ b \in f.perms \union f.audit
                       /\ file => b \notin UserExecType \union OtherExecType)
  IN  WithImplied(FoldLeft(LAMBDA a, f : FoldLeft(LAMBDA c, b : PriUpdatePerm(c, b, f, file), a, checked(f)), init, flags), file)

IsAccept(p) == \E f \in DOMAIN p : p[f] # {}

(* perms_t::apply_and_clear_deny: a deny never takes the continue bit.      *)
ApplyAndClearDeny(p) ==
  IF p.deny = {} THEN p
  ELSE [p EXCEPT !.allow = (@ \ p.deny) \union (p.deny \intersect {ContMatch}),
                 !.prompt = @ \ p.deny, !.deny = {}]

(* map_perms_to_accept: the words that the kernel's tables hold.  The audit *)
(* word keeps only the plain bits (PACK_AUDIT_CTL).                         *)
Plain == {"r", "x", "m", "l", "s", "or", "ox", "om", "ol"}
AcceptWords(p) == [allow |-> p.allow, audit |-> p.audit \intersect Plain,
                   quiet |-> p.quiet \intersect Plain, prompt |-> p.prompt]

(***************************************************************************)
(* policy_compat.cc: the entries of the permission table.                  *)
(***************************************************************************)
UserBit == [r |-> "r", x |-> "x", m |-> "m", l |-> "l", s |-> "s"]
OtherBit == [r |-> "or", x |-> "ox", m |-> "om", l |-> "ol", s |-> "os"]

(* map_old_perms on one side's plain bits *)
MapOldPerms(word, side) ==
  (IF side.x \in word THEN {"EXEC"} ELSE {})
    \union (IF side.r \in word THEN {"READ", "GETATTR", "OPEN"} ELSE {})
    \union (IF side.l \in word THEN {"LINK"} ELSE {})
    \union (IF side.s \in word THEN {"LOCK", "LINK_SUBSET"} ELSE {})
    \union (IF side.m \in word THEN {"EXEC_MMAP"} ELSE {})

(* dfa_map_xindex of the exec type bits kept *)
MapXindex(word, i, p) ==
  (IF i \in word THEN {"X_INHERIT"} ELSE {}) \union (IF p \in word THEN {"X_NAME"} ELSE {})

ComputeFperms(w, side, i, p) ==
  LET allow == MapOldPerms(w.allow, side) \union {"GETATTR"}
                 \union (IF ChangeProfile \in w.allow THEN {"CHANGE_PROFILE"} ELSE {})
                 \union (IF Onexec \in w.allow THEN {"ONEXEC"} ELSE {})
  IN  [allow |-> allow, audit |-> MapOldPerms(w.audit, side), quiet |-> MapOldPerms(w.quiet, side),
       prompt |-> MapOldPerms(w.prompt, side) \ allow, xindex |-> MapXindex(w.allow, i, p)]
ComputeFpermsUser(w) == ComputeFperms(w, UserBit, "i", "p")
ComputeFpermsOther(w) == ComputeFperms(w, OtherBit, "oi", "op")

(* compute_perms_entry: outside the file rules the low bits stay where they *)
(* are, the "other" bits extend them, and locking is always allowed.        *)
ComputePermsEntry(w) ==
  LET low(s) == s \intersect {"r", "x", "m", "l", "s", ChangeProfile}
      high(s) == (IF "ox" \in s THEN {"SETATTR"} ELSE {}) \union (IF "or" \in s THEN {"ACCEPT"} ELSE {})
                   \union (IF "ol" \in s THEN {"LISTEN"} ELSE {}) \union (IF "om" \in s THEN {"GETOPT"} ELSE {})
      map(s) == low(s) \union high(s)
  IN  [allow |-> map(w.allow) \union {"LOCK"} \union (IF ContMatch \in w.allow THEN {"CONT_MATCH"} ELSE {}),
       audit |-> map(w.audit), quiet |-> map(w.quiet), prompt |-> map(w.prompt), xindex |-> {}]
=============================================================================
