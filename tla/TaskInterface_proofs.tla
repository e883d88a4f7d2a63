------------------------ MODULE TaskInterface_proofs ------------------------
(***************************************************************************)
(* The task interfaces, for all systems, policies, requests and arguments. *)
(*                                                                         *)
(* The library's memory never contradicts the system it runs on (LibInv),  *)
(* whatever was denied when it looked, and that decides where a command    *)
(* goes.  On that rest the invariants of its users.                        *)
(***************************************************************************)
EXTENDS TaskInterface, TLAPS, WellFoundedInduction, SequenceTheorems

Param == {"unset", "EACCES", "Y", "N", "ENOENT"}
LibType == [enabled : Param, avail : Param, syscall : {"unset", "ok", "ENOSYS", "late"},
            base : {"unset", "new", "old", "null", "unavailable"},
            stacking : {"unknown", "yes", "no"}, access : {"unset"}]

(* What the library remembers, compared with the system. *)
LibInv(l, s) ==
    /\ l \in LibType
    /\ l.enabled \in {"unset", "EACCES", s.enabled}
    /\ l.avail \in {"unset", "EACCES", s.avail}
    /\ l.syscall \in {"unset", s.syscall}
    /\ l.base = "old" => s.enabled = "Y"
    /\ l.base = "unavailable" => s.enabled # "Y" /\ s.avail # "Y"
    /\ l.stacking = "no" => s.newdir = "ENOENT"

System(s) == s \in SystemType /\ Possible(s)

LEMMA ParamChecked ==
    ASSUME NEW s, System(s), NEW l, LibInv(l, s), NEW p \in {"enabled", "avail"}
    PROVE  /\ ParamCheck(l, s, p) \in {"EACCES", s[p]}
           /\ s[p] \in {"Y", "N"} => (Look(s, p) = s[p] => ParamCheck(l, s, p) = s[p])
           /\ Look(s, p) \in {"EACCES", s[p]}
           /\ LibInv(Once(l, s, p), s)
<1>1. Look(s, p) \in {"EACCES", s[p]} /\ s[p] \in {"Y", "N", "ENOENT"}
  BY DEF Look, System, SystemType
<1>2. CASE p = "enabled"
  <2>1. Once(l, s, p) = [l EXCEPT !.enabled = IF l.enabled = "unset" THEN Look(s, "enabled") ELSE l.enabled]
    BY <1>2 DEF Once
  <2>2. Once(l, s, p).enabled = IF l.enabled = "unset" THEN Look(s, "enabled") ELSE l.enabled
    BY <2>1 DEF LibInv, LibType
  <2>3. LibInv(Once(l, s, p), s)
    BY <1>1, <1>2, <2>1 DEF LibInv, LibType, Param
  <2> QED BY <1>1, <1>2, <2>2, <2>3 DEF LibInv, ParamCheck
<1>3. CASE p = "avail"
  <2>1. Once(l, s, p) = [l EXCEPT !.avail = IF l.avail = "unset" THEN Look(s, "avail") ELSE l.avail]
    BY <1>3 DEF Once
  <2>2. Once(l, s, p).avail = IF l.avail = "unset" THEN Look(s, "avail") ELSE l.avail
    BY <2>1 DEF LibInv, LibType
  <2>3. LibInv(Once(l, s, p), s)
    BY <1>1, <1>3, <2>1 DEF LibInv, LibType, Param
  <2> QED BY <1>1, <1>3, <2>2, <2>3 DEF LibInv, ParamCheck
<1> QED BY <1>2, <1>3

LEMMA SyscallKept ==
    ASSUME NEW s, System(s), NEW l, LibInv(l, s)
    PROVE  LibInv(SelfSyscall(l, s), s) /\ SelfSyscall(l, s).base = l.base
<1>1. SelfSyscall(l, s) = [l EXCEPT !.syscall = IF l.syscall = "unset" THEN s.syscall ELSE l.syscall]
  BY DEF SelfSyscall
<1> QED BY <1>1 DEF LibInv, LibType, System, SystemType

(* proc_attr_base_init_once keeps to what is so, and takes the private     *)
(* directory if that can be looked at.                                     *)
LEMMA BaseKept ==
    ASSUME NEW s, System(s), NEW l, LibInv(l, s)
    PROVE  /\ LibInv(ProcAttrBaseInit(l, s), s)
           /\ ProcAttrBaseInit(l, s).base # "unset"
           /\ l.base # "unset" => ProcAttrBaseInit(l, s) = l
           /\ (l.base = "unset" /\ Look(s, "newdir") = "ok") => ProcAttrBaseInit(l, s).base = "new"
<1>1. CASE l.base # "unset"
  BY <1>1 DEF ProcAttrBaseInit
<1>2. CASE l.base = "unset"
  <2> DEFINE dir == Look(s, "newdir")
             e == ParamCheck(l, s, "enabled")
             a == ParamCheck(l, s, "avail")
             undecided == IF dir = "EACCES" THEN "new" ELSE "null"
             base == IF dir = "ok" THEN "new"
                     ELSE IF e = "N" THEN IF a = "Y" THEN "new" ELSE IF a = "N" THEN "unavailable" ELSE undecided
                     ELSE IF e = "Y" THEN "old" ELSE IF e = "EACCES" THEN undecided ELSE "unavailable"
             looked == IF dir = "ok" THEN l ELSE IF e = "N" THEN Once(Once(l, s, "enabled"), s, "avail") ELSE Once(l, s, "enabled")
             stacking == IF dir \in {"ok", "EACCES"} THEN "yes" ELSE IF dir = "ENOENT" THEN "no" ELSE looked.stacking
  <2>1. ProcAttrBaseInit(l, s) = [looked EXCEPT !.base = base, !.stacking = stacking]
    BY <1>2 DEF ProcAttrBaseInit
  <2>2. dir \in {"ok", "ENOENT", "EACCES"} /\ (dir = "ENOENT" => s.newdir = "ENOENT")
    BY DEF Look, System, SystemType
  <2>3. e \in {"EACCES", s.enabled} /\ a \in {"EACCES", s.avail}
    BY ParamChecked
  <2>4. LibInv(looked, s)
    BY ParamChecked
  <2>5. /\ s.enabled \in {"Y", "N", "ENOENT"} /\ s.avail \in {"Y", "N", "ENOENT"}
        /\ s.enabled = "ENOENT" => s.avail = "ENOENT"
    BY DEF System, SystemType, Possible
  <2>6. /\ base \in {"new", "old", "null", "unavailable"}
        /\ base = "old" => s.enabled = "Y"
        /\ base = "unavailable" => s.enabled # "Y" /\ s.avail # "Y"
    <3> HIDE DEF dir, e, a
    <3> QED BY <2>2, <2>3, <2>5
  <2>7. stacking \in {"yes", "no"} /\ (stacking = "no" => s.newdir = "ENOENT")
    BY <2>2
  <2>8. dir = "ok" => base = "new"
    OBVIOUS
  <2> HIDE DEF base, stacking, looked, dir
  <2>9. LibInv([looked EXCEPT !.base = base, !.stacking = stacking], s)
    BY <2>4, <2>6, <2>7 DEF LibInv, LibType
  <2>10. [looked EXCEPT !.base = base, !.stacking = stacking].base = base
    BY <2>4 DEF LibInv, LibType
  <2> QED BY <1>2, <2>1, <2>6, <2>8, <2>9, <2>10 DEF dir
<1> QED BY <1>1, <1>2

(* An interface that can be opened is. *)
Open(s, base) == \/ s.newdir = "ok" /\ "newdir" \notin s.denied /\ base # "old"
                 \/ s.old = "aa" /\ "old" \notin s.denied
IsForeign(s, via) == via = "old" /\ s.old = "other"

(* The conditions under which a command may have come to another LSM, of   *)
(* one that was noted.                                                     *)
Excused(f, s) == f.enabled = "EACCES" \/ f.enabled = "ENOENT" \/ (f.base = "null" /\ s.newdir = "ENOENT")
Note(s, l) == [enabled |-> Look(s, "enabled"), base |-> l.base, known |-> l.enabled]

(* procattr_open *)
LEMMA OpenKept ==
    ASSUME NEW s, System(s), NEW l, LibInv(l, s)
    PROVE  LET o == ProcattrOpen(l, s)
           IN  /\ LibInv(o.lib, s)
               /\ o.via = "none" => o.errno # "0"
               /\ IsForeign(s, o.via) => Excused(Note(s, o.lib), s)
               /\ (s.enabled = "Y" \/ s.avail = "Y") /\ Open(s, l.base) => o.via # "none" /\ ~IsForeign(s, o.via)
<1> DEFINE b == ProcAttrBaseInit(l, s)
           path == ProcattrPath(b)
           first == OpenPath(s, path)
           again == OpenPath(s, "old")
           l2 == Once(b, s, "enabled")
           o == ProcattrOpen(l, s)
<1>1. /\ LibInv(b, s) /\ b.base # "unset"
      /\ l.base # "unset" => b = l
      /\ (l.base = "unset" /\ Look(s, "newdir") = "ok") => b.base = "new"
  BY BaseKept
<1>2. LibInv(l2, s)
  BY <1>1, ParamChecked
<1>3. o = IF first = "ok" THEN [lib |-> b, via |-> path, errno |-> "0"]
          ELSE IF ~MayFallBack(b, s) THEN [lib |-> l2, via |-> "none", errno |-> first]
          ELSE [lib |-> l2, via |-> IF again = "ok" THEN "old" ELSE "none", errno |-> IF again = "ok" THEN "0" ELSE again]
  BY DEF ProcattrOpen, OpenOrFallBack
<1>4. /\ first \in {"ok", "EACCES", "ENOENT"}
      /\ again = IF "old" \in s.denied THEN "EACCES" ELSE "ok"
  BY DEF OpenPath, System, SystemType
<1>5. /\ s.enabled \in {"Y", "N", "ENOENT"} /\ s.old \in {"aa", "other"} /\ (s.enabled = "Y" <=> s.old = "aa")
      /\ s.newdir \in {"ok", "ENOENT"}
  BY DEF System, SystemType, Possible
<1>6. MayFallBack(b, s) => (s.enabled # "Y" => Look(s, "enabled") \in {"EACCES", "ENOENT"})
  <2>1. /\ ParamCheck(b, s, "enabled") \in {"EACCES", s.enabled}
        /\ s.enabled \in {"Y", "N"} => (Look(s, "enabled") = s.enabled => ParamCheck(b, s, "enabled") = s.enabled)
        /\ Look(s, "enabled") \in {"EACCES", s.enabled}
    BY <1>1, ParamChecked
  <2> QED BY <1>5, <2>1 DEF MayFallBack
<1>7. s.enabled = "Y" => MayFallBack(b, s)
  <2>1. ParamCheck(b, s, "enabled") \in {"EACCES", s.enabled}
    BY <1>1, ParamChecked
  <2> QED BY <2>1 DEF MayFallBack
<1>8. path = "old" => s.enabled = "Y" \/ (b.base = "null" /\ s.newdir = "ENOENT")
  BY <1>1 DEF ProcattrPath, LibInv
<1>9. ASSUME s.enabled = "Y" \/ s.avail = "Y", s.newdir = "ok", "newdir" \notin s.denied, l.base # "old"
      PROVE  path = "new" /\ first = "ok"
  <2>1. Look(s, "newdir") = "ok"
    BY <1>9 DEF Look
  <2>2. b.base # "old"
    BY <1>1, <1>9, <2>1
  <2>3. b.base \in {"new", "null"}
    BY <1>1, <1>9, <2>2 DEF LibInv, LibType
  <2>4. b.stacking # "no"
    BY <1>1, <1>9 DEF LibInv
  <2>5. path = "new"
    BY <2>3, <2>4 DEF ProcattrPath
  <2> QED BY <1>9, <2>5 DEF OpenPath
<1> HIDE DEF o, b, path, first, again, l2
<1>10. LibInv(o.lib, s)
  BY <1>1, <1>2, <1>3
<1>11. o.via = "none" => o.errno # "0"
  <2>1. path # "none"
    BY <1>1 DEF ProcattrPath, LibInv, LibType, path
  <2> QED BY <1>3, <1>4, <2>1
<1>12. ASSUME IsForeign(s, o.via) PROVE Excused(Note(s, o.lib), s)
  <2>1. s.enabled # "Y" /\ o.via = "old"
    BY <1>5, <1>12 DEF IsForeign
  <2>2. CASE first = "ok"
    <3>1. o.lib = b /\ path = "old"
      BY <1>3, <2>1, <2>2
    <3> QED BY <1>8, <2>1, <3>1 DEF Excused, Note
  <2>3. CASE first # "ok"
    <3>1. MayFallBack(b, s)
      BY <1>3, <2>1, <2>3
    <3> QED BY <1>6, <2>1, <3>1 DEF Excused, Note
  <2> QED BY <2>2, <2>3
<1>13. ASSUME s.enabled = "Y" \/ s.avail = "Y", Open(s, l.base) PROVE o.via # "none" /\ ~IsForeign(s, o.via)
  <2>1. CASE s.old = "aa" /\ "old" \notin s.denied
    <3>1. MayFallBack(b, s) /\ again = "ok"
      BY <1>4, <1>5, <1>7, <2>1
    <3>2. path # "none"
      BY <1>1 DEF ProcattrPath, LibInv, LibType, path
    <3>3. o.via # "none"
      BY <1>3, <3>1, <3>2
    <3> QED BY <2>1, <3>3 DEF IsForeign
  <2>2. CASE s.newdir = "ok" /\ "newdir" \notin s.denied /\ l.base # "old"
    <3>1. path = "new" /\ first = "ok"
      BY <1>9, <1>13, <2>2
    <3>2. o.via = "new"
      BY <1>3, <3>1
    <3> QED BY <3>2 DEF IsForeign
  <2> QED BY <1>13, <2>1, <2>2 DEF Open
<1> QED BY <1>10, <1>11, <1>12, <1>13 DEF o

(* aa_set_self_attr, up to the kernel *)
LEMMA SelfKept ==
    ASSUME NEW s, System(s), NEW l, LibInv(l, s)
    PROVE  LET o == SelfAttr(l, s)
           IN  /\ LibInv(o.lib, s)
               /\ o.via = "none" => o.errno # "0"
               /\ IsForeign(s, o.via) => Excused(Note(s, o.lib), s)
               /\ (s.enabled = "Y" \/ s.avail = "Y") /\ Open(s, l.base) => o.via # "none" /\ ~IsForeign(s, o.via)
<1> DEFINE m == SelfSyscall(l, s)
<1>1. LibInv(m, s) /\ m.base = l.base
  BY SyscallKept
<1>2. CASE m.syscall # "ENOSYS" /\ s.syscall = "ok"
  <2>1. SelfAttr(l, s) = [lib |-> m, via |-> "syscall", errno |-> "0"]
    BY <1>2 DEF SelfAttr, SelfAttrVia
  <2> QED BY <1>1, <2>1 DEF IsForeign
<1>3. CASE ~(m.syscall # "ENOSYS" /\ s.syscall = "ok")
  <2>1. SelfAttr(l, s) = ProcattrOpen(m, s)
    BY <1>3 DEF SelfAttr, SelfAttrVia
  <2> QED BY <1>1, <2>1, OpenKept
<1> QED BY <1>2, <1>3

-----------------------------------------------------------------------------
(***************************************************************************)
(* Commands are delivered                                                  *)
(***************************************************************************)
BaseInv == /\ System(sys)
           /\ LibInv(lib, sys)
           /\ \A f \in foreign : Excused(f, sys)

(* A command, whatever effect it has on the task. *)
LEMMA CommandKept ==
    ASSUME BaseInv, NEW t, NEW effect
    PROVE  LET r == Deliver(t, effect)
           IN  LibInv(r.lib, sys) /\ \A f \in r.foreign : Excused(f, sys)
<1> DEFINE o == SelfAttr(lib, sys)
           r == Deliver(t, effect)
<1>1. LibInv(o.lib, sys) /\ (IsForeign(sys, o.via) => Excused(Note(sys, o.lib), sys))
  BY SelfKept DEF BaseInv
<1>2. /\ r.lib = o.lib
      /\ r.foreign = IF IsForeign(sys, o.via) THEN foreign \union {Note(sys, o.lib)} ELSE foreign
  BY DEF Deliver, DeliverVia, IsForeign, Note
<1> HIDE DEF o, r
<1>3. \A f \in r.foreign : Excused(f, sys)
  BY <1>1, <1>2 DEF BaseInv
<1> QED BY <1>1, <1>2, <1>3 DEF r

(* The calls of the library, and one that is refused at once. *)
LEMMA CallKept ==
    ASSUME BaseInv, NEW t, NEW token
    PROVE  /\ \A hat : LET r == AaChangeHat(t, hat, token) IN LibInv(r.lib, sys) /\ \A f \in r.foreign : Excused(f, sys)
           /\ \A hats : LET r == AaChangeHatv(t, hats, token) IN LibInv(r.lib, sys) /\ \A f \in r.foreign : Excused(f, sys)
           /\ \A op, name : LET r == AaChangeProfile(t, op, name) IN LibInv(r.lib, sys) /\ \A f \in r.foreign : Excused(f, sys)
<1>1. \A e : LibInv(Refused(e).lib, sys) /\ \A f \in Refused(e).foreign : Excused(f, sys)
  BY DEF Refused, BaseInv
<1>2. \A e : LibInv(Deliver(t, e).lib, sys) /\ \A f \in Deliver(t, e).foreign : Excused(f, sys)
  BY CommandKept
<1>3. ASSUME NEW hat
      PROVE  LET r == AaChangeHat(t, hat, token) IN LibInv(r.lib, sys) /\ \A f \in r.foreign : Excused(f, sys)
  <2> DEFINE r == AaChangeHat(t, hat, token)
             e == KernelChangeHat(task[t], <<IF hat = Null THEN None ELSE hat>>, token)
  <2>1. r = Refused("EINVAL") \/ r = Refused("EPROTO") \/ r = Deliver(t, e)
    BY DEF AaChangeHat
  <2> HIDE DEF r, e
  <2>2. LibInv(r.lib, sys) /\ \A f \in r.foreign : Excused(f, sys)
    BY <1>1, <1>2, <2>1
  <2> QED BY <2>2 DEF r
<1>4. ASSUME NEW hats
      PROVE  LET r == AaChangeHatv(t, hats, token) IN LibInv(r.lib, sys) /\ \A f \in r.foreign : Excused(f, sys)
  <2> DEFINE r == AaChangeHatv(t, hats, token)
             e == KernelChangeHat(task[t], hats, token)
  <2>1. r = Refused("EINVAL") \/ r = Refused("EPROTO") \/ r = Deliver(t, e)
    BY DEF AaChangeHatv
  <2> HIDE DEF r, e
  <2>2. LibInv(r.lib, sys) /\ \A f \in r.foreign : Excused(f, sys)
    BY <1>1, <1>2, <2>1
  <2> QED BY <2>2 DEF r
<1>5. ASSUME NEW op, NEW name
      PROVE  LET r == AaChangeProfile(t, op, name) IN LibInv(r.lib, sys) /\ \A f \in r.foreign : Excused(f, sys)
  <2> DEFINE r == AaChangeProfile(t, op, name)
             e == KernelChangeProfile(task[t], op, name)
  <2>1. r = Refused("EINVAL") \/ r = Deliver(t, e)
    BY DEF AaChangeProfile
  <2> HIDE DEF r, e
  <2>2. LibInv(r.lib, sys) /\ \A f \in r.foreign : Excused(f, sys)
    BY <1>1, <1>2, <2>1
  <2> QED BY <2>2 DEF r
<1> QED BY <1>3, <1>4, <1>5
LEMMA BaseNext == BaseInv /\ [Next]_vars => BaseInv'
<1> SUFFICES ASSUME BaseInv, [Next]_vars PROVE BaseInv'
  OBVIOUS
<1> DEFINE Good(r) == LibInv(r.lib, sys) /\ \A f \in r.foreign : Excused(f, sys)
<1>1. ASSUME sys' = sys, lib' = lib, foreign' = foreign PROVE BaseInv'
  BY <1>1 DEF BaseInv
<1>2. ASSUME NotBase PROVE BaseInv'
  BY <1>1, <1>2 DEF NotBase, base_vars
<1>3. ASSUME sys' = sys, LibInv(lib', sys), \A f \in foreign' : Excused(f, sys) PROVE BaseInv'
  BY <1>3 DEF BaseInv
<1>4. ASSUME NEW r, Took(r), Good(r) PROVE BaseInv'
  BY <1>3, <1>4 DEF Took
<1>5. \A t, token : /\ \A hat : Good(AaChangeHat(t, hat, token))
                    /\ \A hats : Good(AaChangeHatv(t, hats, token))
                    /\ \A op, name : Good(AaChangeProfile(t, op, name))
  BY CallKept
<1> HIDE DEF Good
<1>6. CASE Caller
  <2>1. ASSUME NEW hat, NEW token, Call(1, hat, token) PROVE BaseInv'
    BY <1>4, <1>5, <2>1 DEF Call
  <2>2. ASSUME NEW hats, NEW token, Callv(1, hats, token) PROVE BaseInv'
    BY <1>4, <1>5, <2>2 DEF Callv
  <2>3. ASSUME NEW name, Stack(1, name) PROVE BaseInv'
    BY <1>4, <1>5, <2>3 DEF Stack
  <2>4. ASSUME NEW mounted, IsEnabled(mounted) PROVE BaseInv'
    <3> DEFINE l == Once(lib, sys, "enabled")
    <3>1. LibInv(l, sys) /\ LibInv(Once(l, sys, "avail"), sys)
      BY ParamChecked DEF BaseInv
    <3>2. lib' = l \/ lib' = Once(l, sys, "avail")
      BY <2>4 DEF IsEnabled, AaIsEnabled
    <3>3. sys' = sys /\ foreign' = foreign
      BY <2>4 DEF IsEnabled
    <3> QED BY <1>3, <3>1, <3>2, <3>3 DEF BaseInv
  <2>5. ASSUME NEW what \in Interfaces, Deny(what) PROVE BaseInv'
    <3>1. sys' = [sys EXCEPT !.denied = IF what \in sys.denied THEN sys.denied \ {what} ELSE sys.denied \union {what}]
      BY <2>5 DEF Deny
    <3>2. lib' = lib /\ foreign' = foreign
      BY <2>5 DEF Deny
    <3>3. System(sys') /\ sys'.enabled = sys.enabled /\ sys'.avail = sys.avail /\ sys'.syscall = sys.syscall /\ sys'.newdir = sys.newdir
      BY <3>1 DEF BaseInv, System, SystemType, Possible
    <3>4. LibInv(lib', sys')
      BY <3>2, <3>3 DEF BaseInv, LibInv
    <3>5. \A f \in foreign' : Excused(f, sys')
      BY <3>2, <3>3 DEF BaseInv, Excused
    <3> QED BY <3>3, <3>4, <3>5 DEF BaseInv
  <2> QED BY <1>6, <2>1, <2>2, <2>3, <2>4, <2>5 DEF Caller
<1>7. CASE Httpd
  <2>1. ASSUME AaInit \/ ChildEnds PROVE BaseInv'
    BY <1>2, <2>1 DEF AaInit, ChildEnds
  <2>2. ASSUME NEW n, Fork(n) PROVE BaseInv'
    BY <1>1, <2>2 DEF Fork
  <2>3. ASSUME AaChildInit PROVE BaseInv'
    <3> DEFINE r == AaChangeHat(1, DEFAULT_HAT, Token)
    <3>1. sys' = sys /\ lib' = r.lib /\ foreign' = r.foreign
      BY <2>3 DEF AaChildInit
    <3>2. Good(r)
      BY <1>5
    <3> HIDE DEF r
    <3> QED BY <1>3, <3>1, <3>2 DEF Good
  <2>4. ASSUME NEW t, \/ \E q0 \in Requests : Arrive(t, q0)
                      \/ ClearInside(t)
        PROVE  BaseInv'
    BY <1>2, <2>4 DEF Arrive, ClearInside
  <2>5. ASSUME NEW t, LeaveDefault(t) PROVE BaseInv'
    BY <1>2, <1>4, <1>5, <2>5 DEF LeaveDefault
  <2>6. ASSUME NEW t, EnterHat(t) PROVE BaseInv'
    BY <1>4, <1>5, <2>6 DEF EnterHat
  <2>7. ASSUME NEW t, ExitHat(t) PROVE BaseInv'
    BY <1>4, <1>5, <2>7 DEF ExitHat, BackToProfile
  <2>8. ASSUME NEW t, EnterDefault(t) PROVE BaseInv'
    BY <1>4, <1>5, <2>8 DEF EnterDefault
  <2> QED BY <1>7, <2>1, <2>2, <2>3, <2>4, <2>5, <2>6, <2>7, <2>8 DEF Httpd
<1>8. CASE Pam \/ AaExec
  <2>1. ASSUME ParseOption \/ AddHatType \/ OpenSession \/ NoMoreHats \/ ParseArg \/ ParsedArgs PROVE BaseInv'
    <3>1. NotBase
      BY <2>1, Zenon DEF ParseOption, AddHatType, OpenSession, NoMoreHats, ParseArg, ParsedArgs
    <3> QED BY <1>2, <3>1
  <2>2. ASSUME TryHat PROVE BaseInv'
    BY <1>4, <1>5, <2>2 DEF TryHat
  <2>3. ASSUME JumpBack PROVE BaseInv'
    BY <1>4, <1>5, <2>3 DEF JumpBack
  <2>4. ASSUME ChangeProfile PROVE BaseInv'
    BY <1>4, <1>5, <2>4 DEF ChangeProfile
  <2>5. ASSUME Execvp PROVE BaseInv'
    BY <1>1, <2>5 DEF Execvp
  <2> QED BY <1>8, <2>1, <2>2, <2>3, <2>4, <2>5 DEF Pam, AaExec
<1>9. CASE Reader
  <2>1. ASSUME Begin PROVE BaseInv'
    <3>1. sys' = sys /\ foreign' = foreign /\ (lib' = lib \/ lib' = SelfSyscall(lib, sys))
      BY <2>1, Zenon DEF Begin
    <3> QED BY <1>3, <3>1, SyscallKept DEF BaseInv
  <2>2. ASSUME ReadOpen PROVE BaseInv'
    <3>1. sys' = sys /\ foreign' = foreign /\ lib' = ProcattrOpen(lib, sys).lib
      BY <2>2 DEF ReadOpen
    <3> QED BY <1>3, <3>1, OpenKept DEF BaseInv
  <2>3. ASSUME GetPeer PROVE BaseInv'
    <3>1. sys' = sys /\ foreign' = foreign /\ lib' = Once(lib, sys, "enabled")
      BY <2>3 DEF GetPeer
    <3> QED BY <1>3, <3>1, ParamChecked DEF BaseInv
  <2>4. ASSUME \/ SelfAttr1 \/ SelfAttr2 \/ ReadSome \/ ReadError \/ ReadAll \/ NoPeer \/ \E c \in Contexts : TargetChanges(c)
        PROVE  BaseInv'
    <3>1. NotBase
      BY <2>4, Zenon DEF SelfAttr1, SelfAttr2, ReadSome, ReadError, ReadAll, NoPeer, TargetChanges
    <3> QED BY <1>2, <3>1
  <2> QED BY <1>9, <2>1, <2>2, <2>3, <2>4 DEF Reader, ReadStep
<1>10. CASE Query
  <2>1. NotBase
    BY <1>10, Zenon DEF Query, Mounts, LabelGone, Ask, FindAccess, OpenAccess, WriteQuery, ReadAnswer
  <2> QED BY <1>2, <2>1
<1>11. CASE UNCHANGED vars
  BY <1>1, <1>11 DEF vars, base_vars
<1> QED BY <1>6, <1>7, <1>8, <1>9, <1>10, <1>11 DEF Next

(* The library and the notes are as they should be from the start. *)
LEMMA BaseStart == Init => BaseInv
<1> SUFFICES ASSUME Init PROVE BaseInv
  OBVIOUS
<1>1. sys \in Systems[prog] /\ prog \in Programs /\ lib = NewLib /\ foreign = {}
  BY DEF Init, BaseInit
<1>2. System(sys)
  BY <1>1, SystemsAssumption DEF System
<1> QED BY <1>1, <1>2 DEF BaseInv, NewLib, LibInv, LibType, Param

LEMMA BaseInvariant == Spec => []BaseInv
BY BaseStart, BaseNext, PTL DEF Spec

(* Whatever was denied when the library looked, a command reaches apparmor *)
(* if one of its interfaces can be opened, and another LSM only if the     *)
(* library could not know better (aa_set_self_attr, procattr_open,         *)
(* proc_attr_base_init_once), on every system there can be.                *)
THEOREM CommandsDeliveredThm == Spec => []CommandsDelivered
<1>1. BaseInv => CommandsDelivered
  <2> SUFFICES ASSUME BaseInv PROVE CommandsDelivered
    OBVIOUS
  <2>1. ForeignOnlyIfUnknown
    BY DEF BaseInv, ForeignOnlyIfUnknown, Excused
  <2>2. CommandArrives
    BY SelfKept DEF BaseInv, CommandArrives, Active, Open, IsForeign
  <2> QED BY <2>1, <2>2 DEF CommandsDelivered
<1> QED BY <1>1, BaseInvariant, PTL
-----------------------------------------------------------------------------
(***************************************************************************)
(* Hats follow requests                                                    *)
(***************************************************************************)
HasDefault == DEFAULT_HAT \in policy.hats
Inside == child.inside_default_hat
HasToken == child.token # 0
Prefork == child.threads = {1}
InProfile(t) == task[t].label = "profile"

Stages == {"none", "start", "idle", "enter", "clear", "hats", "handling", "exit"}
HttpType ==
    /\ magic_token \in Tokens \union {0}
    /\ child \in [up : BOOLEAN, token : Tokens \union {0}, inside_default_hat : BOOLEAN, threads : SUBSET Int]
    /\ stage \in [Tasks -> Stages]
    /\ req \in [Tasks -> Requests \union {NoReq}]
    /\ redirected \in [Tasks -> BOOLEAN]
    /\ DOMAIN task = Tasks

(* The kernel's view of a thread: in the profile, or in a hat that was     *)
(* entered from it with the child's token.                                 *)
GoodTask(t) == \/ InProfile(t) /\ task[t].prev = None
               \/ task[t].label \in policy.hats /\ task[t].prev = "profile" /\ task[t].token = child.token

(* Where a thread is when it is in a stage.  What the flag says, which all *)
(* threads share, is used of children with one thread only.                *)
AtStage(t) ==
    /\ stage[t] \in {"none", "start"} \/ t \in child.threads
    /\ stage[t] = "idle" => IF HasDefault THEN task[t].label = DEFAULT_HAT /\ (Prefork => Inside) ELSE HasToken => InProfile(t)
    /\ stage[t] = "enter" /\ ~redirected[t] /\ Prefork /\ HasToken => IF HasDefault THEN Inside ELSE InProfile(t)
    /\ stage[t] \in {"clear", "exit"} /\ HasToken => InProfile(t)
    /\ stage[t] = "hats" /\ ~redirected[t] /\ Prefork /\ HasToken => InProfile(t)
    /\ stage[t] = "handling" =>
         /\ Existing(HatsOf(req[t])) # {} => task[t].label = FirstOf(HatsOf(req[t]))
         /\ Existing(HatsOf(req[t])) = {} /\ ~redirected[t] /\ Prefork /\ HasToken => InProfile(t)

GoodPolicy == policy.confined \in BOOLEAN /\ policy.hats \cap {None, Null, TooLong, "unconfined", "killed"} = {}

HttpInv ==
    /\ HttpType
    /\ GoodPolicy
    /\ Reaches(sys)
    /\ \A t \in Tasks : stage[t] # "none" => child.up
    /\ \A t \in Tasks : stage[t] \in {"enter", "clear", "hats", "handling"} => req[t] \in Requests
    /\ stage[1] = "start" => \A t \in Tasks : task[t] = NewTask(policy) /\ stage[t] \in {"none", "start"}
    /\ ~Reached => \A t \in Tasks : task[t] = NewTask(policy)
    /\ Reached => \A t \in Tasks : /\ task[t].label # "killed"
                                   /\ child.up => GoodTask(t)
                                   /\ AtStage(t)
(* The first of the names that exist *)
LEMMA FirstIs ==
    ASSUME NEW names, DOMAIN names \subseteq Nat, NEW i \in Existing(names), \A j \in Existing(names) : i <= j
    PROVE  FirstOf(names) = names[i]
<1>1. Existing(names) \subseteq Nat
  BY DEF Existing
<1>2. \A c \in Existing(names) : (\A j \in Existing(names) : c <= j) => c = i
  BY <1>1
<1>3. (CHOOSE c \in Existing(names) : \A j \in Existing(names) : c <= j) = i
  BY <1>2
<1> QED BY <1>3 DEF FirstOf

LEMMA FirstExists ==
    ASSUME NEW names, DOMAIN names \subseteq Nat, Existing(names) # {}
    PROVE  \E i \in Existing(names) : \A j \in Existing(names) : i <= j
<1>1. Existing(names) \subseteq Nat
  BY DEF Existing
<1>2. PICK i \in Existing(names) : \A j \in Existing(names) : ~(<<j, i>> \in OpToRel(<, Nat))
  BY <1>1, WFMin, NatLessThanWellFounded
<1>3. ASSUME NEW j \in Existing(names) PROVE i <= j
  <2>1. i \in Nat /\ j \in Nat
    BY <1>1
  <2>2. j < i => <<j, i>> \in {ss \in Nat \X Nat : ss[1] < ss[2]}
    BY <2>1
  <2>3. ~(j < i)
    BY <1>2, <2>2 DEF OpToRel
  <2> QED BY <2>1, <2>3
<1> QED BY <1>3

LEMMA FirstExisting ==
    ASSUME NEW names, DOMAIN names \subseteq Nat, Existing(names) # {}
    PROVE  FirstOf(names) \in policy.hats
<1>1. PICK i \in Existing(names) : \A j \in Existing(names) : i <= j
  BY FirstExists
<1> QED BY <1>1, FirstIs DEF Existing

(* aa_enter_hat leaves out a name that the property lists as empty. *)
LEMMA SameHats ==
    ASSUME GoodPolicy, NEW r \in Requests
    PROVE  /\ DOMAIN HatArray(r) \subseteq Nat /\ HatArray(r) # <<>> /\ HatArray(r)[1] # None
           /\ TooLong \notin Range(HatArray(r))
           /\ Existing(HatArray(r)) = {} <=> Existing(HatsOf(r)) = {}
           /\ Existing(HatArray(r)) # {} => FirstOf(HatArray(r)) = FirstOf(HatsOf(r))
<1> DEFINE second == IF r.srv # None THEN r.srv ELSE r.host
           a == HatArray(r)
           h == HatsOf(r)
<1>1. second # None /\ second # TooLong /\ r.dir # TooLong /\ r.vhost_uri # TooLong /\ r.uri # TooLong
  BY RequestsAssumption
<1>2. None \notin policy.hats
  BY DEF GoodPolicy
<1>3. h = <<r.dir, second, r.vhost_uri, r.uri, DEFAULT_URI_HAT>>
  BY DEF HatsOf
<1>4. CASE r.dir # None
  <2>1. a = <<r.dir, second, r.vhost_uri, r.uri, DEFAULT_URI_HAT>>
    BY <1>4 DEF HatArray
  <2>2. a = h
    BY <1>3, <2>1
  <2>3. DOMAIN a = 1 .. 5 /\ a[1] = r.dir /\ Range(a) = {r.dir, second, r.vhost_uri, r.uri, DEFAULT_URI_HAT}
    BY <1>3, <2>2 DEF Range
  <2> QED BY <1>1, <1>4, <2>2, <2>3 DEF DEFAULT_URI_HAT, TooLong
<1>5. CASE r.dir = None
  <2>1. a = <<second, r.vhost_uri, r.uri, DEFAULT_URI_HAT>>
    BY <1>5 DEF HatArray
  <2> HIDE DEF a, h, second
  <2>2. DOMAIN a = 1 .. 4 /\ a[1] = second /\ Range(a) = {second, r.vhost_uri, r.uri, DEFAULT_URI_HAT}
    BY <2>1 DEF Range
  <2>3. DOMAIN h = 1 .. 5 /\ h[1] = None /\ \A i \in 1 .. 4 : h[i + 1] = a[i]
    BY <1>3, <1>5, <2>1
  <2>4. \A i \in Existing(a) : i \in 1 .. 4 /\ i + 1 \in Existing(h) /\ h[i + 1] = a[i]
    BY <2>2, <2>3 DEF Existing
  <2>5. \A i \in Existing(h) : i \in 2 .. 5 /\ i - 1 \in Existing(a)
    BY <1>2, <2>2, <2>3 DEF Existing
  <2>6. Existing(a) = {} <=> Existing(h) = {}
    BY <2>4, <2>5
  <2>7. ASSUME Existing(a) # {} PROVE FirstOf(a) = FirstOf(h)
    <3>1. PICK i \in Existing(a) : \A j \in Existing(a) : i <= j
      BY <2>2, <2>7, FirstExists
    <3>2. FirstOf(a) = a[i]
      BY <2>2, <3>1, FirstIs
    <3>3. \A j \in Existing(h) : i + 1 <= j
      BY <2>4, <2>5, <3>1
    <3>4. FirstOf(h) = h[i + 1]
      BY <2>3, <2>4, <3>3, FirstIs
    <3> QED BY <2>4, <3>2, <3>4
  <2> QED BY <1>1, <2>2, <2>6, <2>7 DEF a, h, DEFAULT_URI_HAT, TooLong
<1> QED BY <1>4, <1>5

(* A command of a program that can reach apparmor *)
LEMMA Delivered ==
    ASSUME BaseInv, Reaches(sys), DOMAIN task = Tasks, NEW t \in Tasks, NEW effect
    PROVE  LET r == Deliver(t, effect)
           IN  /\ r.task = [task EXCEPT ![t] = IF Active THEN effect.task ELSE task[t]]
               /\ Active => r.errno = effect.errno
               /\ ~Active => r.errno # "0"
<1> DEFINE o == SelfAttr(lib, sys)
           r == Deliver(t, effect)
           done == IF o.via = "none" THEN [task |-> task[t], errno |-> o.errno]
                   ELSE IF (o.via = "old" /\ sys.old = "other") \/ ~Active THEN [task |-> task[t], errno |-> "EINVAL"]
                   ELSE effect
<1>1. r.task = [task EXCEPT ![t] = done.task] /\ r.errno = done.errno
  BY DEF Deliver, DeliverVia
<1>2. Active => Open(sys, lib.base)
  BY DEF BaseInv, System, SystemType, Possible, LibInv, Reaches, Open, Active
<1>3. /\ o.via = "none" => o.errno # "0"
      /\ Active => o.via # "none" /\ ~IsForeign(sys, o.via)
  BY <1>2, SelfKept DEF BaseInv, Active
<1>4. CASE Active
  BY <1>1, <1>3, <1>4 DEF IsForeign
<1>5. CASE ~Active
  <2>1. done.task = task[t] /\ done.errno # "0"
    BY <1>3, <1>5
  <2> QED BY <1>1, <1>5, <2>1
<1> QED BY <1>4, <1>5
(* The other threads are left alone. *)
OnlyTask(r, t) == DOMAIN r.task = Tasks /\ \A u \in Tasks : u # t => r.task[u] = task[u]
InHat(k, hat) == k.label = hat /\ k.prev = "profile" /\ k.token = child.token

(* What the kernel does in a thread that is as it should be *)
LEMMA KernelEnters ==
    ASSUME Reached, GoodPolicy, NEW t, GoodTask(t), NEW names, names # <<>>, names[1] # None
    PROVE  LET e == KernelChangeHat(task[t], names, child.token)
           IN  /\ Existing(names) = {} => e.task = task[t] /\ e.errno # "0"
               /\ Existing(names) # {} => InHat(e.task, FirstOf(names)) /\ e.errno = "0"
<1>1. task[t].label # "unconfined"
  BY DEF GoodPolicy, GoodTask, InProfile
<1>2. ~(names = <<>> \/ names[1] = None)
  OBVIOUS
<1>3. ~(task[t].prev # None /\ task[t].token # child.token)
  BY DEF GoodTask
<1>4. (IF task[t].prev = None THEN task[t].label ELSE task[t].prev) = "profile"
  BY DEF GoodTask, InProfile, None
<1>5. CASE Existing(names) = {}
  <2>1. KernelChangeHat(task[t], names, child.token) = [task |-> task[t], errno |-> IF policy.hats = {} THEN "ECHILD" ELSE "ENOENT"]
    BY <1>1, <1>2, <1>5, Zenon DEF KernelChangeHat
  <2> QED BY <1>5, <2>1
<1>6. CASE Existing(names) # {}
  <2>1. KernelChangeHat(task[t], names, child.token) =
          [task |-> [label |-> FirstOf(names), prev |-> IF task[t].prev = None THEN task[t].label ELSE task[t].prev,
                     token |-> child.token, exec |-> None], errno |-> "0"]
    BY <1>1, <1>2, <1>3, <1>6, Zenon DEF KernelChangeHat
  <2> QED BY <1>4, <1>6, <2>1 DEF InHat
<1> QED BY <1>5, <1>6

LEMMA KernelGoesBack ==
    ASSUME Reached, HasToken, GoodPolicy, NEW t, GoodTask(t), NEW names, names = <<>> \/ names[1] = None
    PROVE  LET e == KernelChangeHat(task[t], names, child.token)
           IN  e.task.label = "profile" /\ e.task.prev = None
<1>1. task[t].label # "unconfined" /\ child.token # 0
  BY DEF GoodPolicy, GoodTask, InProfile, HasToken
<1>2. ~(task[t].prev # None /\ task[t].token # child.token)
  BY DEF GoodTask
<1>3. CASE task[t].prev = None
  <2>1. KernelChangeHat(task[t], names, child.token) = [task |-> task[t], errno |-> "0"]
    BY <1>1, <1>3, Zenon DEF KernelChangeHat
  <2>2. task[t].label = "profile"
    BY <1>3 DEF GoodTask, InProfile, None
  <2> QED BY <1>3, <2>1, <2>2
<1>4. CASE task[t].prev # None
  <2>1. KernelChangeHat(task[t], names, child.token) =
          [task |-> [label |-> task[t].prev, prev |-> None, token |-> 0, exec |-> None], errno |-> "0"]
    BY <1>1, <1>2, <1>4, Zenon DEF KernelChangeHat
  <2> QED BY <1>4, <2>1 DEF GoodTask
<1> QED BY <1>3, <1>4

(* An unconfined task is left alone. *)
LEMMA KernelRefuses ==
    ASSUME ~policy.confined, NEW t, task[t] = NewTask(policy), NEW names, NEW token
    PROVE  LET e == KernelChangeHat(task[t], names, token) IN e.task = task[t] /\ e.errno # "0"
BY DEF KernelChangeHat, NewTask

(* What a command does to the threads, when it is one that goes to the     *)
(* kernel with the child's token                                           *)
LEMMA DeliveredChangeHat ==
    ASSUME BaseInv, HttpInv, NEW t \in Tasks, NEW names
    PROVE  LET e == KernelChangeHat(task[t], names, child.token)
               r == Deliver(t, e)
           IN  /\ OnlyTask(r, t)
               /\ ~Reached => r.task[t] = task[t] /\ r.errno # "0"
               /\ Reached => r.task[t] = e.task /\ r.errno = e.errno
<1> DEFINE e == KernelChangeHat(task[t], names, child.token)
           r == Deliver(t, e)
<1>1. DOMAIN task = Tasks
  BY DEF HttpInv, HttpType
<1>2. ~policy.confined => e.task = task[t] /\ e.errno # "0"
  BY KernelRefuses DEF HttpInv, Reached
<1> HIDE DEF e
<1>3. /\ r.task = [task EXCEPT ![t] = IF Active THEN e.task ELSE task[t]]
      /\ Active => r.errno = e.errno
      /\ ~Active => r.errno # "0"
  BY <1>1, Delivered DEF HttpInv
<1> HIDE DEF r
<1>4. OnlyTask(r, t) /\ r.task[t] = IF Active THEN e.task ELSE task[t]
  BY <1>1, <1>3 DEF OnlyTask
<1>5. /\ OnlyTask(r, t)
      /\ ~Reached => r.task[t] = task[t] /\ r.errno # "0"
      /\ Reached => r.task[t] = e.task /\ r.errno = e.errno
  BY <1>2, <1>3, <1>4 DEF Reached
<1> QED BY <1>5 DEF e, r

(* The calls of mod_apparmor: into the hat for untrusted input, *)
LEMMA DefaultHatEffect ==
    ASSUME BaseInv, HttpInv, NEW t \in Tasks, Reached => GoodTask(t)
    PROVE  LET r == AaChangeHat(t, DEFAULT_HAT, Token)
           IN  /\ OnlyTask(r, t)
               /\ ~Reached => r.task[t] = task[t]
               /\ Reached /\ HasDefault => InHat(r.task[t], DEFAULT_HAT) /\ r.errno = "0"
               /\ Reached /\ ~HasDefault => r.task[t] = task[t] /\ r.errno # "0"
<1> DEFINE names == <<DEFAULT_HAT>>
           e == KernelChangeHat(task[t], names, child.token)
           r == AaChangeHat(t, DEFAULT_HAT, Token)
<1>1. r = Deliver(t, e)
  BY DEF AaChangeHat, Token, DEFAULT_HAT, Null, TooLong
<1>2. names # <<>> /\ names[1] # None /\ DOMAIN names \subseteq Nat
  BY DEF DEFAULT_HAT, None
<1>3. HasDefault => Existing(names) # {} /\ FirstOf(names) = DEFAULT_HAT
  <2>1. HasDefault => Existing(names) = {1}
    BY DEF Existing, HasDefault
  <2>2. HasDefault => FirstOf(names) = names[1]
    BY <1>2, <2>1, FirstIs
  <2> QED BY <2>1, <2>2
<1>4. ~HasDefault => Existing(names) = {}
  BY DEF Existing, HasDefault
<1>5. /\ OnlyTask(r, t)
      /\ ~Reached => r.task[t] = task[t]
      /\ Reached => r.task[t] = e.task /\ r.errno = e.errno
  BY <1>1, DeliveredChangeHat
<1>6. GoodPolicy
  BY DEF HttpInv
<1> HIDE DEF names, r
<1>7. Reached => /\ Existing(names) = {} => e.task = task[t] /\ e.errno # "0"
                 /\ Existing(names) # {} => InHat(e.task, FirstOf(names)) /\ e.errno = "0"
  BY <1>2, <1>6, KernelEnters
<1> HIDE DEF e
<1>8. /\ Reached /\ HasDefault => InHat(r.task[t], DEFAULT_HAT) /\ r.errno = "0"
      /\ Reached /\ ~HasDefault => r.task[t] = task[t] /\ r.errno # "0"
  BY <1>3, <1>4, <1>5, <1>7 DEF InHat
<1> QED BY <1>5, <1>8 DEF r

(* out of any hat, *)
LEMMA BackEffect ==
    ASSUME BaseInv, HttpInv, NEW t \in Tasks, Reached => GoodTask(t), NEW r,
           r = AaChangeHat(t, Null, Token) \/ r = AaChangeHatv(t, <<>>, Token)
    PROVE  /\ OnlyTask(r, t)
           /\ ~Reached => r.task[t] = task[t]
           /\ Reached /\ HasToken => r.task[t].label = "profile" /\ r.task[t].prev = None
           /\ Reached /\ ~HasToken => r.task[t] = task[t]
<1>0. DOMAIN task = Tasks
  BY DEF HttpInv, HttpType
<1>1. CASE ~HasToken
  <2>1. r = Refused("EINVAL")
    BY <1>1 DEF HasToken, AaChangeHat, AaChangeHatv, Token
  <2> QED BY <1>0, <1>1, <2>1 DEF Refused, OnlyTask
<1>2. CASE HasToken
  <2>1. PICK names : /\ r = Deliver(t, KernelChangeHat(task[t], names, child.token))
                     /\ names = <<>> \/ names[1] = None
    <3>1. CASE r = AaChangeHat(t, Null, Token)
      <4>1. r = Deliver(t, KernelChangeHat(task[t], <<None>>, child.token))
        BY <1>2, <3>1 DEF HasToken, AaChangeHat, Token, Null, TooLong
      <4> QED BY <4>1
    <3>2. CASE r = AaChangeHatv(t, <<>>, Token)
      <4>1. TooLong \notin Range(<<>>)
        BY DEF Range
      <4>2. r = Deliver(t, KernelChangeHat(task[t], <<>>, child.token))
        BY <1>2, <3>2, <4>1 DEF HasToken, AaChangeHatv, Token
      <4> QED BY <4>2
    <3> QED BY <3>1, <3>2
  <2> DEFINE e == KernelChangeHat(task[t], names, child.token)
  <2>2. GoodPolicy
    BY DEF HttpInv
  <2>3. /\ OnlyTask(r, t)
        /\ ~Reached => r.task[t] = task[t]
        /\ Reached => r.task[t] = e.task
    BY <2>1, DeliveredChangeHat
  <2>4. Reached => e.task.label = "profile" /\ e.task.prev = None
    BY <1>2, <2>1, <2>2, KernelGoesBack
  <2> HIDE DEF e
  <2> QED BY <1>2, <2>3, <2>4
<1> QED BY <1>1, <1>2

(* and into the hat of a request. *)
LEMMA RequestEffect ==
    ASSUME BaseInv, HttpInv, NEW t \in Tasks, Reached => GoodTask(t), NEW q0 \in Requests
    PROVE  LET r == AaChangeHatv(t, HatArray(q0), Token)
           IN  /\ OnlyTask(r, t)
               /\ ~Reached => r.task[t] = task[t]
               /\ Reached /\ Existing(HatsOf(q0)) # {} =>
                    InHat(r.task[t], FirstOf(HatsOf(q0))) /\ FirstOf(HatsOf(q0)) \in policy.hats
               /\ Reached /\ Existing(HatsOf(q0)) = {} => r.task[t] = task[t]
<1> DEFINE names == HatArray(q0)
           e == KernelChangeHat(task[t], names, child.token)
           r == AaChangeHatv(t, names, Token)
<1>1. GoodPolicy
  BY DEF HttpInv
<1>2. /\ DOMAIN names \subseteq Nat /\ names # <<>> /\ names[1] # None
      /\ TooLong \notin Range(names)
      /\ Existing(names) = {} <=> Existing(HatsOf(q0)) = {}
      /\ Existing(names) # {} => FirstOf(names) = FirstOf(HatsOf(q0))
  BY <1>1, SameHats
<1> HIDE DEF names
<1>3. r = Deliver(t, e)
  BY <1>2 DEF AaChangeHatv, Token
<1>4. /\ OnlyTask(r, t)
      /\ ~Reached => r.task[t] = task[t]
      /\ Reached => r.task[t] = e.task
  BY <1>3, DeliveredChangeHat
<1>5. Reached => /\ Existing(names) = {} => e.task = task[t]
                 /\ Existing(names) # {} => InHat(e.task, FirstOf(names))
  BY <1>1, <1>2, KernelEnters
<1>6. Existing(names) # {} => FirstOf(names) \in policy.hats
  BY <1>2, FirstExisting
<1> HIDE DEF e, r
<1>7. /\ Reached /\ Existing(HatsOf(q0)) # {} => InHat(r.task[t], FirstOf(HatsOf(q0))) /\ FirstOf(HatsOf(q0)) \in policy.hats
      /\ Reached /\ Existing(HatsOf(q0)) = {} => r.task[t] = task[t]
  BY <1>2, <1>4, <1>5, <1>6 DEF InHat
<1> QED BY <1>4, <1>7 DEF r, names
(* A step of one thread leaves the others where they are: a child with     *)
(* several threads does not rely on the flag.                              *)
LEMMA ThreadStep ==
    ASSUME HttpInv, NEW t \in Tasks, stage[t] \notin {"none", "start"}, HttpType', sys' = sys, policy' = policy,
           child'.up = child.up, child'.token = child.token, child'.threads = child.threads,
           \A u \in Tasks : u # t => /\ task'[u] = task[u] /\ stage'[u] = stage[u]
                                     /\ req'[u] = req[u] /\ redirected'[u] = redirected[u],
           stage'[t] \notin {"none", "start"},
           stage'[t] \in {"enter", "clear", "hats", "handling"} => req'[t] \in Requests,
           ~Reached => task'[t] = task[t],
           Reached => GoodTask(t)' /\ AtStage(t)'
    PROVE  HttpInv'
<1>1. /\ Reached' <=> Reached
      /\ HasDefault' <=> HasDefault
      /\ HasToken' <=> HasToken
      /\ Prefork' <=> Prefork
  BY DEF Reached, Active, HasDefault, HasToken, Prefork
<1>2. child.up
  BY DEF HttpInv
<1>3. GoodPolicy' /\ Reaches(sys)'
  BY DEF HttpInv, GoodPolicy, Reaches
<1>4. \A u \in Tasks : stage'[u] # "none" => child'.up
  BY <1>2
<1>5. \A u \in Tasks : stage'[u] \in {"enter", "clear", "hats", "handling"} => req'[u] \in Requests
  BY DEF HttpInv
<1>6. stage'[1] # "start"
  <2>1. stage[1] # "start"
    BY DEF HttpInv
  <2>2. CASE t = 1
    BY <2>2
  <2>3. CASE t # 1
    BY <2>1, <2>3, TasksAssumption
  <2> QED BY <2>2, <2>3
<1>7. ~Reached => \A u \in Tasks : task'[u] = NewTask(policy')
  BY DEF HttpInv
<1>8. ASSUME Reached, NEW u \in Tasks PROVE task'[u].label # "killed" /\ GoodTask(u)' /\ AtStage(u)'
  <2>1. CASE u = t
    <3>1. GoodTask(u)' /\ AtStage(u)'
      BY <1>8, <2>1
    <3> QED BY <1>3, <3>1 DEF GoodTask, InProfile, GoodPolicy
  <2>2. CASE u # t
    <3>1. task'[u] = task[u] /\ stage'[u] = stage[u] /\ req'[u] = req[u] /\ redirected'[u] = redirected[u]
      BY <2>2
    <3>2. task[u].label # "killed" /\ GoodTask(u) /\ AtStage(u) /\ AtStage(t)
      BY <1>2, <1>8 DEF HttpInv
    <3>3. t \in child.threads
      BY <3>2 DEF AtStage
    <3>4. ~Prefork \/ stage[u] \in {"none", "start"}
      BY <2>2, <3>2, <3>3 DEF AtStage, Prefork
    <3>5. GoodTask(u)'
      BY <3>1, <3>2 DEF GoodTask, InProfile
    <3>6. AtStage(u)'
      <4>1. InProfile(u)' <=> InProfile(u)
        BY <3>1 DEF InProfile
      <4>2. Existing(HatsOf(req[u]))' = Existing(HatsOf(req[u])) /\ FirstOf(HatsOf(req[u]))' = FirstOf(HatsOf(req[u]))
        BY <3>1 DEF Existing, FirstOf
      <4> QED BY <1>1, <3>1, <3>2, <3>4, <4>1, <4>2 DEF AtStage
    <3> QED BY <3>1, <3>2, <3>5, <3>6
  <2> QED BY <2>1, <2>2
<1> QED BY <1>1, <1>3, <1>4, <1>5, <1>6, <1>7, <1>8 DEF HttpInv
(* Threads that are at work are as they should be. *)
LEMMA AtWork ==
    ASSUME HttpInv, NEW t \in Tasks, stage[t] # "none"
    PROVE  Reached => GoodTask(t) /\ AtStage(t)
BY DEF HttpInv

LEMMA ArriveKeeps == ASSUME HttpInv, NEW t \in Tasks, NEW q0 \in Requests, Arrive(t, q0) PROVE HttpInv'
<1>1. /\ stage[t] \in {"idle", "handling"} /\ stage' = [stage EXCEPT ![t] = "enter"]
      /\ req' = [req EXCEPT ![t] = q0]
      /\ redirected' = [redirected EXCEPT ![t] = stage[t] = "handling"]
  BY DEF Arrive, Go
<1>2. sys' = sys /\ policy' = policy /\ task' = task /\ magic_token' = magic_token /\ child' = child
  BY DEF Arrive, NotBase, base_vars
<1>3. redirected' \in [Tasks -> BOOLEAN]
  <2>1. (stage[t] = "handling") \in BOOLEAN
    BY Zenon
  <2> QED BY <1>1, <2>1 DEF HttpInv, HttpType
<1>4. HttpType'
  BY <1>1, <1>2, <1>3 DEF HttpInv, HttpType, Stages
<1>5. stage'[t] = "enter" /\ req'[t] = q0
  BY <1>1 DEF HttpInv, HttpType
<1>6. redirected'[t] <=> stage[t] = "handling"
  <2>1. redirected'[t] = (stage[t] = "handling")
    BY <1>1, Zenon DEF HttpInv, HttpType
  <2> QED BY <2>1, Zenon
<1>7. \A u \in Tasks : u # t => stage'[u] = stage[u] /\ req'[u] = req[u] /\ redirected'[u] = redirected[u]
  BY <1>1 DEF HttpInv, HttpType
<1>8. ASSUME Reached PROVE GoodTask(t)' /\ AtStage(t)'
  <2>1. GoodTask(t) /\ AtStage(t)
    BY <1>1, <1>8, AtWork
  <2>2. GoodTask(t)'
    BY <1>2, <2>1 DEF GoodTask, InProfile
  <2>3. t \in child'.threads
    BY <1>1, <1>2, <2>1 DEF AtStage
  <2>4. ~redirected'[t] /\ Prefork' /\ HasToken' => IF HasDefault' THEN Inside' ELSE InProfile(t)'
    BY <1>1, <1>2, <1>6, <2>1 DEF AtStage, Prefork, HasToken, HasDefault, Inside, InProfile
  <2> QED BY <1>5, <2>2, <2>3, <2>4 DEF AtStage
<1> QED BY <1>1, <1>2, <1>4, <1>5, <1>7, <1>8, ThreadStep

LEMMA LeaveDefaultKeeps == ASSUME BaseInv, HttpInv, NEW t \in Tasks, LeaveDefault(t) PROVE HttpInv'
<1>1. stage[t] = "enter" /\ magic_token' = magic_token /\ child' = child /\ req' = req /\ redirected' = redirected
  BY DEF LeaveDefault
<1>2. Reached => GoodTask(t) /\ AtStage(t)
  BY <1>1, AtWork
<1>3. req[t] \in Requests
  BY <1>1 DEF HttpInv
<1>4. CASE Inside
  <2> DEFINE r == AaChangeHat(t, Null, Token)
  <2>1. Took(r) /\ stage' = [stage EXCEPT ![t] = "clear"]
    BY <1>4 DEF LeaveDefault, Go, Inside
  <2>2. /\ OnlyTask(r, t)
        /\ ~Reached => r.task[t] = task[t]
        /\ Reached /\ HasToken => r.task[t].label = "profile" /\ r.task[t].prev = None
        /\ Reached /\ ~HasToken => r.task[t] = task[t]
    BY <1>2, BackEffect
  <2> HIDE DEF r
  <2>3. sys' = sys /\ policy' = policy /\ task' = r.task
    BY <2>1 DEF Took
  <2>4. HttpType'
    BY <1>1, <2>1, <2>2, <2>3 DEF HttpInv, HttpType, Stages, OnlyTask
  <2>5. stage'[t] = "clear" /\ \A u \in Tasks : u # t => stage'[u] = stage[u]
    BY <2>1 DEF HttpInv, HttpType
  <2>6. ASSUME Reached PROVE GoodTask(t)' /\ AtStage(t)'
    <3>1. GoodTask(t)'
      BY <1>1, <1>2, <2>2, <2>3, <2>6 DEF GoodTask, InProfile
    <3>2. t \in child'.threads
      BY <1>1, <1>2, <2>6 DEF AtStage
    <3>3. HasToken' => InProfile(t)'
      BY <1>1, <2>2, <2>3, <2>6 DEF HasToken, InProfile
    <3> QED BY <2>5, <3>1, <3>2, <3>3 DEF AtStage
  <2>7. ~Reached => task'[t] = task[t]
    BY <2>2, <2>3
  <2>8. \A u \in Tasks : u # t => task'[u] = task[u]
    BY <2>2, <2>3 DEF OnlyTask
  <2> QED BY <1>1, <1>3, <2>3, <2>4, <2>5, <2>6, <2>7, <2>8, ThreadStep
<1>5. CASE ~Inside
  <2>1. NotBase /\ stage' = [stage EXCEPT ![t] = "hats"]
    BY <1>5 DEF LeaveDefault, Go, Inside
  <2>2. sys' = sys /\ policy' = policy /\ task' = task
    BY <2>1 DEF NotBase, base_vars
  <2>3. HttpType'
    BY <1>1, <2>1, <2>2 DEF HttpInv, HttpType, Stages
  <2>4. stage'[t] = "hats" /\ \A u \in Tasks : u # t => stage'[u] = stage[u]
    BY <2>1 DEF HttpInv, HttpType
  <2>5. ASSUME Reached PROVE GoodTask(t)' /\ AtStage(t)'
    <3>1. GoodTask(t)'
      BY <1>1, <1>2, <2>2, <2>5 DEF GoodTask, InProfile
    <3>2. t \in child'.threads
      BY <1>1, <1>2, <2>5 DEF AtStage
    <3>3. ~redirected'[t] /\ Prefork' /\ HasToken' => InProfile(t)'
      BY <1>1, <1>2, <1>5, <2>2, <2>5 DEF AtStage, Prefork, HasToken, InProfile
    <3> QED BY <2>4, <3>1, <3>2, <3>3 DEF AtStage
  <2> QED BY <1>1, <1>3, <2>2, <2>3, <2>4, <2>5, ThreadStep
<1> QED BY <1>4, <1>5

LEMMA ClearInsideKeeps == ASSUME HttpInv, NEW t \in Tasks, ClearInside(t) PROVE HttpInv'
<1>1. /\ stage[t] = "clear" /\ stage' = [stage EXCEPT ![t] = "hats"]
      /\ magic_token' = magic_token /\ req' = req /\ redirected' = redirected
      /\ child' = [child EXCEPT !.inside_default_hat = FALSE]
  BY DEF ClearInside, Go
<1>2. sys' = sys /\ policy' = policy /\ task' = task
  BY DEF ClearInside, NotBase, base_vars
<1>3. HttpType'
  BY <1>1, <1>2 DEF HttpInv, HttpType, Stages
<1>4. child'.up = child.up /\ child'.token = child.token /\ child'.threads = child.threads
  BY <1>1 DEF HttpInv, HttpType
<1>5. stage'[t] = "hats" /\ req[t] \in Requests /\ \A u \in Tasks : u # t => stage'[u] = stage[u]
  BY <1>1 DEF HttpInv, HttpType
<1>6. ASSUME Reached PROVE GoodTask(t)' /\ AtStage(t)'
  <2>1. GoodTask(t) /\ AtStage(t)
    BY <1>1, <1>6, AtWork
  <2>2. GoodTask(t)'
    BY <1>2, <1>4, <2>1 DEF GoodTask, InProfile
  <2>3. t \in child'.threads /\ (HasToken' => InProfile(t)')
    BY <1>1, <1>2, <1>4, <2>1 DEF AtStage, HasToken, InProfile
  <2> QED BY <1>5, <2>2, <2>3 DEF AtStage
<1> QED BY <1>1, <1>2, <1>3, <1>4, <1>5, <1>6, ThreadStep

LEMMA EnterHatKeeps == ASSUME BaseInv, HttpInv, NEW t \in Tasks, EnterHat(t) PROVE HttpInv'
<1> DEFINE r == AaChangeHatv(t, HatArray(req[t]), Token)
           hats == HatsOf(req[t])
<1>1. /\ stage[t] = "hats" /\ stage' = [stage EXCEPT ![t] = "handling"] /\ Took(r)
      /\ magic_token' = magic_token /\ child' = child /\ req' = req /\ redirected' = redirected
  BY DEF EnterHat, Go
<1>2. Reached => GoodTask(t) /\ AtStage(t)
  BY <1>1, AtWork
<1>3. req[t] \in Requests
  BY <1>1 DEF HttpInv
<1>4. /\ OnlyTask(r, t)
      /\ ~Reached => r.task[t] = task[t]
      /\ Reached /\ Existing(hats) # {} => InHat(r.task[t], FirstOf(hats)) /\ FirstOf(hats) \in policy.hats
      /\ Reached /\ Existing(hats) = {} => r.task[t] = task[t]
  BY <1>2, <1>3, RequestEffect
<1>5. sys' = sys /\ policy' = policy /\ task' = r.task
  BY <1>1 DEF Took
<1>6. hats' = hats /\ Existing(hats)' = Existing(hats) /\ FirstOf(hats)' = FirstOf(hats)
  BY <1>1, <1>5 DEF Existing, FirstOf, HatsOf
<1> HIDE DEF r, hats
<1>7. HttpType'
  BY <1>1, <1>4, <1>5 DEF HttpInv, HttpType, Stages, OnlyTask
<1>8. stage'[t] = "handling" /\ \A u \in Tasks : u # t => stage'[u] = stage[u]
  BY <1>1 DEF HttpInv, HttpType
<1>9. ASSUME Reached PROVE GoodTask(t)' /\ AtStage(t)'
  <2>1. GoodTask(t)'
    BY <1>1, <1>2, <1>4, <1>5, <1>9 DEF GoodTask, InProfile, InHat
  <2>2. t \in child'.threads
    BY <1>1, <1>2, <1>9 DEF AtStage
  <2>3. Existing(hats) # {} => task'[t].label = FirstOf(hats)
    BY <1>4, <1>5, <1>9 DEF InHat
  <2>4. Existing(hats) = {} /\ ~redirected'[t] /\ Prefork' /\ HasToken' => InProfile(t)'
    BY <1>1, <1>2, <1>4, <1>5, <1>9 DEF AtStage, Prefork, HasToken, InProfile
  <2> QED BY <1>6, <1>8, <2>1, <2>2, <2>3, <2>4 DEF AtStage, hats
<1>10. ~Reached => task'[t] = task[t]
  BY <1>4, <1>5
<1>11. \A u \in Tasks : u # t => task'[u] = task[u]
  BY <1>4, <1>5 DEF OnlyTask
<1> QED BY <1>1, <1>3, <1>5, <1>7, <1>8, <1>9, <1>10, <1>11, ThreadStep

LEMMA ExitHatKeeps == ASSUME BaseInv, HttpInv, NEW t \in Tasks, ExitHat(t) PROVE HttpInv'
<1> DEFINE r == AaChangeHatv(t, <<>>, Token)
<1>1. /\ stage[t] \in {"idle", "handling"} /\ stage' = [stage EXCEPT ![t] = "exit"] /\ Took(r)
      /\ magic_token' = magic_token /\ child' = child /\ req' = req /\ redirected' = redirected
  BY DEF ExitHat, BackToProfile, Go
<1>2. Reached => GoodTask(t) /\ AtStage(t)
  BY <1>1, AtWork
<1>3. /\ OnlyTask(r, t)
      /\ ~Reached => r.task[t] = task[t]
      /\ Reached /\ HasToken => r.task[t].label = "profile" /\ r.task[t].prev = None
      /\ Reached /\ ~HasToken => r.task[t] = task[t]
  BY <1>2, BackEffect
<1> HIDE DEF r
<1>4. sys' = sys /\ policy' = policy /\ task' = r.task
  BY <1>1 DEF Took
<1>5. HttpType'
  BY <1>1, <1>3, <1>4 DEF HttpInv, HttpType, Stages, OnlyTask
<1>6. stage'[t] = "exit" /\ \A u \in Tasks : u # t => stage'[u] = stage[u]
  BY <1>1 DEF HttpInv, HttpType
<1>7. ASSUME Reached PROVE GoodTask(t)' /\ AtStage(t)'
  <2>1. GoodTask(t)'
    BY <1>1, <1>2, <1>3, <1>4, <1>7 DEF GoodTask, InProfile
  <2>2. t \in child'.threads
    BY <1>1, <1>2, <1>7 DEF AtStage
  <2>3. HasToken' => InProfile(t)'
    BY <1>1, <1>3, <1>4, <1>7 DEF HasToken, InProfile
  <2> QED BY <1>6, <2>1, <2>2, <2>3 DEF AtStage
<1>8. ~Reached => task'[t] = task[t]
  BY <1>3, <1>4
<1>9. \A u \in Tasks : u # t => task'[u] = task[u]
  BY <1>3, <1>4 DEF OnlyTask
<1> QED BY <1>1, <1>4, <1>5, <1>6, <1>7, <1>8, <1>9, ThreadStep

LEMMA EnterDefaultKeeps == ASSUME BaseInv, HttpInv, NEW t \in Tasks, EnterDefault(t) PROVE HttpInv'
<1> DEFINE r == AaChangeHat(t, DEFAULT_HAT, Token)
           inside == IF r.errno = "0" THEN TRUE ELSE child.inside_default_hat
<1>1. /\ stage[t] = "exit" /\ stage' = [stage EXCEPT ![t] = "idle"] /\ Took(r)
      /\ child' = [child EXCEPT !.inside_default_hat = inside]
      /\ magic_token' = magic_token /\ req' = req /\ redirected' = [redirected EXCEPT ![t] = FALSE]
  BY DEF EnterDefault, Go
<1>2. Reached => GoodTask(t) /\ AtStage(t)
  BY <1>1, AtWork
<1>3. /\ OnlyTask(r, t)
      /\ ~Reached => r.task[t] = task[t]
      /\ Reached /\ HasDefault => InHat(r.task[t], DEFAULT_HAT) /\ r.errno = "0"
      /\ Reached /\ ~HasDefault => r.task[t] = task[t] /\ r.errno # "0"
  BY <1>2, DefaultHatEffect
<1> HIDE DEF r
<1>4. sys' = sys /\ policy' = policy /\ task' = r.task
  BY <1>1 DEF Took
<1>5. inside \in BOOLEAN /\ (r.errno = "0" => inside = TRUE)
  BY Zenon DEF HttpInv, HttpType
<1> HIDE DEF inside
<1>6. HttpType'
  BY <1>1, <1>3, <1>4, <1>5 DEF HttpInv, HttpType, Stages, OnlyTask
<1>7. child'.up = child.up /\ child'.token = child.token /\ child'.threads = child.threads /\ child'.inside_default_hat = inside
  BY <1>1 DEF HttpInv, HttpType
<1>8. stage'[t] = "idle" /\ \A u \in Tasks : u # t => stage'[u] = stage[u] /\ redirected'[u] = redirected[u]
  BY <1>1 DEF HttpInv, HttpType
<1>9. ASSUME Reached PROVE GoodTask(t)' /\ AtStage(t)'
  <2>1. GoodTask(t)'
    BY <1>2, <1>3, <1>4, <1>7, <1>9 DEF GoodTask, InProfile, InHat, HasDefault
  <2>2. t \in child'.threads
    BY <1>1, <1>2, <1>7, <1>9 DEF AtStage
  <2>3. CASE HasDefault
    <3>1. task'[t].label = DEFAULT_HAT
      BY <1>3, <1>4, <1>9, <2>3 DEF InHat
    <3>2. Inside'
      BY <1>3, <1>5, <1>7, <1>9, <2>3 DEF Inside
    <3>3. HasDefault'
      BY <1>4, <2>3 DEF HasDefault
    <3> QED BY <1>8, <2>1, <2>2, <3>1, <3>2, <3>3 DEF AtStage
  <2>4. CASE ~HasDefault
    <3>1. HasToken' => InProfile(t)'
      BY <1>1, <1>2, <1>3, <1>4, <1>7, <1>9, <2>4 DEF AtStage, HasToken, InProfile
    <3>2. ~HasDefault'
      BY <1>4, <2>4 DEF HasDefault
    <3> QED BY <1>8, <2>1, <2>2, <3>1, <3>2 DEF AtStage
  <2> QED BY <2>3, <2>4
<1>10. ~Reached => task'[t] = task[t]
  BY <1>3, <1>4
<1>11. \A u \in Tasks : u # t => task'[u] = task[u]
  BY <1>3, <1>4 DEF OnlyTask
<1> QED BY <1>1, <1>4, <1>6, <1>7, <1>8, <1>9, <1>10, <1>11, ThreadStep
(* The parent draws a token: the child's is its own. *)
LEMMA AaInitKeeps == ASSUME HttpInv, AaInit PROVE HttpInv'
<1>1. magic_token' \in Tokens \union {0} /\ child' = child /\ stage' = stage /\ req' = req /\ redirected' = redirected
  BY DEF AaInit
<1>2. sys' = sys /\ policy' = policy /\ task' = task
  BY DEF AaInit, NotBase, base_vars
<1>3. HttpType'
  BY <1>1, <1>2 DEF HttpInv, HttpType
<1>4. /\ Reached' <=> Reached
      /\ GoodPolicy' /\ Reaches(sys)'
  BY <1>2 DEF Reached, Active, HttpInv, GoodPolicy, Reaches
<1>5. ASSUME NEW t \in Tasks PROVE (GoodTask(t) => GoodTask(t)') /\ (AtStage(t) => AtStage(t)')
  <2>1. Existing(HatsOf(req[t]))' = Existing(HatsOf(req[t])) /\ FirstOf(HatsOf(req[t]))' = FirstOf(HatsOf(req[t]))
    BY <1>1, <1>2 DEF Existing, FirstOf
  <2> QED BY <1>1, <1>2, <2>1 DEF GoodTask, AtStage, InProfile, HasToken, HasDefault, Inside, Prefork
<1> QED BY <1>1, <1>2, <1>3, <1>4, <1>5 DEF HttpInv

LEMMA ForkKeeps == ASSUME HttpInv, NEW n, Fork(n) PROVE HttpInv'
<1>1. /\ child' = [up |-> TRUE, token |-> magic_token, inside_default_hat |-> FALSE, threads |-> 1 .. n]
      /\ task' = [t \in Tasks |-> NewTask(policy)]
      /\ stage' = [t \in Tasks |-> IF t = 1 THEN "start" ELSE "none"]
      /\ redirected' = [t \in Tasks |-> FALSE] /\ req' = [t \in Tasks |-> NoReq]
      /\ sys' = sys /\ policy' = policy /\ magic_token' = magic_token
  BY DEF Fork
<1>2. 1 .. n \in SUBSET Int
  OBVIOUS
<1>3. HttpType'
  BY <1>1, <1>2 DEF HttpInv, HttpType, Stages
<1>4. GoodPolicy' /\ Reaches(sys)' /\ (Reached' <=> Reached)
  BY <1>1 DEF Reached, Active, HttpInv, GoodPolicy, Reaches
<1>5. \A t \in Tasks : task'[t] = NewTask(policy') /\ stage'[t] \in {"none", "start"}
  BY <1>1
<1>6. ASSUME Reached, NEW t \in Tasks PROVE task'[t].label # "killed" /\ GoodTask(t)' /\ AtStage(t)'
  <2>1. task'[t].label = "profile" /\ task'[t].prev = None
    BY <1>1, <1>5, <1>6 DEF NewTask, Reached
  <2> QED BY <1>5, <2>1 DEF GoodTask, InProfile, AtStage
<1>7. child'.up
  BY <1>1
<1> QED BY <1>3, <1>4, <1>5, <1>6, <1>7 DEF HttpInv

LEMMA ChildEndsKeeps == ASSUME HttpInv, ChildEnds PROVE HttpInv'
<1>1. /\ child' = NoChild /\ stage' = [t \in Tasks |-> "none"]
      /\ magic_token' = magic_token /\ req' = req /\ redirected' = redirected
  BY DEF ChildEnds
<1>2. sys' = sys /\ policy' = policy /\ task' = task
  BY DEF ChildEnds, NotBase, base_vars
<1>3. HttpType'
  BY <1>1, <1>2 DEF HttpInv, HttpType, Stages, NoChild
<1>4. GoodPolicy' /\ Reaches(sys)' /\ (Reached' <=> Reached)
  BY <1>2 DEF Reached, Active, HttpInv, GoodPolicy, Reaches
<1>5. \A t \in Tasks : stage'[t] = "none"
  BY <1>1
<1>6. \A t \in Tasks : AtStage(t)'
  BY <1>5 DEF AtStage
<1>7. ~child'.up
  BY <1>1 DEF NoChild
<1> QED BY <1>2, <1>3, <1>4, <1>5, <1>6, <1>7, TasksAssumption DEF HttpInv

LEMMA AaChildInitKeeps == ASSUME BaseInv, HttpInv, AaChildInit PROVE HttpInv'
<1> DEFINE r == AaChangeHat(1, DEFAULT_HAT, Token)
           inside == r.errno = "0"
<1>1. /\ stage[1] = "start" /\ child' = [child EXCEPT !.inside_default_hat = inside]
      /\ task' = [t \in Tasks |-> r.task[1]]
      /\ stage' = [t \in Tasks |-> IF t \in child.threads THEN "idle" ELSE "none"]
      /\ sys' = sys /\ policy' = policy /\ magic_token' = magic_token /\ req' = req /\ redirected' = redirected
  BY DEF AaChildInit
<1>2. child.up /\ \A t \in Tasks : task[t] = NewTask(policy)
  BY <1>1, TasksAssumption DEF HttpInv
<1>3. Reached => GoodTask(1)
  BY <1>2, TasksAssumption DEF HttpInv
<1>4. /\ ~Reached => r.task[1] = task[1]
      /\ Reached /\ HasDefault => InHat(r.task[1], DEFAULT_HAT) /\ r.errno = "0"
      /\ Reached /\ ~HasDefault => r.task[1] = task[1] /\ r.errno # "0"
  BY <1>3, DefaultHatEffect, TasksAssumption
<1> HIDE DEF r
<1>5. inside \in BOOLEAN /\ (r.errno = "0" => inside = TRUE)
  BY Zenon
<1> HIDE DEF inside
<1>6. HttpType'
  BY <1>1, <1>5 DEF HttpInv, HttpType, Stages
<1>7. child'.up = child.up /\ child'.token = child.token /\ child'.threads = child.threads /\ child'.inside_default_hat = inside
  BY <1>1 DEF HttpInv, HttpType
<1>8. GoodPolicy' /\ Reaches(sys)' /\ (Reached' <=> Reached) /\ (HasDefault' <=> HasDefault)
  BY <1>1 DEF Reached, Active, HttpInv, GoodPolicy, Reaches, HasDefault
<1>9. \A t \in Tasks : /\ task'[t] = r.task[1]
                       /\ stage'[t] = "none" \/ (stage'[t] = "idle" /\ t \in child'.threads)
  BY <1>1, <1>7
<1>10. ~Reached => \A t \in Tasks : task'[t] = NewTask(policy')
  BY <1>1, <1>2, <1>4, <1>9, TasksAssumption
<1>11. ASSUME Reached, NEW t \in Tasks PROVE task'[t].label # "killed" /\ GoodTask(t)' /\ AtStage(t)'
  <2>1. CASE HasDefault
    <3>1. task'[t].label = DEFAULT_HAT /\ task'[t].prev = "profile" /\ task'[t].token = child'.token
      BY <1>4, <1>7, <1>9, <1>11, <2>1 DEF InHat
    <3>2. DEFAULT_HAT \in policy'.hats /\ Inside'
      BY <1>1, <1>4, <1>5, <1>7, <1>11, <2>1 DEF HasDefault, Inside
    <3> QED BY <1>8, <1>9, <2>1, <3>1, <3>2 DEF GoodTask, AtStage, DEFAULT_HAT
  <2>2. CASE ~HasDefault
    <3>1. task'[t].label = "profile" /\ task'[t].prev = None
      BY <1>2, <1>4, <1>9, <1>11, <2>2, TasksAssumption DEF NewTask, Reached
    <3> QED BY <1>8, <1>9, <2>2, <3>1 DEF GoodTask, InProfile, AtStage
  <2> QED BY <2>1, <2>2
<1>12. /\ \A t \in Tasks : stage'[t] # "none" => child'.up
       /\ \A t \in Tasks : stage'[t] \notin {"start", "enter", "clear", "hats", "handling"}
  BY <1>2, <1>7, <1>9
<1> QED BY <1>6, <1>8, <1>10, <1>11, <1>12, TasksAssumption DEF HttpInv

LEMMA HttpNext == ASSUME BaseInv, prog = "httpd", HttpInv, [Next]_vars PROVE HttpInv'
<1>1. CASE Httpd
  BY <1>1, AaInitKeeps, ForkKeeps, ChildEndsKeeps, AaChildInitKeeps, ArriveKeeps, LeaveDefaultKeeps, ClearInsideKeeps,
     EnterHatKeeps, ExitHatKeeps, EnterDefaultKeeps DEF Httpd
<1>2. CASE UNCHANGED vars
  <2>1. /\ UNCHANGED <<sys, policy, task>>
        /\ UNCHANGED <<magic_token, child, stage, req, redirected>>
    BY <1>2 DEF vars, base_vars, http_vars
  <2>2. HttpType' /\ GoodPolicy' /\ Reaches(sys)' /\ (Reached' <=> Reached)
    BY <2>1 DEF HttpInv, HttpType, GoodPolicy, Reaches, Reached, Active
  <2>3. ASSUME NEW t \in Tasks PROVE (GoodTask(t) => GoodTask(t)') /\ (AtStage(t) => AtStage(t)')
    <3>1. Existing(HatsOf(req[t]))' = Existing(HatsOf(req[t])) /\ FirstOf(HatsOf(req[t]))' = FirstOf(HatsOf(req[t]))
      BY <2>1 DEF Existing, FirstOf
    <3> QED BY <2>1, <3>1 DEF GoodTask, AtStage, InProfile, HasToken, HasDefault, Inside, Prefork
  <2> QED BY <2>1, <2>2, <2>3 DEF HttpInv
<1>3. ~Caller /\ ~Pam /\ ~AaExec /\ ~Reader /\ ~Query
  <2>1. ~Caller
    BY DEF Caller, Call, Callv, Stack, IsEnabled, Deny
  <2>2. ~Pam /\ ~AaExec
    BY DEF Pam, AaExec, ParseOption, AddHatType, OpenSession, TryHat, JumpBack, NoMoreHats, ParseArg, ParsedArgs, ChangeProfile, Execvp
  <2>3. ~Reader
    BY DEF Reader, ReadStep, Begin, SelfAttr1, SelfAttr2, ReadOpen, ReadSome, ReadError, ReadAll, GetPeer, NoPeer, TargetChanges, ReadingNow
  <2>4. ~Query
    BY DEF Query, Mounts, LabelGone, Ask, FindAccess, OpenAccess, WriteQuery, ReadAnswer
  <2> QED BY <2>1, <2>2, <2>3, <2>4
<1> QED BY <1>1, <1>2, <1>3 DEF Next

(* The program does not change. *)
LEMMA ProgKept == [Next]_vars => prog' = prog
<1>1. ASSUME NEW r, Took(r) PROVE prog' = prog
  BY <1>1 DEF Took
<1>2. ASSUME NotBase PROVE prog' = prog
  BY <1>2 DEF NotBase, base_vars
<1>3. Caller => prog' = prog
  BY <1>1, Zenon DEF Caller, Call, Callv, Stack, IsEnabled, Deny
<1>4. Httpd => prog' = prog
  BY <1>1, <1>2, Zenon DEF Httpd, AaInit, Fork, ChildEnds, AaChildInit, Arrive, LeaveDefault, ClearInside, EnterHat, ExitHat, BackToProfile, EnterDefault
<1>5. Pam \/ AaExec => prog' = prog
  BY <1>1, <1>2, Zenon DEF Pam, AaExec, ParseOption, AddHatType, OpenSession, TryHat, JumpBack, NoMoreHats, ParseArg, ParsedArgs, ChangeProfile, Execvp
<1>6. Reader => prog' = prog
  BY <1>2, Zenon DEF Reader, ReadStep, Begin, SelfAttr1, SelfAttr2, ReadOpen, ReadSome, ReadError, ReadAll, GetPeer, NoPeer, TargetChanges
<1>7. Query => prog' = prog
  BY <1>2, Zenon DEF Query, Mounts, LabelGone, Ask, FindAccess, OpenAccess, WriteQuery, ReadAnswer
<1>8. UNCHANGED vars => prog' = prog
  BY DEF vars, base_vars
<1> QED BY <1>3, <1>4, <1>5, <1>6, <1>7, <1>8 DEF Next

LEMMA HttpStart ==
    ASSUME \A s \in Systems["httpd"] : Reaches(s), Init, prog = "httpd"
    PROVE  HttpInv
<1>1. /\ magic_token = 0 /\ child = NoChild /\ redirected = [t \in Tasks |-> FALSE]
      /\ stage = [t \in Tasks |-> "none"] /\ req = [t \in Tasks |-> NoReq]
  BY DEF Init, HttpInit
<1>2. /\ sys \in Systems["httpd"] /\ policy \in Policies["httpd"] /\ task = [t \in Tasks |-> NewTask(policy)]
  BY DEF Init, BaseInit
<1>3. HttpType
  BY <1>1, <1>2 DEF HttpType, Stages, NoChild
<1>4. GoodPolicy /\ Reaches(sys)
  BY <1>2, PoliciesAssumption DEF GoodPolicy, Programs
<1>5. \A t \in Tasks : stage[t] = "none" /\ task[t] = NewTask(policy)
  BY <1>1, <1>2
<1>6. \A t \in Tasks : AtStage(t) /\ task[t].label # "killed"
  BY <1>5 DEF AtStage, NewTask
<1>7. ~child.up
  BY <1>1 DEF NoChild
<1> QED BY <1>3, <1>4, <1>5, <1>6, <1>7, TasksAssumption DEF HttpInv

(* A child that can reach apparmor: no thread is ever killed, whenever the *)
(* parent draws tokens and children begin and end; each request is handled *)
(* in the first of its hats that exists, and no thread takes the hat of a  *)
(* request into the next (aa_enter_hat, aa_exit_hat, aa_child_init), for   *)
(* every number of threads and all policies and requests.                  *)
THEOREM HatsFollowRequestsThm ==
    ASSUME \A s \in Systems["httpd"] : Reaches(s)
    PROVE  Spec => []HatsFollowRequests
<1> DEFINE Inv == BaseInv /\ (prog = "httpd" => HttpInv)
<1>1. Init => Inv
  BY BaseStart, HttpStart
<1>2. Inv /\ [Next]_vars => Inv'
  BY BaseNext, HttpNext, ProgKept
<1>3. Inv => HatsFollowRequests
  <2> SUFFICES ASSUME prog = "httpd", HttpInv PROVE HatsFollowRequests
    BY DEF HatsFollowRequests, NeverKilled, RequestInItsHat, IdleLeavesHat
  <2>1. NeverKilled
    <3>1. ~Reached => \A t \in Tasks : task[t].label # "killed"
      BY DEF HttpInv, NewTask
    <3> QED BY <3>1 DEF HttpInv, NeverKilled
  <2>2. Reached => \A t \in Tasks : AtStage(t)
    BY DEF HttpInv
  <2>3. RequestInItsHat
    BY <2>2 DEF RequestInItsHat, AtStage, Prefork, HasToken, InProfile
  <2>4. IdleLeavesHat
    BY <2>2 DEF IdleLeavesHat, AtStage, HasDefault, HasToken, InProfile
  <2> QED BY <2>1, <2>3, <2>4 DEF HatsFollowRequests
<1> QED BY <1>1, <1>2, <1>3, PTL DEF Spec
-----------------------------------------------------------------------------
(***************************************************************************)
(* Sessions and programs are confined or refused                           *)
(***************************************************************************)
PamResults == {"none", "SUCCESS", "SESSION_ERR", "SYSTEM_ERR", "USER_UNKNOWN", "PERM_DENIED"}
PamType ==
    /\ pam \in [st : {"options", "try", "back", "end"}, args : Seq(Seq(STRING)), k : Nat \ {0}, rest : Seq(STRING),
                order : Seq(HatTypes), ok : BOOLEAN, i : Nat \ {0}, ret : PamResults]
    /\ DOMAIN task = Tasks

(* The first n hats of the order do not exist. *)
Missing(n) == \A j \in 1 .. n : HatName(pam.order[j]) \notin policy.hats
Hats == [j \in DOMAIN pam.order |-> HatName(pam.order[j])]
HasBad == \E j \in DOMAIN pam.args : pam.args[j] = <<"bad">>

(* While hats are tried the task is in the profile, and those before the   *)
(* one whose turn it is do not exist; a wrong argument is not forgotten.   *)
PamInv ==
    /\ PamType
    /\ GoodPolicy
    /\ Reaches(sys)
    /\ pam.st = "options" => \A j \in DOMAIN pam.args : j < pam.k /\ pam.args[j] = <<"bad">> => ~pam.ok
    /\ pam.st = "options" => pam.i = 1
    /\ pam.st # "options" /\ HasBad => pam.st = "end" /\ pam.ret = "SESSION_ERR"
    /\ Reached /\ pam.st # "end" => task[1].label = "profile" /\ task[1].prev = None
    /\ Reached /\ pam.st = "try" => pam.order # <<>> /\ Missing(pam.i - 1)
    /\ Reached /\ pam.st = "back" => pam.order # <<>> /\ Missing(pam.i)
    /\ Reached /\ pam.st = "end" =>
         /\ pam.ret = "SUCCESS" => pam.order # <<>> /\ Existing(Hats) # {} /\ task[1].label = FirstOf(Hats)
         /\ pam.ret # "SUCCESS" => task[1].label = "profile"

(* aa-exec goes on only if the kernel took the profile, for now or for the *)
(* exec.                                                                   *)
ExecOption == ({"p", "n"} \X STRING) \union {<<"i">>, <<"bad">>}
ExecType == [st : {"options", "change", "exec", "running", "error"}, args : Seq(ExecOption),
             profile : STRING \union {None}, namespace : STRING \union {None}, immediate : BOOLEAN]
ExecInv ==
    /\ ax \in ExecType
    /\ DOMAIN task = Tasks
    /\ DOMAIN task[1] = {"label", "prev", "token", "exec"}
    /\ ax.st = "exec" /\ BuildName(ax) # None =>
         \/ task[1].exec = BuildName(ax)
         \/ task[1].exec = None /\ task[1].label = BuildName(ax)
    /\ ax.st = "running" /\ BuildName(ax) # None => task[1].label = BuildName(ax)

UserInv == /\ IF prog = "pam" THEN PamInv ELSE pam = NoPam
           /\ IF prog = "aa_exec" THEN ExecInv ELSE ax = NoExec
(* One hat tried from the profile, and the way back that nothing is left   *)
(* to do for                                                               *)
LEMMA TryEffect ==
    ASSUME BaseInv, Reaches(sys), DOMAIN task = Tasks, NEW hat, hat \notin {None, Null, TooLong}
    PROVE  LET r == AaChangeHat(1, hat, PamToken)
           IN  /\ DOMAIN r.task = Tasks
               /\ Reached /\ task[1].label = "profile" /\ task[1].prev = None =>
                    /\ hat \in policy.hats => r.errno = "0" /\ r.task[1].label = hat
                    /\ hat \notin policy.hats => r.errno \in {"ENOENT", "ECHILD"} /\ r.task[1] = task[1]
<1> DEFINE e == KernelChangeHat(task[1], <<hat>>, PamToken)
           r == AaChangeHat(1, hat, PamToken)
<1>1. r = Deliver(1, e)
  BY DEF AaChangeHat, PamToken
<1>2. /\ r.task = [task EXCEPT ![1] = IF Active THEN e.task ELSE task[1]]
      /\ Active => r.errno = e.errno
  <2> HIDE DEF e, r
  <2> QED BY <1>1, Delivered, TasksAssumption, Zenon
<1>3. DOMAIN r.task = Tasks /\ (Active => r.task[1] = e.task)
  BY <1>2, TasksAssumption
<1>4. ~(<<hat>> = <<>> \/ <<hat>>[1] = None) /\ DOMAIN <<hat>> = {1} /\ DOMAIN <<hat>> \subseteq Nat
  OBVIOUS
<1>5. ASSUME Reached, task[1].label = "profile", task[1].prev = None, hat \in policy.hats
      PROVE  r.errno = "0" /\ r.task[1].label = hat
  <2>1. Existing(<<hat>>) = {1}
    BY <1>5 DEF Existing
  <2>2. FirstOf(<<hat>>) = hat
    BY <1>4, <2>1, FirstIs
  <2>3. e = [task |-> [label |-> FirstOf(<<hat>>), prev |-> task[1].label, token |-> PamToken, exec |-> None], errno |-> "0"]
    <3>1. task[1].label # "unconfined"
      BY <1>5
    <3>2. Existing(<<hat>>) # {}
      BY <2>1
    <3> QED BY <1>4, <1>5, <3>1, <3>2, Zenon DEF KernelChangeHat
  <2> HIDE DEF e
  <2>4. e.task.label = hat /\ e.errno = "0"
    BY <2>2, <2>3
  <2> QED BY <1>2, <1>3, <1>5, <2>4 DEF Reached
<1>6. ASSUME Reached, task[1].label = "profile", task[1].prev = None, hat \notin policy.hats
      PROVE  r.errno \in {"ENOENT", "ECHILD"} /\ r.task[1] = task[1]
  <2>1. Existing(<<hat>>) = {}
    BY <1>6 DEF Existing
  <2>2. e = [task |-> task[1], errno |-> IF policy.hats = {} THEN "ECHILD" ELSE "ENOENT"]
    <3>1. task[1].label # "unconfined"
      BY <1>6
    <3> QED BY <1>4, <1>6, <2>1, <3>1, Zenon DEF KernelChangeHat
  <2> HIDE DEF e
  <2>3. e.task = task[1] /\ e.errno \in {"ENOENT", "ECHILD"}
    BY <2>2
  <2> QED BY <1>2, <1>3, <1>6, <2>3 DEF Reached
<1> QED BY <1>3, <1>5, <1>6

LEMMA JumpBackEffect ==
    ASSUME BaseInv, Reaches(sys), DOMAIN task = Tasks
    PROVE  LET r == AaChangeHat(1, Null, PamToken)
           IN  /\ DOMAIN r.task = Tasks
               /\ Reached /\ task[1].label = "profile" /\ task[1].prev = None => r.errno = "0" /\ r.task[1] = task[1]
<1> DEFINE e == KernelChangeHat(task[1], <<None>>, PamToken)
           r == AaChangeHat(1, Null, PamToken)
<1>1. r = Deliver(1, e)
  BY DEF AaChangeHat, PamToken, Null, TooLong
<1>2. /\ r.task = [task EXCEPT ![1] = IF Active THEN e.task ELSE task[1]]
      /\ Active => r.errno = e.errno
  <2> HIDE DEF e, r
  <2> QED BY <1>1, Delivered, TasksAssumption, Zenon
<1>3. DOMAIN r.task = Tasks /\ (Active => r.task[1] = e.task)
  BY <1>2, TasksAssumption
<1>4. ASSUME Reached, task[1].label = "profile", task[1].prev = None
      PROVE  r.errno = "0" /\ r.task[1] = task[1]
  <2>1. <<None>>[1] = None /\ task[1].label # "unconfined" /\ PamToken # 0
    BY <1>4 DEF PamToken
  <2>2. e = [task |-> task[1], errno |-> "0"]
    BY <1>4, <2>1, Zenon DEF KernelChangeHat
  <2> HIDE DEF e
  <2> QED BY <1>2, <1>3, <1>4, <2>2 DEF Reached
<1> QED BY <1>3, <1>4

(* The options: order holds types of hats only, and a wrong one is noted.  *)
LEMMA OptionsKeep == ASSUME PamInv, ParseOption \/ AddHatType PROVE PamInv'
<1>1. NotBase /\ pam.st = "options"
  BY Zenon DEF ParseOption, AddHatType
<1>2. sys' = sys /\ policy' = policy /\ task' = task
  BY <1>1 DEF NotBase, base_vars
<1>3. GoodPolicy' /\ Reaches(sys)' /\ (Reached' <=> Reached)
  BY <1>2 DEF Reached, Active, PamInv, GoodPolicy, Reaches
<1>4. ASSUME PamType', pam'.st = "options", pam'.i = pam.i,
             \A j \in DOMAIN pam'.args : j < pam'.k /\ pam'.args[j] = <<"bad">> => ~pam'.ok
      PROVE  PamInv'
  BY <1>1, <1>2, <1>3, <1>4 DEF PamInv
<1>5. \A j \in DOMAIN pam.args : j < pam.k /\ pam.args[j] = <<"bad">> => ~pam.ok
  BY <1>1 DEF PamInv
<1>6. ASSUME ParseOption PROVE PamInv'
  <2> DEFINE arg == pam.args[pam.k]
             ok == pam.ok /\ (arg = <<>> \/ arg[1] \in {"debug", "order"})
             rest == IF arg # <<>> /\ arg[1] = "order" THEN Tail(arg) ELSE <<>>
  <2>1. pam' = [pam EXCEPT !.k = pam.k + 1, !.rest = rest, !.ok = ok] /\ pam.k <= Len(pam.args)
    BY <1>6 DEF ParseOption
  <2>2. arg \in Seq(STRING) /\ pam.k \in Nat \ {0} /\ DOMAIN pam.args \subseteq Nat
    BY <2>1 DEF PamInv, PamType
  <2>3. rest \in Seq(STRING)
    <3>1. arg # <<>> => Tail(arg) \in Seq(STRING)
      BY <2>2, HeadTailProperties
    <3>2. <<>> \in Seq(STRING)
      OBVIOUS
    <3> QED BY <3>1, <3>2, Zenon
  <2>4. ok \in BOOLEAN
    BY Zenon DEF PamInv, PamType
  <2>5. arg = <<"bad">> => ~ok
    <3>1. arg = <<"bad">> => ~(arg = <<>> \/ arg[1] \in {"debug", "order"})
      OBVIOUS
    <3> QED BY <3>1, Zenon
  <2>6. ok => pam.ok
    BY Zenon
  <2> HIDE DEF ok, rest
  <2>7. \A j \in DOMAIN pam.args : j < pam.k + 1 /\ pam.args[j] = <<"bad">> => ~ok
    <3>1. \A j \in DOMAIN pam.args : j < pam.k + 1 => j < pam.k \/ j = pam.k
      BY <2>2
    <3> QED BY <1>5, <2>5, <2>6, <3>1
  <2>8. PamType' /\ pam'.st = "options" /\ pam'.i = pam.i /\ pam'.args = pam.args /\ pam'.k = pam.k + 1 /\ pam'.ok = ok
    <3> DEFINE k1 == pam.k + 1
    <3>1. k1 \in Nat \ {0}
      BY <2>2
    <3>2. pam' = [pam EXCEPT !.k = k1, !.rest = rest, !.ok = ok]
      BY <2>1
    <3> HIDE DEF k1
    <3>3. PamType'
      BY <1>1, <1>2, <2>3, <2>4, <3>1, <3>2 DEF PamInv, PamType
    <3>4. pam'.st = "options" /\ pam'.i = pam.i /\ pam'.args = pam.args /\ pam'.k = k1 /\ pam'.ok = ok
      BY <1>1, <3>2 DEF PamInv, PamType
    <3> QED BY <3>3, <3>4 DEF k1
  <2> QED BY <1>4, <2>7, <2>8
<1>7. ASSUME AddHatType PROVE PamInv'
  <2> DEFINE hat == Head(pam.rest)
             wrong == [pam EXCEPT !.ok = FALSE, !.rest = <<>>]
  <2>1. /\ pam.rest # <<>>
        /\ pam' = IF hat \notin HatTypes THEN wrong
                  ELSE IF hat \in Range(pam.order) THEN [wrong EXCEPT !.order = <<>>]
                  ELSE IF Len(pam.order) >= MAX_HAT_TYPES THEN wrong
                  ELSE [pam EXCEPT !.order = Append(pam.order, hat), !.rest = Tail(pam.rest)]
    BY <1>7 DEF AddHatType
  <2>2. pam.order \in Seq(HatTypes) /\ pam.rest \in Seq(STRING) /\ pam.ok \in BOOLEAN
    BY DEF PamInv, PamType
  <2>3. Tail(pam.rest) \in Seq(STRING)
    BY <2>1, <2>2, HeadTailProperties
  <2>4. hat \in HatTypes => Append(pam.order, hat) \in Seq(HatTypes)
    BY <2>2
  <2>5. <<>> \in Seq(STRING) /\ <<>> \in Seq(HatTypes)
    OBVIOUS
  <2> DEFINE added == Append(pam.order, hat)
             rest == Tail(pam.rest)
  <2> HIDE DEF hat, added, rest
  <2>6. CASE pam' = wrong
    <3>1. PamType' /\ pam'.st = "options" /\ pam'.i = pam.i /\ pam'.args = pam.args /\ pam'.k = pam.k /\ pam'.ok = FALSE
      BY <1>1, <1>2, <2>5, <2>6 DEF PamInv, PamType
    <3> QED BY <1>4, <3>1
  <2>7. CASE pam' = [wrong EXCEPT !.order = <<>>]
    <3>1. PamType' /\ pam'.st = "options" /\ pam'.i = pam.i /\ pam'.args = pam.args /\ pam'.k = pam.k /\ pam'.ok = FALSE
      BY <1>1, <1>2, <2>5, <2>7 DEF PamInv, PamType
    <3> QED BY <1>4, <3>1
  <2>8. CASE hat \in HatTypes /\ pam' = [pam EXCEPT !.order = added, !.rest = rest]
    <3>1. added \in Seq(HatTypes) /\ rest \in Seq(STRING)
      BY <2>3, <2>4, <2>8 DEF added, rest
    <3>2. PamType' /\ pam'.st = "options" /\ pam'.i = pam.i /\ pam'.args = pam.args /\ pam'.k = pam.k /\ pam'.ok = pam.ok
      BY <1>1, <1>2, <2>8, <3>1 DEF PamInv, PamType
    <3> QED BY <1>4, <1>5, <3>2
  <2> QED BY <2>1, <2>6, <2>7, <2>8 DEF added, rest
<1> QED BY <1>6, <1>7
(* The end of a session's call *)
LEMMA ReturnKeeps ==
    ASSUME PamInv, NEW ret \in PamResults, PamReturn(ret), sys' = sys, policy' = policy, DOMAIN task' = Tasks,
           pam.st # "end", HasBad => ret = "SESSION_ERR",
           Reached /\ ret = "SUCCESS" => pam.order # <<>> /\ Existing(Hats) # {} /\ task'[1].label = FirstOf(Hats),
           Reached /\ ret # "SUCCESS" => task'[1].label = "profile"
    PROVE  PamInv'
<1>1. pam' = [pam EXCEPT !.st = "end", !.ret = ret]
  BY DEF PamReturn
<1>2. PamType' /\ pam'.st = "end" /\ pam'.ret = ret /\ pam'.order = pam.order /\ pam'.args = pam.args
  BY <1>1 DEF PamInv, PamType
<1>3. GoodPolicy' /\ Reaches(sys)' /\ (Reached' <=> Reached)
  BY DEF Reached, Active, PamInv, GoodPolicy, Reaches
<1>4. Hats' = Hats
  BY <1>2 DEF Hats
<1>5. Existing(Hats)' = Existing(Hats) /\ FirstOf(Hats)' = FirstOf(Hats)
  BY <1>4 DEF Existing, FirstOf
<1>6. HasBad' => HasBad
  BY <1>2 DEF HasBad
<1> QED BY <1>2, <1>3, <1>5, <1>6 DEF PamInv

LEMMA OpenSessionKeeps == ASSUME PamInv, OpenSession PROVE PamInv'
<1>1. pam.st = "options" /\ pam.k > Len(pam.args) /\ NotBase
  BY DEF OpenSession
<1>2. sys' = sys /\ policy' = policy /\ task' = task
  BY <1>1 DEF NotBase, base_vars
<1>3. DOMAIN task' = Tasks /\ (Reached => task'[1].label = "profile")
  BY <1>1, <1>2 DEF PamInv, PamType
<1>4. HasBad => ~pam.ok
  BY <1>1 DEF HasBad, PamInv, PamType
<1>5. CASE ~pam.ok
  <2>1. PamReturn("SESSION_ERR")
    BY <1>5 DEF OpenSession
  <2>2. "SESSION_ERR" \in PamResults
    BY DEF PamResults
  <2> QED BY <1>1, <1>2, <1>3, <2>1, <2>2, ReturnKeeps
<1>6. CASE pam.ok /\ \E ret \in {"USER_UNKNOWN", "PERM_DENIED"} : PamReturn(ret)
  <2>1. PICK ret \in {"USER_UNKNOWN", "PERM_DENIED"} : PamReturn(ret)
    BY <1>6
  <2>2. ret \in PamResults /\ ret # "SUCCESS"
    BY DEF PamResults
  <2> QED BY <1>1, <1>2, <1>3, <1>4, <1>6, <2>1, <2>2, ReturnKeeps
<1>7. CASE pam.ok /\ pam' = [pam EXCEPT !.st = "try", !.order = IF pam.order = <<>> THEN DefaultOrder ELSE pam.order]
  <2> DEFINE order == IF pam.order = <<>> THEN DefaultOrder ELSE pam.order
  <2>1. order \in Seq(HatTypes) /\ order # <<>>
    <3>1. DefaultOrder \in Seq(HatTypes) /\ DefaultOrder # <<>>
      BY DEF DefaultOrder, HatTypes
    <3> QED BY <3>1 DEF PamInv, PamType
  <2> HIDE DEF order
  <2>2. pam' = [pam EXCEPT !.st = "try", !.order = order]
    BY <1>7 DEF order
  <2>3. PamType' /\ pam'.st = "try" /\ pam'.order = order /\ pam'.args = pam.args /\ pam'.i = pam.i
    BY <1>2, <2>1, <2>2 DEF PamInv, PamType
  <2>4. pam.i = 1
    BY <1>1 DEF PamInv
  <2>5. Missing(pam.i - 1)'
    BY <2>3, <2>4 DEF Missing
  <2>6. ~HasBad'
    BY <1>4, <1>7, <2>3 DEF HasBad
  <2>7. GoodPolicy' /\ Reaches(sys)' /\ (Reached' <=> Reached)
    BY <1>2 DEF Reached, Active, PamInv, GoodPolicy, Reaches
  <2>8. Reached => task[1].label = "profile" /\ task[1].prev = None
    BY <1>1 DEF PamInv
  <2> QED BY <1>2, <2>1, <2>3, <2>5, <2>6, <2>7, <2>8 DEF PamInv
<1> QED BY <1>5, <1>6, <1>7 DEF OpenSession

LEMMA TryHatKeeps == ASSUME BaseInv, PamInv, TryHat PROVE PamInv'
<1> DEFINE hat == HatName(pam.order[pam.i])
           r == AaChangeHat(1, hat, PamToken)
<1>1. pam.st = "try" /\ pam.i <= Len(pam.order) /\ Took(r)
  BY DEF TryHat
<1>2. IF r.errno = "0" THEN PamReturn("SUCCESS")
      ELSE IF AfterError(r.errno) = "back" THEN pam' = [pam EXCEPT !.st = "back"] ELSE PamReturn(AfterError(r.errno))
  BY DEF TryHat
<1>3. pam.i \in DOMAIN pam.order /\ DOMAIN pam.order \subseteq Nat /\ DOMAIN task = Tasks /\ Reaches(sys)
  BY <1>1 DEF PamInv, PamType
<1>4. hat \notin {None, Null, TooLong}
  <2>1. pam.order[pam.i] \in HatTypes
    BY <1>3 DEF PamInv, PamType
  <2> QED BY <2>1 DEF HatTypes, HatName, None, Null, TooLong
<1>5. Reached => task[1].label = "profile" /\ task[1].prev = None /\ pam.order # <<>> /\ Missing(pam.i - 1)
  BY <1>1 DEF PamInv
<1> DEFINE first == hat \in policy.hats
<1>6. /\ DOMAIN r.task = Tasks
      /\ Reached /\ first => r.errno = "0" /\ r.task[1].label = hat
      /\ Reached /\ ~first => r.errno \in {"ENOENT", "ECHILD"} /\ r.task[1] = task[1]
  <2> HIDE DEF hat
  <2> QED BY <1>3, <1>4, <1>5, TryEffect
<1>7. Reached /\ first => Existing(Hats) # {} /\ FirstOf(Hats) = hat
  <2> SUFFICES ASSUME Reached, first PROVE Existing(Hats) # {} /\ FirstOf(Hats) = hat
    OBVIOUS
  <2>1. DOMAIN Hats = DOMAIN pam.order /\ \A j \in DOMAIN pam.order : Hats[j] = HatName(pam.order[j])
    BY DEF Hats
  <2>2. pam.i \in Existing(Hats) /\ Existing(Hats) \subseteq DOMAIN pam.order
    BY <1>3, <2>1 DEF Existing
  <2>3. ASSUME NEW j \in Existing(Hats) PROVE pam.i <= j
    <3>1. j \in DOMAIN pam.order /\ HatName(pam.order[j]) \in policy.hats
      BY <2>1 DEF Existing
    <3>2. j \notin 1 .. pam.i - 1
      BY <1>5, <3>1 DEF Missing
    <3> QED BY <1>3, <3>1, <3>2 DEF PamInv, PamType
  <2>4. FirstOf(Hats) = Hats[pam.i]
    BY <1>3, <2>1, <2>2, <2>3, FirstIs
  <2> QED BY <1>3, <2>1, <2>2, <2>4
<1>8. Reached /\ ~first => Missing(pam.i)
  BY <1>3, <1>5 DEF Missing, PamInv, PamType
<1> HIDE DEF r, hat, first
<1>9. sys' = sys /\ policy' = policy /\ task' = r.task
  BY <1>1 DEF Took
<1>10. ~HasBad
  BY <1>1 DEF PamInv
<1>11. CASE r.errno = "0"
  <2>1. "SUCCESS" \in PamResults /\ PamReturn("SUCCESS")
    BY <1>2, <1>11 DEF PamResults
  <2>2. Reached => first
    BY <1>6, <1>11
  <2> QED BY <1>1, <1>5, <1>6, <1>7, <1>9, <1>10, <2>1, <2>2, ReturnKeeps
<1>12. CASE r.errno # "0" /\ AfterError(r.errno) = "back"
  <2>1. pam' = [pam EXCEPT !.st = "back"]
    BY <1>2, <1>12
  <2>2. PamType' /\ pam'.st = "back" /\ pam'.order = pam.order /\ pam'.args = pam.args /\ pam'.i = pam.i
    BY <1>6, <1>9, <2>1 DEF PamInv, PamType
  <2>3. GoodPolicy' /\ Reaches(sys)' /\ (Reached' <=> Reached)
    BY <1>9 DEF Reached, Active, PamInv, GoodPolicy, Reaches
  <2>4. ~HasBad'
    BY <1>10, <2>2 DEF HasBad
  <2>5. Reached => ~first /\ Missing(pam.i)'
    BY <1>6, <1>8, <1>9, <1>12, <2>2 DEF Missing
  <2>6. Reached => task'[1].label = "profile" /\ task'[1].prev = None
    BY <1>5, <1>6, <1>9, <2>5
  <2> QED BY <1>5, <2>2, <2>3, <2>4, <2>5, <2>6 DEF PamInv
<1>13. CASE r.errno # "0" /\ AfterError(r.errno) # "back"
  <2> DEFINE ret == AfterError(r.errno)
  <2>1. ret \in PamResults /\ PamReturn(ret)
    BY <1>2, <1>13 DEF PamResults, AfterError
  <2>2. Reached => ~first /\ r.errno = "ECHILD"
    BY <1>6, <1>13 DEF AfterError
  <2>3. Reached => ret # "SUCCESS"
    BY <2>2 DEF AfterError
  <2>4. Reached => task'[1].label = "profile"
    BY <1>5, <1>6, <1>9, <2>2
  <2> HIDE DEF ret
  <2> QED BY <1>1, <1>6, <1>9, <1>10, <2>1, <2>3, <2>4, ReturnKeeps
<1> QED BY <1>11, <1>12, <1>13

LEMMA JumpBackKeeps == ASSUME BaseInv, PamInv, JumpBack PROVE PamInv'
<1> DEFINE r == AaChangeHat(1, Null, PamToken)
<1>1. /\ pam.st = "back" /\ Took(r)
      /\ IF r.errno # "0" THEN PamReturn("SUCCESS") ELSE pam' = [pam EXCEPT !.st = "try", !.i = pam.i + 1]
  BY DEF JumpBack
<1>2. DOMAIN task = Tasks /\ Reaches(sys) /\ ~HasBad
  BY <1>1 DEF PamInv, PamType
<1>3. Reached => task[1].label = "profile" /\ task[1].prev = None /\ pam.order # <<>> /\ Missing(pam.i)
  BY <1>1 DEF PamInv
<1>4. DOMAIN r.task = Tasks /\ (Reached => r.errno = "0" /\ r.task[1] = task[1])
  BY <1>2, <1>3, JumpBackEffect
<1> HIDE DEF r
<1>5. sys' = sys /\ policy' = policy /\ task' = r.task
  BY <1>1 DEF Took
<1>6. CASE r.errno # "0"
  <2>1. "SUCCESS" \in PamResults /\ PamReturn("SUCCESS")
    BY <1>1, <1>6 DEF PamResults
  <2> QED BY <1>1, <1>2, <1>4, <1>5, <1>6, <2>1, ReturnKeeps
<1>7. CASE r.errno = "0"
  <2> DEFINE i1 == pam.i + 1
  <2>1. pam' = [pam EXCEPT !.st = "try", !.i = i1]
    BY <1>1, <1>7
  <2>2. i1 \in Nat \ {0} /\ i1 - 1 = pam.i
    BY DEF PamInv, PamType
  <2> HIDE DEF i1
  <2>3. PamType' /\ pam'.st = "try" /\ pam'.order = pam.order /\ pam'.args = pam.args /\ pam'.i = i1
    BY <1>4, <1>5, <2>1, <2>2 DEF PamInv, PamType
  <2>4. GoodPolicy' /\ Reaches(sys)' /\ (Reached' <=> Reached)
    BY <1>5 DEF Reached, Active, PamInv, GoodPolicy, Reaches
  <2>5. ~HasBad'
    BY <1>2, <2>3 DEF HasBad
  <2>6. Reached => Missing(pam.i - 1)'
    BY <1>3, <1>5, <2>2, <2>3 DEF Missing
  <2>7. Reached => task'[1].label = "profile" /\ task'[1].prev = None
    BY <1>3, <1>4, <1>5
  <2> QED BY <1>3, <2>3, <2>4, <2>5, <2>6, <2>7 DEF PamInv
<1> QED BY <1>6, <1>7

LEMMA NoMoreHatsKeeps == ASSUME PamInv, NoMoreHats PROVE PamInv'
<1>1. pam.st = "try" /\ PamReturn("SESSION_ERR") /\ NotBase
  BY DEF NoMoreHats
<1>2. sys' = sys /\ policy' = policy /\ task' = task
  BY <1>1 DEF NotBase, base_vars
<1>3. DOMAIN task' = Tasks /\ (Reached => task'[1].label = "profile")
  BY <1>1, <1>2 DEF PamInv, PamType
<1>4. "SESSION_ERR" \in PamResults
  BY DEF PamResults
<1> QED BY <1>1, <1>2, <1>3, <1>4, ReturnKeeps
(* A command that succeeds had its effect, with or without access to all   *)
(* of the interfaces.                                                      *)
LEMMA SuccessIsEffect ==
    ASSUME BaseInv, DOMAIN task = Tasks, NEW t \in Tasks, NEW effect
    PROVE  LET r == Deliver(t, effect)
           IN  /\ DOMAIN r.task = Tasks
               /\ r.task[t] = task[t] \/ r.task[t] = effect.task
               /\ r.errno = "0" => r.task[t] = effect.task /\ effect.errno = "0"
<1> DEFINE o == SelfAttr(lib, sys)
           r == Deliver(t, effect)
           done == IF o.via = "none" THEN [task |-> task[t], errno |-> o.errno]
                   ELSE IF (o.via = "old" /\ sys.old = "other") \/ ~Active THEN [task |-> task[t], errno |-> "EINVAL"]
                   ELSE effect
<1>1. r.task = [task EXCEPT ![t] = done.task] /\ r.errno = done.errno
  BY DEF Deliver, DeliverVia
<1>2. o.via = "none" => o.errno # "0"
  BY SelfKept DEF BaseInv
<1>3. (done.task = task[t] \/ done.task = effect.task) /\ (done.errno = "0" => done.task = effect.task /\ effect.errno = "0")
  <2> HIDE DEF o
  <2> QED BY <1>2
<1>4. DOMAIN r.task = Tasks /\ r.task[t] = done.task
  BY <1>1
<1> QED BY <1>1, <1>3, <1>4

TaskFields == {"label", "prev", "token", "exec"}

LEMMA ChangeProfileEffect ==
    ASSUME BaseInv, DOMAIN task = Tasks, DOMAIN task[1] = TaskFields, NEW op, NEW name
    PROVE  LET r == AaChangeProfile(1, op, name)
           IN  /\ DOMAIN r.task = Tasks
               /\ DOMAIN r.task[1] = TaskFields
               /\ r.errno = "0" => \/ r.task[1].exec = name
                                   \/ r.task[1].exec = None /\ r.task[1].label = name
<1> DEFINE e == KernelChangeProfile(task[1], op, name)
           r == AaChangeProfile(1, op, name)
<1>1. r = Refused("EINVAL") \/ r = Deliver(1, e)
  BY DEF AaChangeProfile
<1>2. /\ DOMAIN e.task = TaskFields
      /\ e.errno = "0" => e.task.exec = name \/ (e.task.exec = None /\ e.task.label = name)
  <2>1. CASE name \notin policy.profiles
    BY <2>1 DEF KernelChangeProfile
  <2>2. CASE name \in policy.profiles /\ op = "onexec"
    <3>1. e.task = [task[1] EXCEPT !.exec = name]
      BY <2>2 DEF KernelChangeProfile
    <3> HIDE DEF e
    <3> QED BY <3>1 DEF TaskFields
  <2>3. CASE name \in policy.profiles /\ op # "onexec"
    <3>1. e.task = [task[1] EXCEPT !.label = name, !.exec = None]
      BY <2>3 DEF KernelChangeProfile
    <3> HIDE DEF e
    <3> QED BY <3>1 DEF TaskFields
  <2> QED BY <2>1, <2>2, <2>3
<1> HIDE DEF e, r
<1>3. /\ DOMAIN r.task = Tasks
      /\ r.task[1] = task[1] \/ r.task[1] = e.task
      /\ r.errno = "0" => r.task[1] = e.task /\ e.errno = "0"
  <2>1. CASE r = Refused("EINVAL")
    BY <2>1 DEF Refused
  <2>2. CASE r = Deliver(1, e)
    BY <2>2, SuccessIsEffect, TasksAssumption, Zenon
  <2> QED BY <1>1, <2>1, <2>2
<1>4. /\ DOMAIN r.task[1] = TaskFields
      /\ r.errno = "0" => r.task[1].exec = name \/ (r.task[1].exec = None /\ r.task[1].label = name)
  BY <1>2, <1>3
<1> QED BY <1>3, <1>4 DEF r

LEMMA ParseArgKeeps == ASSUME ExecInv, ParseArg \/ ParsedArgs PROVE ExecInv'
<1>1. ax.st = "options" /\ NotBase
  BY Zenon DEF ParseArg, ParsedArgs
<1>2. task' = task
  BY <1>1 DEF NotBase, base_vars
<1>3. ASSUME ParsedArgs PROVE ExecInv'
  <2>1. ax' = [ax EXCEPT !.st = IF BuildName(ax) = None THEN "exec" ELSE "change"]
    BY <1>3 DEF ParsedArgs
  <2>2. /\ ax'.st = IF BuildName(ax) = None THEN "exec" ELSE "change"
        /\ ax'.profile = ax.profile /\ ax'.namespace = ax.namespace
        /\ ax' \in ExecType
    BY <2>1 DEF ExecInv, ExecType
  <2>3. BuildName(ax') = BuildName(ax)
    BY <2>2 DEF BuildName
  <2> QED BY <1>2, <2>2, <2>3 DEF ExecInv
<1>4. ASSUME ParseArg PROVE ExecInv'
  <2> DEFINE o == Head(ax.args)
             rest == Tail(ax.args)
             next == [ax EXCEPT !.args = rest]
             wrong == [ax EXCEPT !.st = "error"]
  <2>1. /\ ax.args # <<>>
        /\ ax' = CASE o[1] = "p" -> IF ax.profile # None THEN wrong ELSE [next EXCEPT !.profile = o[2]]
                   [] o[1] = "n" -> IF ax.namespace # None THEN wrong ELSE [next EXCEPT !.namespace = o[2]]
                   [] o[1] = "i" -> [next EXCEPT !.immediate = TRUE]
                   [] OTHER -> wrong
    BY <1>4 DEF ParseArg
  <2>2. o \in ExecOption /\ rest \in Seq(ExecOption)
    <3>1. ax.args \in Seq(ExecOption)
      BY DEF ExecInv, ExecType
    <3> QED BY <2>1, <3>1, HeadTailProperties
  <2>3. (o[1] = "p" \/ o[1] = "n") => o[2] \in STRING
    BY <2>2 DEF ExecOption
  <2> HIDE DEF o, rest
  <2>4. \/ ax' = wrong
        \/ o[2] \in STRING /\ ax' = [next EXCEPT !.profile = o[2]]
        \/ o[2] \in STRING /\ ax' = [next EXCEPT !.namespace = o[2]]
        \/ ax' = [next EXCEPT !.immediate = TRUE]
    <3> HIDE DEF next, wrong
    <3> QED BY <2>1, <2>3
  <2>5. /\ ax' \in ExecType
        /\ ax'.st \in {"options", "error"}
    BY <1>1, <2>2, <2>4 DEF ExecInv, ExecType
  <2> QED BY <1>2, <2>5 DEF ExecInv
<1> QED BY <1>3, <1>4

LEMMA ChangeProfileKeeps == ASSUME BaseInv, ExecInv, ChangeProfile PROVE ExecInv'
<1> DEFINE op == IF ax.immediate THEN "now" ELSE "onexec"
           name == BuildName(ax)
           r == AaChangeProfile(1, op, name)
<1>1. Took(r) /\ ax' = [ax EXCEPT !.st = IF Failed(r.errno) THEN "error" ELSE "exec"]
  BY DEF ChangeProfile
<1>2. DOMAIN task = Tasks /\ DOMAIN task[1] = TaskFields
  BY DEF ExecInv, TaskFields
<1>3. /\ DOMAIN r.task = Tasks
      /\ DOMAIN r.task[1] = TaskFields
      /\ r.errno = "0" => r.task[1].exec = name \/ (r.task[1].exec = None /\ r.task[1].label = name)
  <2> HIDE DEF op, name
  <2> QED BY <1>2, ChangeProfileEffect
<1> HIDE DEF r, name
<1>4. task' = r.task
  BY <1>1 DEF Took
<1>5. /\ ax'.st = IF r.errno = "0" THEN "exec" ELSE "error"
      /\ ax'.profile = ax.profile /\ ax'.namespace = ax.namespace
      /\ ax' \in ExecType
  BY <1>1 DEF ExecInv, ExecType, Failed
<1>6. BuildName(ax') = name
  BY <1>5 DEF BuildName, name
<1> QED BY <1>3, <1>4, <1>5, <1>6 DEF ExecInv, TaskFields

LEMMA ExecvpKeeps == ASSUME ExecInv, Execvp PROVE ExecInv'
<1>1. ax.st = "exec"
  BY DEF Execvp
<1>2. CASE ax' = [ax EXCEPT !.st = "error"] /\ UNCHANGED task
  BY <1>2 DEF ExecInv, ExecType
<1>3. CASE /\ ax' = [ax EXCEPT !.st = "running"]
           /\ task' = [task EXCEPT ![1].label = IF task[1].exec # None THEN task[1].exec ELSE @, ![1].exec = None]
  <2> DEFINE label == IF task[1].exec # None THEN task[1].exec ELSE task[1].label
  <2>1. task' = [task EXCEPT ![1] = [task[1] EXCEPT !.label = label, !.exec = None]]
    BY <1>3, TasksAssumption DEF ExecInv
  <2>2. DOMAIN task' = Tasks /\ task'[1] = [task[1] EXCEPT !.label = label, !.exec = None]
    BY <2>1, TasksAssumption DEF ExecInv
  <2> HIDE DEF label
  <2>3. DOMAIN task'[1] = {"label", "prev", "token", "exec"} /\ task'[1].label = label
    BY <2>2 DEF ExecInv
  <2>4. /\ ax'.st = "running" /\ ax'.profile = ax.profile /\ ax'.namespace = ax.namespace
        /\ ax' \in ExecType
    BY <1>3 DEF ExecInv, ExecType
  <2>5. BuildName(ax') = BuildName(ax)
    BY <2>4 DEF BuildName
  <2>6. BuildName(ax) # None => label = BuildName(ax)
    BY <1>1 DEF ExecInv, label
  <2> QED BY <2>2, <2>3, <2>4, <2>5, <2>6 DEF ExecInv
<1> QED BY <1>2, <1>3 DEF Execvp
LEMMA UserNext == ASSUME BaseInv, UserInv, [Next]_vars PROVE UserInv'
<1>1. prog' = prog
  BY ProgKept
<1>3. CASE UNCHANGED <<base_vars, pam_vars>>
  <2>1. prog' = prog /\ sys' = sys /\ policy' = policy /\ task' = task /\ pam' = pam /\ ax' = ax
    BY <1>3 DEF base_vars, pam_vars
  <2>2. PamInv => PamInv'
    <3>1. Existing(Hats)' = Existing(Hats) /\ FirstOf(Hats)' = FirstOf(Hats) /\ (HasBad' <=> HasBad)
      BY <2>1 DEF Existing, FirstOf, Hats, HasBad
    <3> QED BY <2>1, <3>1 DEF PamInv, PamType, GoodPolicy, Reaches, Reached, Active, Missing
  <2>3. ExecInv => ExecInv'
    BY <2>1 DEF ExecInv
  <2> QED BY <2>1, <2>2, <2>3 DEF UserInv
<1>4. CASE prog \notin {"pam", "aa_exec"}
  <2>1. pam = NoPam /\ ax = NoExec
    BY <1>4 DEF UserInv
  <2>2. ~Pam /\ ~AaExec
    BY <1>4 DEF Pam, AaExec, ParseOption, AddHatType, OpenSession, TryHat, JumpBack, NoMoreHats, ParseArg, ParsedArgs, ChangeProfile, Execvp
  <2>3. pam' = pam /\ ax' = ax
    BY <2>2 DEF Next, PamIdle, pam_vars, vars
  <2> QED BY <1>1, <1>4, <2>1, <2>3 DEF UserInv
<1>5. CASE prog \in {"pam", "aa_exec"} /\ ~UNCHANGED vars
  <2>1. ~Caller
    BY <1>5 DEF Caller, Call, Callv, Stack, IsEnabled, Deny
  <2>2. ~Httpd
    BY <1>5 DEF Httpd, AaInit, Fork, ChildEnds, AaChildInit, Arrive, LeaveDefault, ClearInside, EnterHat, ExitHat, EnterDefault
  <2>3. ~Reader
    BY <1>5 DEF Reader, ReadStep, Begin, SelfAttr1, SelfAttr2, ReadOpen, ReadSome, ReadError, ReadAll, GetPeer, NoPeer, TargetChanges, ReadingNow
  <2>4. ~Query
    BY <1>5 DEF Query, Mounts, LabelGone, Ask, FindAccess, OpenAccess, WriteQuery, ReadAnswer
  <2>5. Pam \/ AaExec
    BY <1>5, <2>1, <2>2, <2>3, <2>4 DEF Next
  <2>6. CASE prog = "pam"
    <3>1. PamInv /\ ax = NoExec
      BY <2>6 DEF UserInv
    <3>2. Pam
      BY <2>5, <2>6 DEF AaExec, ParseArg, ParsedArgs, ChangeProfile, Execvp
    <3>3. ax' = ax
      BY <3>2, Zenon DEF Pam, ParseOption, AddHatType, OpenSession, TryHat, JumpBack, NoMoreHats
    <3>4. PamInv'
      BY <3>1, <3>2, OptionsKeep, OpenSessionKeeps, TryHatKeeps, JumpBackKeeps, NoMoreHatsKeeps DEF Pam
    <3> QED BY <1>1, <2>6, <3>1, <3>3, <3>4 DEF UserInv
  <2>7. CASE prog = "aa_exec"
    <3>1. ExecInv /\ pam = NoPam
      BY <2>7 DEF UserInv
    <3>2. AaExec
      BY <2>5, <2>7 DEF Pam, ParseOption, AddHatType, OpenSession, TryHat, JumpBack, NoMoreHats
    <3>3. pam' = pam
      BY <3>2, Zenon DEF AaExec, ParseArg, ParsedArgs, ChangeProfile, Execvp
    <3>4. ExecInv'
      BY <3>1, <3>2, ParseArgKeeps, ChangeProfileKeeps, ExecvpKeeps DEF AaExec
    <3> QED BY <1>1, <2>7, <3>1, <3>3, <3>4 DEF UserInv
  <2> QED BY <1>5, <2>6, <2>7
<1>6. UNCHANGED vars => UNCHANGED <<base_vars, pam_vars>>
  BY DEF vars
<1> QED BY <1>3, <1>4, <1>5, <1>6

LEMMA UserStart ==
    ASSUME \A s \in Systems["pam"] : Reaches(s), Init
    PROVE  UserInv
<1>1. /\ prog \in Programs /\ sys \in Systems[prog] /\ policy \in Policies[prog] /\ task = [t \in Tasks |-> NewTask(policy)]
  BY DEF Init, BaseInit
<1>2. DOMAIN task = Tasks /\ task[1] = NewTask(policy)
  BY <1>1, TasksAssumption
<1>3. ASSUME prog = "pam" PROVE PamInv
  <2>1. PICK a \in PamArgs : pam = [NoPam EXCEPT !.st = "options", !.args = a]
    BY <1>3 DEF Init, PamInit
  <2>2. a \in Seq(Seq(STRING))
    BY PamArgsAssumption
  <2>3. pam = [st |-> "options", args |-> a, k |-> 1, rest |-> <<>>, order |-> <<>>, ok |-> TRUE, i |-> 1, ret |-> "none"]
    BY <2>1 DEF NoPam
  <2>4. <<>> \in Seq(STRING) /\ <<>> \in Seq(HatTypes)
    OBVIOUS
  <2>5. PamType
    BY <1>2, <2>2, <2>3, <2>4 DEF PamType, PamResults
  <2>6. GoodPolicy /\ Reaches(sys)
    BY <1>1, <1>3, PoliciesAssumption DEF GoodPolicy
  <2>7. Reached => task[1].label = "profile" /\ task[1].prev = None
    BY <1>2 DEF Reached, NewTask
  <2>8. pam.st = "options" /\ pam.i = 1 /\ pam.k = 1 /\ pam.args = a /\ DOMAIN a \subseteq Nat \ {0}
    BY <2>2, <2>3
  <2> QED BY <2>5, <2>6, <2>7, <2>8 DEF PamInv
<1>4. ASSUME prog = "aa_exec" PROVE ExecInv
  <2>1. PICK a \in ExecArgs : ax = [NoExec EXCEPT !.st = "options", !.args = a]
    BY <1>4 DEF Init, PamInit
  <2>2. a \in Seq(ExecOption)
    BY ExecArgsAssumption DEF ExecOption
  <2>3. ax = [st |-> "options", args |-> a, profile |-> None, namespace |-> None, immediate |-> FALSE]
    BY <2>1 DEF NoExec
  <2>5. DOMAIN task[1] = {"label", "prev", "token", "exec"}
    BY <1>2 DEF NewTask
  <2>6. /\ ax.st = "options"
        /\ ax \in ExecType
    BY <2>2, <2>3 DEF ExecType
  <2> QED BY <1>2, <2>5, <2>6 DEF ExecInv
<1>5. (prog # "pam" => pam = NoPam) /\ (prog # "aa_exec" => ax = NoExec)
  BY DEF Init, PamInit
<1> QED BY <1>3, <1>4, <1>5 DEF UserInv

(* A session of a confined application that can reach apparmor is granted  *)
(* only in the first hat of the configured order that exists, and one that *)
(* is refused is left in no hat (pam_sm_open_session, get_options); aa-exec *)
(* runs its program only under the profile it was asked for, whatever it   *)
(* can reach.  For all policies, arguments and options.                    *)
THEOREM ConfinedOrRefusedThm ==
    ASSUME \A s \in Systems["pam"] : Reaches(s)
    PROVE  Spec => []ConfinedOrRefused
<1> DEFINE Inv == BaseInv /\ UserInv
<1>1. Init => Inv
  BY BaseStart, UserStart
<1>2. Inv /\ [Next]_vars => Inv'
  BY BaseNext, UserNext
<1>3. UserInv => ConfinedOrRefused
  <2> SUFFICES ASSUME UserInv PROVE ConfinedOrRefused
    OBVIOUS
  <2>1. SessionInItsHat
    <3>1. CASE prog = "pam"
      <4>1. PamInv
        BY <3>1 DEF UserInv
      <4> QED BY <4>1 DEF PamInv, SessionInItsHat, Hats, HasBad, Reached
    <3>2. CASE prog # "pam"
      <4>1. pam.st = "none"
        BY <3>2 DEF UserInv, NoPam
      <4> QED BY <4>1 DEF SessionInItsHat
    <3> QED BY <3>1, <3>2
  <2>2. RunsUnderProfile
    <3>1. CASE prog = "aa_exec"
      BY <3>1 DEF UserInv, ExecInv, RunsUnderProfile
    <3>2. CASE prog # "aa_exec"
      <4>1. ax.st = "none"
        BY <3>2 DEF UserInv, NoExec
      <4> QED BY <4>1 DEF RunsUnderProfile
    <3> QED BY <3>1, <3>2
  <2> QED BY <2>1, <2>2 DEF ConfinedOrRefused
<1> QED BY <1>1, <1>2, <1>3, PTL DEF Spec
-----------------------------------------------------------------------------
(***************************************************************************)
(* Answers are true                                                        *)
(***************************************************************************)

Char == STRING \union {" ", "(", ")", "u", "\n", NUL}

LEMMA ContextChars ==
    ASSUME NEW c \in Contexts
    PROVE  /\ c.label \in Seq(Char) /\ c.mode \in Seq(Char) /\ Len(c.label) \in Nat \ {0}
           /\ c.mode # <<>> => Len(c.mode) \in Nat \ {0}
<1>1. c.label \in Seq(STRING) /\ c.mode \in Seq(STRING) /\ c.label # <<>>
  BY ContextsAssumption
<1>2. STRING \subseteq Char
  BY DEF Char
<1> QED BY <1>1, <1>2, SeqMonotonic, EmptySeq

(* The text of a context with a mode, character by character *)
LEMMA TextIs ==
    ASSUME NEW c \in Contexts, c.mode # <<>>
    PROVE  LET t == Text(c)
               n == Len(c.label)
               m == Len(c.mode)
           IN  /\ t \in Seq(Char) /\ n \in Nat \ {0} /\ m \in Nat \ {0} /\ Len(t) = n + m + 3
               /\ \A i \in 1 .. n : t[i] = c.label[i]
               /\ t[n + 1] = " " /\ t[n + 2] = "("
               /\ \A i \in 1 .. m : t[n + 2 + i] = c.mode[i]
               /\ t[n + m + 3] = ")"
<1> DEFINE n == Len(c.label)
           m == Len(c.mode)
           open == <<" ", "(">>
           close == <<")">>
           s1 == c.label \o open
           s2 == s1 \o c.mode
           t == s2 \o close
<1>1. Text(c) = t
  BY DEF Text
<1>2. c.label \in Seq(Char) /\ c.mode \in Seq(Char) /\ n \in Nat \ {0} /\ m \in Nat \ {0}
  BY ContextChars
<1>3. /\ open \in Seq(Char) /\ Len(open) = 2 /\ open[1] = " " /\ open[2] = "("
      /\ close \in Seq(Char) /\ Len(close) = 1 /\ close[1] = ")"
  BY DEF Char
<1> HIDE DEF open, close
<1>4. /\ s1 \in Seq(Char) /\ Len(s1) = n + 2
      /\ \A i \in 1 .. n + 2 : s1[i] = IF i <= n THEN c.label[i] ELSE open[i - n]
  <2>1. /\ s1 \in Seq(Char) /\ Len(s1) = Len(c.label) + Len(open)
        /\ \A i \in 1 .. Len(c.label) + Len(open) : s1[i] = IF i <= Len(c.label) THEN c.label[i] ELSE open[i - Len(c.label)]
    BY <1>2, <1>3, ConcatProperties, Zenon
  <2> QED BY <1>3, <2>1
<1> HIDE DEF s1
<1>5. /\ s2 \in Seq(Char) /\ Len(s2) = n + 2 + m
      /\ \A i \in 1 .. n + 2 + m : s2[i] = IF i <= n + 2 THEN s1[i] ELSE c.mode[i - (n + 2)]
  <2>1. /\ s2 \in Seq(Char) /\ Len(s2) = Len(s1) + Len(c.mode)
        /\ \A i \in 1 .. Len(s1) + Len(c.mode) : s2[i] = IF i <= Len(s1) THEN s1[i] ELSE c.mode[i - Len(s1)]
    BY <1>2, <1>4, ConcatProperties, Zenon
  <2> QED BY <1>4, <2>1
<1> HIDE DEF s2
<1>6. /\ t \in Seq(Char) /\ Len(t) = n + 2 + m + 1
      /\ \A i \in 1 .. n + 2 + m + 1 : t[i] = IF i <= n + 2 + m THEN s2[i] ELSE close[i - (n + 2 + m)]
  <2>1. /\ t \in Seq(Char) /\ Len(t) = Len(s2) + Len(close)
        /\ \A i \in 1 .. Len(s2) + Len(close) : t[i] = IF i <= Len(s2) THEN s2[i] ELSE close[i - Len(s2)]
    <3>1. s2 \in Seq(Char) /\ close \in Seq(Char)
      BY <1>3, <1>5
    <3> QED BY <3>1, ConcatProperties, Zenon
  <2> QED BY <1>3, <1>5, <2>1
<1> HIDE DEF t, n, m
<1>7. Len(t) = n + m + 3
  BY <1>2, <1>6
<1>8. \A i \in 1 .. n : t[i] = c.label[i]
  BY <1>2, <1>4, <1>5, <1>6
<1>9. t[n + 1] = " " /\ t[n + 2] = "("
  <2>1. t[n + 1] = s1[n + 1] /\ t[n + 2] = s1[n + 2]
    BY <1>2, <1>5, <1>6
  <2>2. s1[n + 1] = open[1] /\ s1[n + 2] = open[2]
    BY <1>2, <1>4
  <2> QED BY <1>3, <2>1, <2>2
<1>10. \A i \in 1 .. m : t[n + 2 + i] = c.mode[i]
  BY <1>2, <1>5, <1>6
<1>11. t[n + m + 3] = ")"
  <2>1. t[n + m + 3] = close[1]
    BY <1>2, <1>6
  <2> QED BY <1>3, <2>1
<1> QED BY <1>1, <1>2, <1>6, <1>7, <1>8, <1>9, <1>10, <1>11 DEF n, m

(* Where such a text is taken apart *)
Written(t, label, mode, n, m) ==
    /\ \A i \in 1 .. n : t[i] = label[i]
    /\ t[n + 1] = " " /\ t[n + 2] = "("
    /\ \A i \in 1 .. m : t[n + 2 + i] = mode[i]
    /\ \A i \in 1 .. m : mode[i] # " "

Whole(t, label, mode, n, m) ==
    /\ t \in Seq(Char) /\ label \in Seq(Char) /\ mode \in Seq(Char)
    /\ n \in Nat \ {0} /\ m \in Nat \ {0} /\ n = Len(label) /\ m = Len(mode) /\ Len(t) = n + m + 3

TakenApart(t, label, mode, n, m) ==
    /\ Opening(t) # {} /\ SplitAt(t) = n + 1
    /\ SubSeq(t, 1, n) = label
    /\ SubSeq(t, n + 3, n + m + 2) = mode

LEMMA SplitsThere ==
    ASSUME NEW t, NEW label, NEW mode, NEW n, NEW m,
           Whole(t, label, mode, n, m), Written(t, label, mode, n, m)
    PROVE  TakenApart(t, label, mode, n, m)
<1> t \in Seq(Char) /\ label \in Seq(Char) /\ mode \in Seq(Char)
  BY DEF Whole
<1> n \in Nat \ {0} /\ m \in Nat \ {0} /\ n = Len(label) /\ m = Len(mode) /\ Len(t) = n + m + 3
  BY DEF Whole
<1>1. Opening(t) = {p \in 2 .. n + m + 2 : t[p] = " " /\ t[p + 1] = "("}
  <2>1. Len(t) - 1 = n + m + 2
    OBVIOUS
  <2> QED BY <2>1, Zenon DEF Opening
<1>2. n + 1 \in Opening(t)
  <2>1. n + 1 \in 2 .. n + m + 2 /\ (n + 1) + 1 = n + 2
    OBVIOUS
  <2>2. t[n + 1] = " " /\ t[n + 2] = "("
    BY Zenon DEF Written
  <2> QED BY <1>1, <2>1, <2>2, Zenon
<1>3. ASSUME NEW p \in Opening(t) PROVE p \in Int /\ n + 1 >= p
  <2>1. p \in 2 .. n + m + 2 /\ t[p] = " " /\ t[p + 1] = "("
    BY <1>1, Zenon
  <2>2. p # n + 2
    <3>1. t[n + 2] = "("
      BY Zenon DEF Written
    <3> QED BY <2>1, <3>1
  <2>3. ASSUME p > n + 1 PROVE FALSE
    <3> DEFINE i == p - (n + 2)
    <3>1. i \in 1 .. m /\ p = n + 2 + i
      <4>1. p \in 2 .. n + m + 2
        BY <2>1
      <4> QED BY <2>2, <2>3, <4>1
    <3> HIDE DEF i
    <3>2. t[n + 2 + i] = mode[i] /\ mode[i] # " "
      BY <3>1, Zenon DEF Written
    <3> QED BY <2>1, <3>1, <3>2, Zenon
  <2>4. p \in 2 .. n + m + 2
    BY <2>1
  <2> QED BY <2>3, <2>4
<1>4. SplitAt(t) = n + 1
  <2> DEFINE O == Opening(t)
  <2>1. (\A p \in O : p \in Int /\ n + 1 >= p) /\ n + 1 \in O
    BY <1>2, <1>3
  <2> HIDE DEF O
  <2>2. \A p \in O : (\A q0 \in O : p >= q0) => p = n + 1
    BY <2>1
  <2>3. (CHOOSE p \in O : \A q0 \in O : p >= q0) = n + 1
    BY <2>1, <2>2
  <2> QED BY <2>3 DEF SplitAt, O
<1>5. \A i \in 1 .. Len(t) : t[i] \in Char
  BY ElementOfSeq
<1>6. SubSeq(t, 1, n) = label
  <2> DEFINE s == SubSeq(t, 1, n)
  <2>1. s \in Seq(Char) /\ Len(s) = n /\ \A i \in 1 .. n : s[i] = t[i]
    <3>1. 1 \in Int /\ n \in Int /\ n - 1 + 1 = n /\ 1 <= n /\ 1 .. n \subseteq 1 .. Len(t) /\ \A i \in 1 .. n : 1 + i - 1 = i
      OBVIOUS
    <3>2. \A i \in 1 .. n : t[i] \in Char
      BY <1>5, <3>1, Zenon
    <3>3. /\ s \in Seq(Char) /\ Len(s) = IF 1 <= n THEN n - 1 + 1 ELSE 0
          /\ \A i \in 1 .. n - 1 + 1 : s[i] = t[1 + i - 1]
      BY <3>1, <3>2, SubSeqProperties
    <3> HIDE DEF s
    <3> QED BY <3>1, <3>3, Zenon
  <2> HIDE DEF s
  <2>2. Len(s) = Len(label) /\ \A i \in 1 .. Len(s) : s[i] = label[i]
    BY <2>1, Zenon DEF Written
  <2> QED BY <2>1, <2>2, SeqEqual, Zenon DEF s
<1>7. SubSeq(t, n + 3, n + m + 2) = mode
  <2> DEFINE a == n + 3
             b == n + m + 2
             s == SubSeq(t, a, b)
  <2>1. s \in Seq(Char) /\ Len(s) = m /\ \A i \in 1 .. m : s[i] = t[n + 2 + i]
    <3>1. a \in Int /\ b \in Int /\ b - a + 1 = m /\ a <= b /\ a .. b \subseteq 1 .. Len(t) /\ \A i \in 1 .. m : a + i - 1 = n + 2 + i
      OBVIOUS
    <3>2. \A i \in a .. b : t[i] \in Char
      BY <1>5, <3>1, Zenon
    <3> HIDE DEF a, b
    <3>3. /\ s \in Seq(Char) /\ Len(s) = IF a <= b THEN b - a + 1 ELSE 0
          /\ \A i \in 1 .. b - a + 1 : s[i] = t[a + i - 1]
      BY <3>1, <3>2, SubSeqProperties
    <3> HIDE DEF s
    <3> QED BY <3>1, <3>3, Zenon
  <2> HIDE DEF s
  <2>2. Len(s) = Len(mode) /\ \A i \in 1 .. Len(s) : s[i] = mode[i]
    BY <2>1, Zenon DEF Written
  <2> QED BY <2>1, <2>2, SeqEqual, Zenon DEF s
<1> QED BY <1>2, <1>4, <1>6, <1>7 DEF TakenApart

(* splitcon takes the text apart again, whatever the label holds. *)
Parts(c) == [ok |-> TRUE, label |-> c.label, mode |-> c.mode, to |-> IF c.mode = <<>> THEN "null" ELSE "mode"]

LEMMA SplitText ==
    ASSUME NEW c \in Contexts, NEW con, NEW strip,
           con # <<>>, (IF strip /\ con # <<>> /\ con[Len(con)] = "\n" THEN Front(con) ELSE con) = Text(c)
    PROVE  Splitcon(con, strip) = Parts(c)
<1> DEFINE t == Text(c)
           null == [ok |-> FALSE, label |-> <<>>, mode |-> <<>>, to |-> "null"]
<1>1. Splitcon(con, strip) =
        IF t = UNCONFINED THEN [null EXCEPT !.ok = TRUE, !.label = t]
        ELSE IF Len(t) > 3 /\ t[Len(t)] = ")" /\ Opening(t) # {}
             THEN [ok |-> TRUE, label |-> SubSeq(t, 1, SplitAt(t) - 1), mode |-> SubSeq(t, SplitAt(t) + 2, Len(t) - 1), to |-> "mode"]
        ELSE null
  BY Zenon DEF Splitcon
<1>2. CASE c.mode = <<>>
  <2>1. t = c.label /\ c.label = UNCONFINED
    BY <1>2, ContextsAssumption DEF Text
  <2> QED BY <1>1, <1>2, <2>1 DEF Parts
<1>3. CASE c.mode # <<>>
  <2> DEFINE n == Len(c.label)
             m == Len(c.mode)
  <2>1. /\ t \in Seq(Char) /\ n \in Nat \ {0} /\ m \in Nat \ {0} /\ Len(t) = n + m + 3
        /\ \A i \in 1 .. n : t[i] = c.label[i]
        /\ t[n + 1] = " " /\ t[n + 2] = "("
        /\ \A i \in 1 .. m : t[n + 2 + i] = c.mode[i]
        /\ t[n + m + 3] = ")"
    BY <1>3, TextIs
  <2>2. \A i \in 1 .. m : c.mode[i] # " "
    BY ContextsAssumption, LenProperties, ContextChars
  <2>3. c.label \in Seq(Char) /\ c.mode \in Seq(Char)
    BY ContextChars
  <2>4. /\ Opening(t) # {} /\ SplitAt(t) = n + 1
        /\ SubSeq(t, 1, n) = c.label
        /\ SubSeq(t, n + 3, n + m + 2) = c.mode
    <3>1. Written(t, c.label, c.mode, n, m)
      BY <2>1, <2>2, Zenon DEF Written
    <3>2. t \in Seq(Char) /\ n \in Nat \ {0} /\ m \in Nat \ {0} /\ Len(t) = n + m + 3
      BY <2>1, Zenon
    <3>3. n = Len(c.label) /\ m = Len(c.mode)
      OBVIOUS
    <3> DEFINE label == c.label
               mode == c.mode
    <3>4. /\ label \in Seq(Char) /\ mode \in Seq(Char) /\ n = Len(label) /\ m = Len(mode)
          /\ Written(t, label, mode, n, m)
      BY <2>3, <3>1, <3>3
    <3> HIDE DEF t, n, m, label, mode
    <3>5. Whole(t, label, mode, n, m)
      BY <3>2, <3>4, Zenon DEF Whole
    <3>6. TakenApart(t, label, mode, n, m)
      BY <3>4, <3>5, SplitsThere, Zenon
    <3> QED BY <3>6, Zenon DEF TakenApart, label, mode
  <2>5. SplitAt(t) - 1 = n /\ SplitAt(t) + 2 = n + 3 /\ Len(t) - 1 = n + m + 2 /\ Len(t) > 3
    <3>1. SplitAt(t) = n + 1 /\ Len(t) = n + m + 3 /\ n \in Nat \ {0} /\ m \in Nat \ {0}
      BY <2>1, <2>4
    <3> HIDE DEF t, n, m
    <3> QED BY <3>1
  <2>6. t # UNCONFINED /\ t[Len(t)] = ")"
    <3>1. Len(UNCONFINED) = 1
      BY DEF UNCONFINED
    <3>2. Len(t) # 1 /\ Len(t) = n + m + 3
      <4>1. Len(t) > 3 /\ Len(t) \in Nat /\ Len(t) = n + m + 3
        BY <2>1, <2>5, LenProperties, Zenon
      <4> HIDE DEF t, n, m
      <4> QED BY <4>1
    <3> HIDE DEF t, n, m
    <3> QED BY <2>1, <3>1, <3>2, Zenon
  <2>7. Splitcon(con, strip) = [ok |-> TRUE, label |-> SubSeq(t, 1, SplitAt(t) - 1),
                                mode |-> SubSeq(t, SplitAt(t) + 2, Len(t) - 1), to |-> "mode"]
    BY <1>1, <2>4, <2>5, <2>6, Zenon
  <2> QED BY <1>3, <2>4, <2>5, <2>7 DEF Parts
<1> QED BY <1>2, <1>3
(***************************************************************************)
(* A read in progress.  While the target keeps its context, what was read  *)
(* is as much of it as the buffer holds.                                   *)
(***************************************************************************)
Unchanged == Len(target.had) = 1
Fits(con) == SubSeq(con, 1, IF Len(con) < rd.size THEN Len(con) ELSE rd.size)

ReadType ==
    /\ DOMAIN rd = {"st", "api", "mode", "via", "size", "got", "res"}
    /\ rd.mode \in BOOLEAN
    /\ rd.st \in {"start", "peer", "syscall", "open", "again", "read", "end", "crash"}
    /\ DOMAIN target = {"ctx", "had", "extra"} /\ target.ctx \in Contexts /\ target.had \in Seq(Contexts)
    /\ target.had # <<>> /\ target.had[Len(target.had)] = target.ctx

ReaderInv ==
    /\ ReadType
    /\ rd.st \in {"start", "syscall", "open", "read"} => rd.size \in Nat \ {0}
    /\ rd.st = "syscall" => sys.syscall # "ENOSYS"
    /\ rd.st = "again" /\ Unchanged => rd.size = EntrySize
    /\ rd.st = "read" => /\ rd.via \in {"new", "old"}
                         /\ Unchanged /\ ~OtherLsm => rd.got = <<>> \/ rd.got = Fits(ProcText)
    /\ ReadsAreTrue

ReadInv == IF prog = "reader" THEN ReaderInv ELSE rd.st = "none"

(* A query in progress: the kernel has answered about a label it knew. *)
QueryInv == /\ DOMAIN q = {"st", "args", "sent", "reply", "rc", "allowed", "audited"}
            /\ q.st = "read" => asked
            /\ EnoentMeansUnknown
(* Nothing ends a text inside it. *)
Unbroken(t) == \A i \in 1 .. Len(t) : t[i] # "\n" /\ t[i] # NUL

LEMMA TextUnbroken ==
    ASSUME NEW c \in Contexts
    PROVE  Text(c) \in Seq(Char) /\ Len(Text(c)) \in Nat \ {0} /\ Unbroken(Text(c))
<1>1. /\ \A i \in 1 .. Len(c.label) : c.label[i] # "\n" /\ c.label[i] # NUL
      /\ \A i \in 1 .. Len(c.mode) : c.mode[i] # "\n" /\ c.mode[i] # NUL
  BY ContextsAssumption, LenProperties, ContextChars
<1>2. CASE c.mode = <<>>
  <2>1. Text(c) = c.label
    BY <1>2 DEF Text
  <2> QED BY <1>1, <2>1, ContextChars, Zenon DEF Unbroken
<1>3. CASE c.mode # <<>>
  <2> DEFINE t == Text(c)
             n == Len(c.label)
             m == Len(c.mode)
  <2>1. t \in Seq(Char) /\ n \in Nat \ {0} /\ m \in Nat \ {0} /\ Len(t) = n + m + 3
    BY <1>3, TextIs
  <2>2. /\ \A i \in 1 .. n : t[i] = c.label[i]
        /\ t[n + 1] = " " /\ t[n + 2] = "("
        /\ \A i \in 1 .. m : t[n + 2 + i] = c.mode[i]
        /\ t[n + m + 3] = ")"
    BY <1>3, TextIs
  <2>3. ASSUME NEW i \in 1 .. Len(t) PROVE t[i] # "\n" /\ t[i] # NUL
    <3> DEFINE j == i - (n + 2)
    <3>1. i \in 1 .. n \/ i = n + 1 \/ i = n + 2 \/ (j \in 1 .. m /\ i = n + 2 + j) \/ i = n + m + 3
      <4>1. i \in 1 .. n + m + 3
        BY <2>1
      <4> HIDE DEF t, n, m
      <4> QED BY <2>1, <4>1
    <3>2. CASE i \in 1 .. n
      BY <1>1, <2>2, <3>2, Zenon
    <3>3. CASE i = n + 1 \/ i = n + 2 \/ i = n + m + 3
      <4>1. t[i] \in {" ", "(", ")"}
        BY <2>2, <3>3, Zenon
      <4> HIDE DEF t
      <4> QED BY <4>1 DEF NUL
    <3> HIDE DEF j
    <3>4. CASE j \in 1 .. m /\ i = n + 2 + j
      BY <1>1, <2>2, <3>4, Zenon
    <3> QED BY <3>1, <3>2, <3>3, <3>4, Zenon
  <2>4. Unbroken(t)
    BY <2>3, Zenon DEF Unbroken
  <2>5. Len(t) \in Nat \ {0}
    <3> HIDE DEF t, n, m
    <3> QED BY <2>1
  <2> QED BY <2>1, <2>4, <2>5
<1> QED BY <1>2, <1>3

(* A text with its end *)
LEMMA EndedIs ==
    ASSUME NEW c \in Contexts, NEW e \in Char
    PROVE  LET t == Text(c)
               d == Ended(c, e)
           IN  /\ d \in Seq(Char) /\ Len(d) = Len(t) + 1 /\ d[Len(d)] = e /\ d # <<>>
               /\ \A i \in 1 .. Len(t) : d[i] = t[i]
               /\ Front(d) = t
<1> DEFINE t == Text(c)
           x == <<e>>
           d == t \o x
<1>1. Ended(c, e) = d
  BY DEF Ended
<1>2. t \in Seq(Char) /\ Len(t) \in Nat \ {0}
  BY TextUnbroken
<1>3. x \in Seq(Char) /\ Len(x) = 1 /\ x[1] = e
  OBVIOUS
<1> HIDE DEF t, x
<1>4. /\ d \in Seq(Char) /\ Len(d) = Len(t) + Len(x)
      /\ \A i \in 1 .. Len(t) + Len(x) : d[i] = IF i <= Len(t) THEN t[i] ELSE x[i - Len(t)]
  BY <1>2, <1>3, ConcatProperties, Zenon
<1>5. SubSeq(d, 1, Len(t)) = t
  <2>1. 1 \in 1 .. Len(t) /\ Len(t) \in 1 .. Len(t)
    BY <1>2
  <2>2. SubSeq(t \o x, 1, Len(t)) = SubSeq(t, 1, Len(t))
    BY <1>2, <1>3, <2>1, SubSeqOfConcat1
  <2> QED BY <1>2, <2>2, SubSeqFull, Zenon
<1> HIDE DEF d
<1>6. Len(d) = Len(t) + 1 /\ Len(d) - 1 = Len(t) /\ Len(d) # 0
  BY <1>2, <1>3, <1>4
<1>7. d[Len(d)] = e
  BY <1>2, <1>3, <1>4, <1>6
<1>8. \A i \in 1 .. Len(t) : d[i] = t[i]
  BY <1>2, <1>3, <1>4
<1>9. Front(d) = t
  BY <1>5, <1>6, Zenon DEF Front
<1>10. d # <<>>
  BY <1>6
<1> QED BY <1>1, <1>4, <1>6, <1>7, <1>8, <1>9, <1>10 DEF t

(* The contexts that splitcon is given by the three interfaces *)
LEMMA SplitsBack ==
    ASSUME NEW c \in Contexts
    PROVE  /\ \A strip : Splitcon(Text(c), strip) = Parts(c)
           /\ Splitcon(Ended(c, "\n"), TRUE) = Parts(c)
<1>1. "\n" \in Char /\ "\n" # NUL
  BY DEF Char, NUL
<1>2. ASSUME NEW strip PROVE Splitcon(Text(c), strip) = Parts(c)
  <2> DEFINE t == Text(c)
  <2>1. t \in Seq(Char) /\ Len(t) \in Nat \ {0} /\ Unbroken(t)
    BY TextUnbroken
  <2> HIDE DEF t
  <2>2. t # <<>> /\ Len(t) \in 1 .. Len(t)
    BY <2>1
  <2>3. t[Len(t)] # "\n"
    BY <2>1, <2>2, Zenon DEF Unbroken
  <2>4. (IF strip /\ t # <<>> /\ t[Len(t)] = "\n" THEN Front(t) ELSE t) = t
    BY <2>3
  <2> QED BY <2>2, <2>4, SplitText, Zenon DEF t
<1>3. Splitcon(Ended(c, "\n"), TRUE) = Parts(c)
  <2> DEFINE d == Ended(c, "\n")
  <2>1. d[Len(d)] = "\n" /\ d # <<>> /\ Front(d) = Text(c)
    BY <1>1, EndedIs
  <2> HIDE DEF d
  <2>2. (IF TRUE /\ d # <<>> /\ d[Len(d)] = "\n" THEN Front(d) ELSE d) = Text(c)
    BY <2>1
  <2> QED BY <2>1, <2>2, SplitText, Zenon DEF d
<1> QED BY <1>2, <1>3
(* What procattr_open can answer *)
LEMMA OpenAnswers ==
    ASSUME NEW s, System(s), NEW l, LibInv(l, s)
    PROVE  LET o == ProcattrOpen(l, s)
           IN  o.via \in {"new", "old", "none"} /\ o.errno \in {"0", "EACCES", "ENOENT"}
<1> DEFINE b == ProcAttrBaseInit(l, s)
           path == ProcattrPath(b)
           first == OpenPath(s, path)
           again == OpenPath(s, "old")
           l2 == Once(b, s, "enabled")
           o == ProcattrOpen(l, s)
<1>1. LibInv(b, s) /\ b.base # "unset"
  BY BaseKept
<1>2. o = IF first = "ok" THEN [lib |-> b, via |-> path, errno |-> "0"]
          ELSE IF ~MayFallBack(b, s) THEN [lib |-> l2, via |-> "none", errno |-> first]
          ELSE [lib |-> l2, via |-> IF again = "ok" THEN "old" ELSE "none", errno |-> IF again = "ok" THEN "0" ELSE again]
  BY DEF ProcattrOpen, OpenOrFallBack
<1>3. first \in {"ok", "EACCES", "ENOENT"} /\ again \in {"ok", "EACCES"}
  BY DEF OpenPath, System, SystemType
<1>4. first = "ok" => path \in {"new", "old"}
  BY DEF OpenPath
<1> HIDE DEF o, path, first, again, l2, b
<1>5. o.via \in {"new", "old", "none"} /\ o.errno \in {"0", "EACCES", "ENOENT"}
  BY <1>2, <1>3, <1>4
<1> QED BY <1>5 DEF o

(* A call that ends keeps the invariant if its answer is true. *)
SameCall == /\ UNCHANGED <<prog, sys, target>>
            /\ DOMAIN rd' = DOMAIN rd /\ rd'.mode = rd.mode /\ rd'.api = rd.api

LEMMA EndKeeps ==
    ASSUME ReaderInv, SameCall, rd'.st \in {"end", "crash"}, ReadsAreTrue'
    PROVE  ReaderInv'
<1>1. ReadType'
  BY DEF ReaderInv, ReadType, SameCall
<1> QED BY <1>1 DEF ReaderInv

(* The context as it was read *)
LEMMA GotKeeps ==
    ASSUME ReaderInv, SameCall, rd'.st = "end", rd'.res = Res("ok", Parts(target.ctx))
    PROVE  ReaderInv'
<1> DEFINE k == Len(target.had)
           c == target.ctx
<1>1. /\ rd'.res.rc = "ok" /\ rd'.res.label = c.label
      /\ rd.mode => rd'.res.mode = c.mode /\ rd'.res.to = IF c.mode = <<>> THEN "null" ELSE "mode"
  BY DEF Res, Parts
<1>2. k \in DOMAIN target.had /\ target.had[k] = c
  BY LenProperties, EmptySeq DEF ReaderInv, ReadType
<1>3. rd'.mode = rd.mode /\ target' = target
  BY DEF SameCall
<1>4. rd'.mode => rd'.res.mode = c.mode /\ ((rd'.res.to = "null") = (rd'.res.mode = <<>>))
  BY <1>1, <1>3
<1>5. \E j \in DOMAIN target'.had : /\ rd'.res.label = target'.had[j].label
                                    /\ rd'.mode => rd'.res.mode = target'.had[j].mode /\ (rd'.res.to = "null") = (rd'.res.mode = <<>>)
  BY <1>1, <1>2, <1>3, <1>4
<1>6. ReadExact'
  BY <1>1, <1>5 DEF ReadExact
<1>7. CrashNeedsSyscallError'
  BY DEF CrashNeedsSyscallError
<1> QED BY <1>6, <1>7, EndKeeps DEF ReadsAreTrue

(* An error that is due *)
Due(rc) == /\ rc # "ok"
           /\ rc = "ENOSPC" => Len(target.had) > 1
           /\ rc = "EINVAL" /\ Unchanged /\ rd.api # "prev" => Look(sys, "enabled") # "Y"

LEMMA FailKeeps ==
    ASSUME ReaderInv, SameCall, rd'.st = "end", Due(rd'.res.rc)
    PROVE  ReaderInv'
<1>1. rd'.api = rd.api /\ target' = target /\ sys' = sys
  BY DEF SameCall
<1>2. ReadExact'
  BY <1>1 DEF ReadExact, Due, Unchanged
<1>3. CrashNeedsSyscallError'
  BY DEF CrashNeedsSyscallError
<1> QED BY <1>2, <1>3, EndKeeps DEF ReadsAreTrue

LEMMA FailsKeeps ==
    ASSUME ReaderInv, UNCHANGED <<prog, sys, target>>, NEW rc, Due(rc), Fails(rc)
    PROVE  ReaderInv'
<1> DEFINE res == [NoRes EXCEPT !.rc = rc, !.to = IF rd.mode THEN "null" ELSE "unset"]
<1>1. rd' = [rd EXCEPT !.st = "end", !.res = res]
  BY DEF Fails, Ends
<1>2. res.rc = rc
  BY DEF NoRes
<1> HIDE DEF res
<1>3. SameCall /\ rd'.st = "end" /\ rd'.res = res
  BY <1>1 DEF SameCall, ReaderInv, ReadType
<1> QED BY <1>2, <1>3, FailKeeps

(* An error of the system call: a failure, or the crash that is excepted *)
LEMMA SyscallFailsKeeps ==
    ASSUME ReaderInv, UNCHANGED <<prog, sys, target>>, NEW rc, Due(rc), SyscallFails(rc),
           sys.syscall = "late" \/ rd.api = "prev" \/ Len(target.had) > 1
    PROVE  ReaderInv'
<1>1. CASE rd.mode
  BY <1>1, FailsKeeps DEF SyscallFails
<1>2. CASE ~rd.mode
  <2>1. rd' = [rd EXCEPT !.st = "crash", !.res.rc = rc]
    BY <1>2 DEF SyscallFails
  <2>2. SameCall /\ rd'.st = "crash"
    BY <2>1 DEF SameCall, ReaderInv, ReadType
  <2>3. CrashNeedsSyscallError'
    BY <1>2, <2>2 DEF CrashNeedsSyscallError, SameCall
  <2>4. ReadExact'
    BY <2>2 DEF ReadExact
  <2> QED BY <2>2, <2>3, <2>4, EndKeeps DEF ReadsAreTrue
<1> QED BY <1>1, <1>2
(* A step that goes on with the call has no answer to account for. *)
LEMMA GoesOn ==
    ASSUME rd'.st \notin {"end", "crash"}
    PROVE  ReadsAreTrue'
BY DEF ReadsAreTrue, ReadExact, CrashNeedsSyscallError

LEMMA BeginKeeps == ASSUME BaseInv, ReaderInv, Begin PROVE ReaderInv'
<1> DEFINE st == CASE rd.api = "peer" -> "peer"
                   [] rd.api \in {"self", "prev"} /\ lib'.syscall # "ENOSYS" -> "syscall"
                   [] OTHER -> "open"
<1>1. rd' = [rd EXCEPT !.st = st] /\ target' = target /\ sys' = sys /\ rd.st = "start"
  BY DEF Begin
<1>2. st \in {"peer", "syscall", "open"} /\ (st = "syscall" => rd.api \in {"self", "prev"} /\ lib'.syscall # "ENOSYS")
  OBVIOUS
<1> HIDE DEF st
<1>3. st = "syscall" => sys.syscall # "ENOSYS"
  <2> SUFFICES ASSUME st = "syscall" PROVE sys.syscall # "ENOSYS"
    OBVIOUS
  <2>1. lib' = SelfSyscall(lib, sys) /\ lib'.syscall # "ENOSYS"
    BY <1>2 DEF Begin
  <2>2. DOMAIN lib = DOMAIN NewLib /\ lib.syscall \in {"unset", sys.syscall}
    BY DEF BaseInv, LibInv, LibType, NewLib
  <2>3. lib'.syscall = IF lib.syscall = "unset" THEN sys.syscall ELSE lib.syscall
    BY <2>1, <2>2 DEF SelfSyscall, NewLib
  <2> QED BY <2>1, <2>2, <2>3
<1>4. rd'.st = st /\ rd'.size = rd.size /\ ReadType'
  BY <1>1, <1>2 DEF ReaderInv, ReadType
<1>5. ReadsAreTrue'
  BY <1>2, <1>4, GoesOn
<1> QED BY <1>1, <1>2, <1>3, <1>4, <1>5 DEF ReaderInv

LEMMA EntrySizeIs == ASSUME ReaderInv PROVE EntrySize \in Int
<1>1. target.ctx \in Contexts
  BY DEF ReaderInv, ReadType
<1>2. Len(SelfText) \in Nat
  <2>1. Text(target.ctx) \in Seq(Char)
    BY <1>1, TextUnbroken
  <2>2. Ended(target.ctx, "\n") \in Seq(Char)
    BY <1>1, EndedIs DEF Char
  <2>3. SelfText \in Seq(Char)
    BY <2>1, <2>2 DEF SelfText
  <2> QED BY <2>3, LenProperties
<1> DEFINE n == LsmCtxSize + Len(SelfText)
<1>3. n \in Nat /\ Align \in Nat \ {0}
  BY <1>2, SizesAssumption
<1> HIDE DEF n
<1>4. Align * ((n + Align - 1) \div Align) \in Int
  BY <1>3
<1> QED BY <1>4 DEF EntrySize, n

LEMMA GotSelfKeeps == ASSUME ReaderInv, UNCHANGED <<prog, sys, target>>, GotSelf PROVE ReaderInv'
<1>1. target.ctx \in Contexts
  BY DEF ReaderInv, ReadType
<1>2. Splitcon(SelfText, TRUE) = Parts(target.ctx)
  BY <1>1, SplitsBack DEF SelfText
<1>3. rd' = [rd EXCEPT !.st = "end", !.via = "syscall", !.res = Res("ok", Parts(target.ctx))]
  BY <1>2 DEF GotSelf
<1>4. SameCall /\ rd'.st = "end" /\ rd'.res = Res("ok", Parts(target.ctx))
  BY <1>3 DEF SameCall, ReaderInv, ReadType
<1> QED BY <1>4, GotKeeps

LEMMA SelfAttr1Keeps == ASSUME BaseInv, ReaderInv, SelfAttr1 PROVE ReaderInv'
<1>1. rd.st = "syscall" /\ UNCHANGED <<prog, sys, target>>
  BY DEF SelfAttr1, NotBase, base_vars
<1>2. sys.syscall # "ok" => sys.syscall = "late"
  BY <1>1 DEF ReaderInv, BaseInv, System, SystemType
<1>3. CASE sys.syscall # "ok" /\ rd.mode
  <2>1. rd' = [rd EXCEPT !.st = "open"]
    BY <1>3 DEF SelfAttr1
  <2>2. rd'.st = "open" /\ rd'.size = rd.size /\ ReadType'
    BY <1>1, <2>1 DEF ReaderInv, ReadType
  <2> QED BY <1>1, <2>2, GoesOn DEF ReaderInv
<1>4. CASE sys.syscall # "ok" /\ ~rd.mode
  <2>1. SyscallFails("EOPNOTSUPP")
    BY <1>4 DEF SelfAttr1
  <2>2. Due("EOPNOTSUPP")
    BY DEF Due
  <2> QED BY <1>1, <1>2, <1>4, <2>1, <2>2, SyscallFailsKeeps
<1>5. CASE sys.syscall = "ok" /\ rd.api = "prev"
  <2>1. SyscallFails("EINVAL")
    BY <1>5 DEF SelfAttr1
  <2>2. Due("EINVAL")
    BY <1>5 DEF Due
  <2> QED BY <1>1, <1>5, <2>1, <2>2, SyscallFailsKeeps
<1>6. CASE sys.syscall = "ok" /\ rd.api # "prev" /\ EntrySize <= GuessSize - 1
  <2>1. GotSelf
    BY <1>6 DEF SelfAttr1
  <2> QED BY <1>1, <2>1, GotSelfKeeps
<1>7. CASE sys.syscall = "ok" /\ rd.api # "prev" /\ ~(EntrySize <= GuessSize - 1)
  <2>1. rd' = [rd EXCEPT !.st = "again", !.size = EntrySize]
    BY <1>7 DEF SelfAttr1
  <2>2. EntrySize' = EntrySize
    BY <1>1 DEF EntrySize, SelfText
  <2>3. rd'.st = "again" /\ rd'.size = EntrySize' /\ ReadType'
    <3> HIDE DEF EntrySize
    <3> QED BY <1>1, <2>1, <2>2 DEF ReaderInv, ReadType
  <2> QED BY <2>3, GoesOn DEF ReaderInv
<1> QED BY <1>3, <1>4, <1>5, <1>6, <1>7

LEMMA SelfAttr2Keeps == ASSUME ReaderInv, SelfAttr2 PROVE ReaderInv'
<1>1. rd.st = "again" /\ UNCHANGED <<prog, sys, target>>
  BY DEF SelfAttr2, NotBase, base_vars
<1>2. CASE ~(EntrySize > rd.size)
  BY <1>1, <1>2, GotSelfKeeps DEF SelfAttr2
<1>3. CASE EntrySize > rd.size
  <2>1. ~Unchanged
    BY <1>1, <1>3, EntrySizeIs DEF ReaderInv
  <2>2. Len(target.had) > 1
    <3>1. target.had \in Seq(Contexts) /\ target.had # <<>>
      BY DEF ReaderInv, ReadType
    <3>2. Len(target.had) \in Nat /\ Len(target.had) # 0
      BY <3>1, LenProperties, EmptySeq
    <3> DEFINE n == Len(target.had)
    <3>3. n # 1 /\ n \in Nat /\ n # 0
      BY <2>1, <3>2 DEF Unchanged
    <3> HIDE DEF n
    <3>4. n > 1
      BY <3>3
    <3> QED BY <3>4 DEF n
  <2>3. SyscallFails("ENOSPC")
    BY <1>3 DEF SelfAttr2
  <2>4. Due("ENOSPC")
    BY <2>2 DEF Due
  <2> QED BY <1>1, <2>2, <2>3, <2>4, SyscallFailsKeeps
<1> QED BY <1>2, <1>3
LEMMA ReadOpenKeeps == ASSUME BaseInv, ReaderInv, ReadOpen PROVE ReaderInv'
<1> DEFINE s == ProcattrOpen(lib, sys)
<1>1. rd.st = "open" /\ UNCHANGED <<prog, sys, target>>
  BY DEF ReadOpen
<1>2. s.via \in {"new", "old", "none"} /\ s.errno \in {"0", "EACCES", "ENOENT"}
  BY OpenAnswers DEF BaseInv
<1>3. IF s.via = "none" THEN Fails(s.errno) ELSE rd' = [rd EXCEPT !.st = "read", !.via = s.via, !.got = <<>>]
  BY DEF ReadOpen
<1> HIDE DEF s
<1>4. CASE s.via = "none"
  <2>1. Due(s.errno)
    BY <1>2 DEF Due
  <2> QED BY <1>1, <1>3, <1>4, <2>1, FailsKeeps
<1>5. CASE s.via # "none"
  <2>1. rd'.st = "read" /\ rd'.via = s.via /\ rd'.got = <<>> /\ rd'.size = rd.size /\ ReadType'
    BY <1>1, <1>3, <1>5 DEF ReaderInv, ReadType
  <2> QED BY <1>1, <1>2, <1>5, <2>1, GoesOn DEF ReaderInv
<1> QED BY <1>4, <1>5

(* What the buffer holds of the text when all that fits was read *)
Bound(con) == IF Len(con) < rd.size THEN Len(con) ELSE rd.size

LEMMA FitsIs ==
    ASSUME ReaderInv, rd.st = "read", ~OtherLsm
    PROVE  LET con == ProcText
               k == Bound(con)
           IN  /\ con = Ended(target.ctx, "\n") /\ con \in Seq(Char) /\ con # <<>> /\ con[Len(con)] = "\n"
               /\ k \in 1 .. Len(con)
               /\ Fits(con) \in Seq(Char) /\ Len(Fits(con)) = k /\ Fits(con)[k] = con[k] /\ Fits(con) # <<>>
               /\ SubSeq(con, k + 1, k) = <<>>
               /\ k = Len(con) => Fits(con) = con
               /\ k # Len(con) => k = rd.size /\ con[k] # "\n" /\ con[k] # NUL
<1> DEFINE con == ProcText
           k == Bound(con)
           t == Text(target.ctx)
<1>1. con = Ended(target.ctx, "\n") /\ target.ctx \in Contexts /\ rd.size \in Nat \ {0}
  BY DEF ProcText, ReaderInv, ReadType
<1>2. /\ t \in Seq(Char) /\ Len(t) \in Nat \ {0} /\ Unbroken(t)
      /\ con \in Seq(Char) /\ Len(con) = Len(t) + 1 /\ con[Len(con)] = "\n" /\ con # <<>>
      /\ \A i \in 1 .. Len(t) : con[i] = t[i]
  <2>1. t \in Seq(Char) /\ Len(t) \in Nat \ {0} /\ Unbroken(t)
    BY <1>1, TextUnbroken
  <2>2. "\n" \in Char
    BY DEF Char
  <2> DEFINE c == target.ctx
             d == Ended(c, "\n")
  <2>3. /\ d \in Seq(Char) /\ Len(d) = Len(Text(c)) + 1 /\ d[Len(d)] = "\n" /\ d # <<>>
        /\ \A i \in 1 .. Len(Text(c)) : d[i] = Text(c)[i]
    BY <1>1, <2>2, EndedIs
  <2>4. con = d
    BY <1>1
  <2> HIDE DEF con, d
  <2> QED BY <2>1, <2>3, <2>4, Zenon
<1>3. Fits(con) = SubSeq(con, 1, k) /\ k = IF Len(con) < rd.size THEN Len(con) ELSE rd.size
  BY DEF Fits, Bound
<1> HIDE DEF con, k, t
<1>4. k \in 1 .. Len(con) /\ k \in Int /\ (k # Len(con) => k = rd.size /\ k \in 1 .. Len(t))
  <2>1. Len(t) \in Nat \ {0} /\ Len(con) = Len(t) + 1 /\ rd.size \in Nat \ {0}
    BY <1>1, <1>2, Zenon
  <2> QED BY <1>3, <2>1
<1>5. k # Len(con) => con[k] # "\n" /\ con[k] # NUL
  BY <1>2, <1>4, Zenon DEF Unbroken
<1>6. k = Len(con) => SubSeq(con, 1, k) = con
  BY <1>2, SubSeqFull, Zenon
<1>7. SubSeq(con, k + 1, k) = <<>>
  <2>1. k + 1 \in Int /\ k \in Int /\ k < k + 1
    BY <1>4
  <2> QED BY <2>1, SubSeqEmpty
<1>8. SubSeq(con, 1, k) \in Seq(Char) /\ Len(SubSeq(con, 1, k)) = k /\ SubSeq(con, 1, k)[k] = con[k]
  <2>1. \A i \in 1 .. k : con[i] \in Char
    <3>1. \A i \in 1 .. k : i \in 1 .. Len(con)
      <4>1. k \in 1 .. Len(con) /\ Len(con) \in Nat
        BY <1>2, <1>4, LenProperties, Zenon
      <4> QED BY <4>1
    <3> QED BY <1>2, <3>1, ElementOfSeq
  <2>2. 1 \in Int /\ k \in Int /\ 1 <= k /\ k - 1 + 1 = k /\ 1 + k - 1 = k /\ k \in 1 .. k
    <3>1. k \in 1 .. Len(con)
      BY <1>4
    <3> QED BY <3>1
  <2> DEFINE s == SubSeq(con, 1, k)
  <2>3. /\ s \in Seq(Char) /\ Len(s) = IF 1 <= k THEN k - 1 + 1 ELSE 0
        /\ \A i \in 1 .. k - 1 + 1 : s[i] = con[1 + i - 1]
    BY <2>1, <2>2, SubSeqProperties
  <2> HIDE DEF s
  <2>4. s \in Seq(Char) /\ Len(s) = k /\ s[k] = con[k]
    BY <2>2, <2>3, Zenon
  <2> QED BY <2>4 DEF s
<1>9. SubSeq(con, 1, k) # <<>>
  <2>1. k # 0
    <3>1. k \in 1 .. Len(con)
      BY <1>4
    <3> QED BY <3>1
  <2> QED BY <1>8, <2>1, EmptySeq
<1> QED BY <1>1, <1>2, <1>3, <1>4, <1>5, <1>6, <1>7, <1>8, <1>9, Zenon DEF con, k
LEMMA ReadSomeKeeps == ASSUME ReaderInv, ReadSome PROVE ReaderInv'
<1>1. rd.st = "read" /\ UNCHANGED <<prog, sys, target>> /\ Unread # <<>> /\ rd' = [rd EXCEPT !.got = rd.got \o Unread]
  BY DEF ReadSome, NotBase, base_vars
<1>2. /\ rd'.st = "read" /\ rd'.via = rd.via /\ rd'.size = rd.size /\ rd'.got = rd.got \o Unread
      /\ ReadType'
  BY <1>1 DEF ReaderInv, ReadType
<1>3. OtherLsm' = OtherLsm /\ ProcText' = ProcText
  BY <1>1, <1>2 DEF OtherLsm, ProcText
<1>4. Fits(ProcText)' = Fits(ProcText)
  BY <1>2, <1>3 DEF Fits
<1>5. ASSUME Unchanged, ~OtherLsm PROVE rd'.got = Fits(ProcText)
  <2> DEFINE con == ProcText
             k == Bound(con)
  <2>1. /\ con \in Seq(Char) /\ k \in 1 .. Len(con) /\ Fits(con) \in Seq(Char) /\ Len(Fits(con)) = k
        /\ SubSeq(con, k + 1, k) = <<>>
    BY <1>1, <1>5, FitsIs
  <2>2. Unread = SubSeq(con, Len(rd.got) + 1, k) /\ Fits(con) = SubSeq(con, 1, k)
    BY DEF Unread, Bound, Fits
  <2>3. rd.got = <<>> \/ rd.got = Fits(con)
    BY <1>1, <1>5 DEF ReaderInv
  <2> HIDE DEF con, k
  <2>4. rd.got # Fits(con)
    BY <1>1, <2>1, <2>2, Zenon
  <2>5. Len(<<>>) + 1 = 1
    OBVIOUS
  <2>6. Unread = Fits(con) /\ rd.got = <<>>
    BY <2>2, <2>3, <2>4, <2>5, Zenon
  <2>7. <<>> \o Fits(con) = Fits(con)
    BY <2>1, ConcatEmptySeq
  <2> QED BY <1>2, <2>6, <2>7, Zenon DEF con
<1>6. Unchanged' => Unchanged
  BY <1>1 DEF Unchanged
<1>7. Unchanged' /\ ~OtherLsm' => rd'.got = <<>> \/ rd'.got = Fits(ProcText)'
  BY <1>3, <1>4, <1>5, <1>6
<1> QED BY <1>1, <1>2, <1>7, GoesOn DEF ReaderInv

(* A system where another LSM owns the shared files, or apparmor is not    *)
(* active, does not say that apparmor is enabled.                          *)
LEMMA NotEnabled ==
    ASSUME BaseInv, OtherLsm \/ ~Active
    PROVE  Look(sys, "enabled") # "Y"
<1>1. System(sys)
  BY DEF BaseInv
<1>2. sys.enabled # "Y"
  <2>1. CASE OtherLsm
    <3>1. sys.old # "aa" /\ ((sys.enabled = "Y") = (sys.old = "aa"))
      BY <1>1, <2>1 DEF OtherLsm, System, Possible
    <3> QED BY <3>1, Zenon
  <2>2. CASE ~Active
    BY <2>2 DEF Active
  <2> QED BY <2>1, <2>2
<1> QED BY <1>2 DEF Look

LEMMA ReadErrorKeeps == ASSUME BaseInv, ReaderInv, ReadError PROVE ReaderInv'
<1>1. UNCHANGED <<prog, sys, target>>
  BY DEF ReadError, NotBase, base_vars
<1>2. CASE Fails("ESRCH")
  <2>1. Due("ESRCH")
    BY DEF Due
  <2> QED BY <1>1, <1>2, <2>1, FailsKeeps
<1>3. CASE (~Active \/ rd.api = "prev") /\ Fails("EINVAL")
  <2>1. Due("EINVAL")
    BY <1>3, NotEnabled DEF Due
  <2> QED BY <1>1, <1>3, <2>1, FailsKeeps
<1> QED BY <1>2, <1>3 DEF ReadError
(* An answer of another LSM, or one that was put together while the target *)
(* changed                                                                 *)
LEMMA LooseKeeps ==
    ASSUME ReaderInv, rd.st = "read", SameCall, rd'.st = "end", rd'.via = rd.via, rd'.res.rc = "ok", OtherLsm \/ ~Unchanged
    PROVE  ReaderInv'
<1>1. target' = target /\ sys' = sys /\ rd.via \in {"new", "old"}
  BY DEF SameCall, ReaderInv
<1>2. OtherLsm' = OtherLsm
  BY <1>1 DEF OtherLsm
<1>3. ~Unchanged => Len(target.had) > 1
  <2> DEFINE n == Len(target.had)
  <2>1. target.had \in Seq(Contexts) /\ target.had # <<>>
    BY DEF ReaderInv, ReadType
  <2>2. n \in Nat /\ n # 0
    BY <2>1, LenProperties, EmptySeq
  <2> HIDE DEF n
  <2>3. n # 1 => n > 1
    BY <2>2
  <2> QED BY <2>3 DEF n, Unchanged
<1>4. ~OtherLsm' => Len(target'.had) > 1 /\ rd'.via \in {"new", "old"}
  BY <1>1, <1>2, <1>3
<1>5. ReadExact'
  BY <1>4 DEF ReadExact
<1>6. CrashNeedsSyscallError'
  BY DEF CrashNeedsSyscallError
<1> QED BY <1>5, <1>6, EndKeeps DEF ReadsAreTrue

LEMMA GrowKeeps ==
    ASSUME ReaderInv, rd.st = "read", UNCHANGED <<prog, sys, target>>, rd' = [rd EXCEPT !.st = "open", !.size = GrownSize(rd.size)]
    PROVE  ReaderInv'
<1>1. rd.size \in Nat \ {0}
  BY DEF ReaderInv
<1>2. 2 * rd.size \in Nat \ {0}
  BY <1>1
<1>3. rd'.st = "open" /\ rd'.size = 2 * rd.size /\ ReadType'
  BY DEF GrownSize, ReaderInv, ReadType
<1> QED BY <1>2, <1>3, GoesOn DEF ReaderInv

LEMMA ReadAllKeeps == ASSUME BaseInv, ReaderInv, ReadAll PROVE ReaderInv'
<1> DEFINE last == rd.got[Len(rd.got)]
           con == IF last = "\n" THEN rd.got ELSE Append(rd.got, NUL)
           s == Splitcon(con, TRUE)
           loose == OtherLsm \/ ~Unchanged
<1>1. rd.st = "read" /\ UNCHANGED <<prog, sys, target>> /\ Unread = <<>>
  BY DEF ReadAll, NotBase, base_vars
<1>2. IF last = NUL THEN Ends([NoRes EXCEPT !.rc = "ok", !.label = rd.got])
      ELSE IF last # "\n" /\ Len(rd.got) = rd.size THEN rd' = [rd EXCEPT !.st = "open", !.size = GrownSize(rd.size)]
      ELSE IF s.ok THEN Ends(Res("ok", s)) ELSE Fails("EINVAL")
  BY DEF ReadAll
<1>3. ASSUME NEW res, Ends(res)
      PROVE  SameCall /\ rd'.st = "end" /\ rd'.via = rd.via /\ rd'.res = res
  BY <1>1, <1>3 DEF Ends, SameCall, ReaderInv, ReadType
<1>4. ASSUME ~loose
      PROVE  \/ last \notin {"\n", NUL} /\ Len(rd.got) = rd.size
             \/ last = "\n" /\ s = Parts(target.ctx)
  <2> DEFINE text == ProcText
             k == Bound(text)
  <2>1. /\ text = Ended(target.ctx, "\n") /\ text # <<>> /\ text[Len(text)] = "\n" /\ k \in 1 .. Len(text)
        /\ Len(Fits(text)) = k /\ Fits(text)[k] = text[k] /\ Fits(text) # <<>>
        /\ k = Len(text) => Fits(text) = text
        /\ k # Len(text) => k = rd.size /\ text[k] # "\n" /\ text[k] # NUL
    BY <1>1, <1>4, FitsIs
  <2>2. rd.got = <<>> \/ rd.got = Fits(text)
    BY <1>1, <1>4 DEF ReaderInv
  <2>3. Unread = SubSeq(text, Len(rd.got) + 1, k) /\ Fits(text) = SubSeq(text, 1, k)
    BY DEF Unread, Bound, Fits
  <2>4. target.ctx \in Contexts
    BY DEF ReaderInv, ReadType
  <2>5. Splitcon(Ended(target.ctx, "\n"), TRUE) = Parts(target.ctx)
    BY <2>4, SplitsBack
  <2> HIDE DEF text, k
  <2>6. rd.got = Fits(text)
    <3>1. Len(<<>>) + 1 = 1
      OBVIOUS
    <3>2. rd.got # <<>>
      BY <1>1, <2>1, <2>3, <3>1, Zenon
    <3> QED BY <2>2, <3>2
  <2>7. last = text[k] /\ Len(rd.got) = k
    BY <2>1, <2>6, Zenon
  <2>8. CASE k = Len(text)
    <3>1. last = "\n" /\ rd.got = Ended(target.ctx, "\n")
      BY <2>1, <2>6, <2>7, <2>8, Zenon
    <3>2. con = Ended(target.ctx, "\n")
      BY <3>1, Zenon
    <3> QED BY <2>5, <3>1, <3>2, Zenon
  <2>9. CASE k # Len(text)
    BY <2>1, <2>7, <2>9
  <2> QED BY <2>8, <2>9
<1> HIDE DEF last, s
<1>5. CASE last = NUL
  <2> DEFINE res == [NoRes EXCEPT !.rc = "ok", !.label = rd.got]
  <2>1. Ends(res) /\ res.rc = "ok"
    BY <1>2, <1>5 DEF NoRes
  <2>2. loose
    BY <1>4, <1>5 DEF NUL
  <2> HIDE DEF res
  <2> QED BY <1>1, <1>3, <2>1, <2>2, LooseKeeps
<1>6. CASE last # NUL /\ last # "\n" /\ Len(rd.got) = rd.size
  BY <1>1, <1>2, <1>6, GrowKeeps
<1>7. CASE last # NUL /\ ~(last # "\n" /\ Len(rd.got) = rd.size) /\ s.ok
  <2>1. Ends(Res("ok", s)) /\ Res("ok", s).rc = "ok"
    BY <1>2, <1>7 DEF Res
  <2>2. CASE loose
    BY <1>1, <1>3, <2>1, <2>2, LooseKeeps
  <2>3. CASE ~loose
    <3>1. s = Parts(target.ctx)
      BY <1>4, <1>7, <2>3
    <3> QED BY <1>3, <2>1, <3>1, GotKeeps
  <2> QED BY <2>2, <2>3
<1>8. CASE last # NUL /\ ~(last # "\n" /\ Len(rd.got) = rd.size) /\ ~s.ok
  <2>1. Fails("EINVAL")
    BY <1>2, <1>8
  <2>2. loose
    <3>1. Parts(target.ctx).ok
      BY DEF Parts
    <3> QED BY <1>4, <1>8, <3>1
  <2>3. Due("EINVAL")
    BY <2>2, NotEnabled DEF Due
  <2> QED BY <1>1, <2>1, <2>3, FailsKeeps
<1> QED BY <1>5, <1>6, <1>7, <1>8

LEMMA GetPeerKeeps == ASSUME BaseInv, ReaderInv, GetPeer PROVE ReaderInv'
<1>1. rd.st = "peer" /\ UNCHANGED <<prog, sys, target>>
  BY DEF GetPeer
<1>2. CASE ParamCheck(lib, sys, "enabled") # "Y"
  <2>1. Fails("EINVAL")
    BY <1>2 DEF GetPeer
  <2>2. /\ sys.enabled \in {"Y", "N"} => (Look(sys, "enabled") = sys.enabled => ParamCheck(lib, sys, "enabled") = sys.enabled)
        /\ Look(sys, "enabled") \in {"EACCES", sys.enabled}
    BY ParamChecked DEF BaseInv
  <2>3. Due("EINVAL")
    BY <1>2, <2>2 DEF Due
  <2> QED BY <1>1, <2>1, <2>3, FailsKeeps
<1>3. CASE ParamCheck(lib, sys, "enabled") = "Y" /\ NeedsMore(Len(PeerText))
  <2> DEFINE size == PeerSize(Len(PeerText))
  <2>1. rd' = [rd EXCEPT !.size = size]
    BY <1>3 DEF GetPeer
  <2> HIDE DEF size
  <2>2. rd'.st = "peer" /\ ReadType'
    BY <1>1, <2>1 DEF ReaderInv, ReadType
  <2> QED BY <2>2, GoesOn DEF ReaderInv
<1>4. CASE ParamCheck(lib, sys, "enabled") = "Y" /\ ~NeedsMore(Len(PeerText))
  <2>1. Splitcon(Text(target.ctx), FALSE) = Parts(target.ctx)
    BY SplitsBack DEF ReaderInv, ReadType
  <2>2. rd' = [rd EXCEPT !.st = "end", !.via = "peer", !.res = Res("ok", Parts(target.ctx))]
    BY <1>4, <2>1 DEF GetPeer
  <2>3. SameCall /\ rd'.st = "end" /\ rd'.res = Res("ok", Parts(target.ctx))
    BY <1>1, <2>2 DEF SameCall, ReaderInv, ReadType
  <2> QED BY <2>3, GotKeeps
<1> QED BY <1>2, <1>3, <1>4

LEMMA NoPeerKeeps == ASSUME ReaderInv, NoPeer PROVE ReaderInv'
<1>1. UNCHANGED <<prog, sys, target>> /\ Fails("ENOPROTOOPT")
  BY DEF NoPeer, NotBase, base_vars
<1>2. Due("ENOPROTOOPT")
  BY DEF Due
<1> QED BY <1>1, <1>2, FailsKeeps

LEMMA TargetChangesKeeps == ASSUME ReaderInv, NEW c \in Contexts, TargetChanges(c) PROVE ReaderInv'
<1>1. /\ rd' = rd /\ sys' = sys /\ rd.st \notin {"start", "end", "crash"}
      /\ target' = [target EXCEPT !.ctx = c, !.had = Append(target.had, c)]
  BY DEF TargetChanges, ReadingNow, NotBase, base_vars
<1>2. target.had \in Seq(Contexts) /\ target.had # <<>> /\ DOMAIN target = {"ctx", "had", "extra"}
  BY DEF ReaderInv, ReadType
<1>3. DOMAIN target' = {"ctx", "had", "extra"} /\ target'.ctx = c /\ target'.had = Append(target.had, c)
  BY <1>1, <1>2
<1> DEFINE had == target.had
           more == Append(had, c)
           n == Len(had)
<1>4. more \in Seq(Contexts) /\ Len(more) = n + 1 /\ more[n + 1] = c /\ n \in Nat /\ n # 0
  BY <1>2, AppendProperties, LenProperties, EmptySeq
<1> HIDE DEF more, n
<1>5. Len(more) # 1 /\ Len(more) # 0
  BY <1>4
<1>6. more # <<>>
  BY <1>5
<1>7. ReadType'
  <2>1. more[Len(more)] = c
    BY <1>4
  <2> QED BY <1>1, <1>3, <1>4, <1>6, <2>1 DEF ReaderInv, ReadType, more
<1>8. ~Unchanged'
  BY <1>3, <1>5 DEF Unchanged, more
<1>9. ReadsAreTrue'
  BY <1>1, GoesOn
<1> QED BY <1>1, <1>7, <1>8, <1>9 DEF ReaderInv
LEMMA ReadNext == ASSUME BaseInv, ReadInv, [Next]_vars PROVE ReadInv'
<1>1. prog' = prog
  BY ProgKept
<1>2. CASE prog # "reader"
  <2>1. ~Reader
    BY <1>2 DEF Reader, ReadStep, Begin, SelfAttr1, SelfAttr2, ReadOpen, ReadSome, ReadError, ReadAll, GetPeer, NoPeer, TargetChanges, ReadingNow
  <2>2. rd' = rd
    BY <2>1 DEF Next, ReadIdle, read_vars, vars
  <2> QED BY <1>1, <1>2, <2>2 DEF ReadInv
<1>3. CASE prog = "reader"
  <2>1. ReaderInv
    BY <1>3 DEF ReadInv
  <2>2. CASE UNCHANGED vars
    <3>1. sys' = sys /\ rd' = rd /\ target' = target
      BY <2>2 DEF vars, base_vars, read_vars
    <3>2. ReadType' /\ EntrySize' = EntrySize /\ (OtherLsm' <=> OtherLsm) /\ ProcText' = ProcText /\ (Unchanged' <=> Unchanged)
      BY <2>1, <3>1 DEF ReaderInv, ReadType, EntrySize, SelfText, OtherLsm, ProcText, Unchanged
    <3>3. Fits(ProcText)' = Fits(ProcText)
      BY <3>1, <3>2 DEF Fits
    <3>4. ReadsAreTrue'
      BY <2>1, <3>1 DEF ReaderInv, ReadsAreTrue, ReadExact, CrashNeedsSyscallError, OtherLsm
    <3>5. ReaderInv'
      BY <2>1, <3>1, <3>2, <3>3, <3>4 DEF ReaderInv
    <3> QED BY <1>1, <1>3, <3>5 DEF ReadInv
  <2>3. ~Caller
    BY <1>3 DEF Caller, Call, Callv, Stack, IsEnabled, Deny
  <2>4. ~Httpd
    BY <1>3 DEF Httpd, AaInit, Fork, ChildEnds, AaChildInit, Arrive, LeaveDefault, ClearInside, EnterHat, ExitHat, EnterDefault
  <2>5. ~Pam /\ ~AaExec
    BY <1>3 DEF Pam, AaExec, ParseOption, AddHatType, OpenSession, TryHat, JumpBack, NoMoreHats, ParseArg, ParsedArgs, ChangeProfile, Execvp
  <2>6. ~Query
    BY <1>3 DEF Query, Mounts, LabelGone, Ask, FindAccess, OpenAccess, WriteQuery, ReadAnswer
  <2>7. CASE Reader
    <3>1. ReaderInv'
      BY <2>1, <2>7, BeginKeeps, SelfAttr1Keeps, SelfAttr2Keeps, ReadOpenKeeps, ReadSomeKeeps, ReadErrorKeeps, ReadAllKeeps,
         GetPeerKeeps, NoPeerKeeps, TargetChangesKeeps DEF Reader, ReadStep
    <3> QED BY <1>1, <1>3, <3>1 DEF ReadInv
  <2> QED BY <2>2, <2>3, <2>4, <2>5, <2>6, <2>7 DEF Next
<1> QED BY <1>2, <1>3

LEMMA ReadStart == ASSUME Init PROVE ReadInv
<1>1. CASE prog # "reader"
  BY <1>1 DEF Init, ReadInit, ReadInv, NoRead
<1>2. CASE prog = "reader"
  <2>1. rd \in [st : {"start"}, api : {"task", "self", "prev", "peer"}, mode : BOOLEAN, via : {"none"},
                size : {GuessSize}, got : {<<>>}, res : {NoRes}]
    BY <1>2 DEF Init, ReadInit
  <2>2. PICK c \in Contexts, x \in BOOLEAN : target = [ctx |-> c, had |-> <<c>>, extra |-> x]
    BY <1>2 DEF Init, ReadInit
  <2>3. rd.st = "start" /\ rd.size = GuessSize /\ rd.mode \in BOOLEAN /\ DOMAIN rd = {"st", "api", "mode", "via", "size", "got", "res"}
    BY <2>1
  <2>4. /\ DOMAIN target = {"ctx", "had", "extra"} /\ target.ctx = c /\ target.had \in Seq(Contexts)
        /\ target.had # <<>> /\ Len(target.had) = 1 /\ target.had[1] = c
    BY <2>2
  <2>5. ReadType
    BY <2>3, <2>4 DEF ReadType
  <2>6. ReadsAreTrue
    BY <2>3 DEF ReadsAreTrue, ReadExact, CrashNeedsSyscallError
  <2>7. ReaderInv
    BY <2>3, <2>5, <2>6, SizesAssumption DEF ReaderInv
  <2> QED BY <1>2, <2>7 DEF ReadInv
<1> QED BY <1>1, <1>2

LEMMA QueryNext == ASSUME QueryInv, [Next]_vars PROVE QueryInv'
<1>1. ASSUME UNCHANGED <<q, asked>> PROVE QueryInv'
  BY <1>1 DEF QueryInv, EnoentMeansUnknown
<1>2. ASSUME NEW st, NEW rc, q'.st = st, q'.rc = rc, DOMAIN q' = DOMAIN q, st # "read", rc \notin {"ENOENT", "0"} PROVE QueryInv'
  BY <1>2 DEF QueryInv, EnoentMeansUnknown
<1>3. ASSUME NEW rc, Returns(rc) PROVE q'.st = "done" /\ q'.rc = rc /\ DOMAIN q' = DOMAIN q
  BY <1>3 DEF Returns, QueryInv
<1>4. ASSUME NEW st, q' = [q EXCEPT !.st = st], st \notin {"read", "done"} PROVE QueryInv'
  BY <1>4 DEF QueryInv, EnoentMeansUnknown
<1>5. CASE Mounts \/ LabelGone
  BY <1>1, <1>5 DEF Mounts, LabelGone
<1>6. ASSUME NEW a \in Queries, Ask(a) PROVE QueryInv'
  <2>1. q' = [NoQuery EXCEPT !.args = a, !.sent = Sent(a), !.st = IF a.mask = {} THEN "done" ELSE "once",
                             !.rc = IF a.mask = {} THEN "EINVAL" ELSE "none"]
    BY <1>6 DEF Ask
  <2> DEFINE st == IF a.mask = {} THEN "done" ELSE "once"
             rc == IF a.mask = {} THEN "EINVAL" ELSE "none"
  <2>2. q'.st = st /\ q'.rc = rc /\ DOMAIN q' = DOMAIN q
    BY <2>1 DEF NoQuery, QueryInv
  <2> QED BY <1>2, <2>2
<1>7. CASE FindAccess
  <2>1. Returns("ENOMEM") \/ q' = [q EXCEPT !.st = "open"]
    BY <1>7 DEF FindAccess
  <2> QED BY <1>2, <1>3, <1>4, <2>1
<1>8. CASE OpenAccess
  <2>1. Returns("EACCES") \/ Returns("EPROTONOSUPPORT") \/ q' = [q EXCEPT !.st = "write"]
    BY <1>8 DEF OpenAccess, OpenErrno
  <2> QED BY <1>2, <1>3, <1>4, <2>1
<1>9. CASE WriteQuery
  <2>1. /\ asked' = aafs.known
        /\ \/ Returns("EPROTO")
           \/ IF ~aafs.known THEN Returns("ENOENT") ELSE q' = [q EXCEPT !.st = "read", !.reply = Decision(q.sent)]
    BY <1>9, Zenon DEF WriteQuery
  <2>2. CASE Returns("EPROTO")
    BY <1>2, <1>3, <2>2
  <2>3. CASE ~aafs.known /\ Returns("ENOENT")
    <3>1. q'.st = "done" /\ q'.rc = "ENOENT" /\ DOMAIN q' = DOMAIN q
      BY <1>3, <2>3
    <3>2. ~asked'
      BY <2>1, <2>3, Zenon
    <3> QED BY <3>1, <3>2 DEF QueryInv, EnoentMeansUnknown
  <2>4. CASE aafs.known /\ q' = [q EXCEPT !.st = "read", !.reply = Decision(q.sent)]
    <3>1. q'.st = "read" /\ DOMAIN q' = DOMAIN q
      BY <2>4 DEF QueryInv
    <3>2. asked'
      BY <2>1, <2>4, Zenon
    <3> QED BY <3>1, <3>2 DEF QueryInv, EnoentMeansUnknown
  <2> QED BY <2>1, <2>2, <2>3, <2>4, Zenon
<1>10. CASE ReadAnswer
  <2> DEFINE a == q.reply
             allowed == q.args.mask \subseteq a.allow \ a.deny
             audit == IF allowed THEN a.audit ELSE {"r", "w"}
             audited == q.args.mask \subseteq audit \ a.quiet
  <2>1. /\ q.st = "read" /\ asked' = asked
        /\ \/ \E rc \in {"EPROTO", "EPROTONOSUPPORT"} : Returns(rc)
           \/ q' = [q EXCEPT !.st = "done", !.rc = "0", !.allowed = allowed, !.audited = audited]
    BY <1>10, Zenon DEF ReadAnswer
  <2>2. CASE \E rc \in {"EPROTO", "EPROTONOSUPPORT"} : Returns(rc)
    BY <1>2, <1>3, <2>2
  <2> HIDE DEF allowed, audited
  <2>3. CASE q' = [q EXCEPT !.st = "done", !.rc = "0", !.allowed = allowed, !.audited = audited]
    <3>1. q'.st = "done" /\ q'.rc = "0" /\ DOMAIN q' = DOMAIN q
      BY <2>3 DEF QueryInv
    <3>2. asked'
      BY <2>1 DEF QueryInv
    <3> QED BY <3>1, <3>2 DEF QueryInv, EnoentMeansUnknown
  <2> QED BY <2>1, <2>2, <2>3
<1>11. CASE UNCHANGED query_vars
  BY <1>1, <1>11 DEF query_vars
<1>12. CASE Query
  BY <1>5, <1>6, <1>7, <1>8, <1>9, <1>10, <1>12 DEF Query
<1> QED BY <1>11, <1>12 DEF Next, QueryIdle, vars

(* Whatever the target does while its context is read, and however the     *)
(* text of a context is cut by the buffer or by the kernel's ends, a       *)
(* reader gets the context or an error that is due (aa_getprocattr_raw,    *)
(* get_self_attr_via_syscall, aa_getpeercon_raw, splitcon), and a query    *)
(* fails with ENOENT only for a label that was unknown (query_label).  For *)
(* all contexts, sizes of the first buffer, systems and queries.           *)
THEOREM AnswersAreTrueThm == Spec => []AnswersAreTrue
<1> DEFINE Inv == BaseInv /\ ReadInv /\ QueryInv
<1>1. Init => Inv
  <2>1. Init => QueryInv
    <3> SUFFICES ASSUME Init PROVE QueryInv
      OBVIOUS
    <3>1. q = [NoQuery EXCEPT !.st = IF prog = "query" THEN "idle" ELSE "none"]
      BY DEF Init, QueryInit
    <3> QED BY <3>1 DEF NoQuery, QueryInv, EnoentMeansUnknown
  <2> QED BY <2>1, BaseStart, ReadStart
<1>2. Inv /\ [Next]_vars => Inv'
  BY BaseNext, ReadNext, QueryNext
<1>3. Inv => AnswersAreTrue
  <2> SUFFICES ASSUME Inv PROVE AnswersAreTrue
    OBVIOUS
  <2>1. ReadsAreTrue
    <3>1. CASE prog = "reader"
      BY <3>1 DEF ReadInv, ReaderInv
    <3>2. CASE prog # "reader"
      <4>1. rd.st = "none"
        BY <3>2 DEF ReadInv
      <4> QED BY <4>1 DEF ReadsAreTrue, ReadExact, CrashNeedsSyscallError
    <3> QED BY <3>1, <3>2
  <2> QED BY <2>1 DEF QueryInv, AnswersAreTrue
<1> QED BY <1>1, <1>2, <1>3, PTL DEF Spec
=============================================================================
