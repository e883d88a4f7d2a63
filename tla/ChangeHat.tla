----------------------------- MODULE ChangeHat -----------------------------
(***************************************************************************)
(* libapparmor's way to the kernel for a task's attributes, and            *)
(* aa_change_hat and its relatives on the tasks of one process (kernel.c). *)
(* The kernel's side follows aa_change_hat(2).                             *)
(***************************************************************************)
EXTENDS Integers, Sequences, FiniteSets, SequencesExt

(***************************************************************************)
(* The system call, /proc/<tid>/attr/apparmor/ or the older shared         *)
(* /proc/<tid>/attr/, and what the library remembers of that for good.     *)
(*                                                                         *)
(* sys is what the system offers,                                          *)
(*   [newdir, enabled, avail, syscall, old, denied]:                       *)
(* newdir "ok" or "ENOENT"; enabled and avail the module's parameters, "Y",*)
(* "N" or "ENOENT"; syscall "ok", "ENOSYS" or "late" (a kernel whose hook  *)
(* fails with EOPNOTSUPP after all); old the LSM behind the shared files,  *)
(* "aa" or "other"; denied what the task may not look at now.              *)
(***************************************************************************)
Look(sys, what) == IF what \in sys.denied THEN "EACCES" ELSE sys[what]
(* Systems that exist: apparmor owns the shared files when it is enabled,   *)
(* and a kernel without it has none of its files.                           *)
Possible(sys) == /\ (sys.enabled = "Y") = (sys.old = "aa")
                 /\ sys.syscall = "ok" => sys.enabled = "Y" \/ sys.avail = "Y"
                 /\ sys.enabled = "ENOENT" => sys.avail = "ENOENT" /\ sys.newdir = "ENOENT" /\ sys.syscall = "ENOSYS"
(* Systems on which a task reaches apparmor where it is active: nothing is  *)
(* denied, and the private interface, where it is the only one, has its     *)
(* directory.                                                               *)
Reaches(sys) == sys.denied = {} /\ (sys.enabled # "Y" /\ sys.avail = "Y" => sys.newdir = "ok")

NewLib == [enabled |-> "unset", avail |-> "unset", syscall |-> "unset", base |-> "unset", stacking |-> "unknown", access |-> "unset"]

(* param_check_enabled, param_check_private_enabled: an answer is kept, an  *)
(* error is looked up again.                                                *)
Once(lib, sys, p) == [lib EXCEPT ![p] = IF @ = "unset" THEN Look(sys, p) ELSE @]
ParamCheck(lib, sys, p) == LET v == Once(lib, sys, p)[p] IN IF v \in {"Y", "N"} THEN v ELSE Look(sys, p)

(* aa_is_enabled, with the interface mounted or not *)
AaIsEnabled(lib, sys, mounted) ==
  LET e == ParamCheck(lib, sys, "enabled")
      l == Once(lib, sys, "enabled")
      private == ParamCheck(l, sys, "avail") = "Y"
  IN  [lib |-> IF e = "Y" THEN l ELSE Once(l, sys, "avail"),
       rc |-> IF e = "Y" THEN IF mounted THEN "1" ELSE "ENOENT"
              ELSE IF private THEN IF mounted THEN "EBUSY" ELSE "ENOENT"
              ELSE IF e = "N" THEN "ECANCELED" ELSE IF e = "ENOENT" THEN "ENOSYS" ELSE e]

(* proc_attr_base_init_once *)
ProcAttrBaseInit(lib, sys) ==
  LET dir == Look(sys, "newdir")
      e == ParamCheck(lib, sys, "enabled")
      a == ParamCheck(lib, sys, "avail")
      undecided == IF dir = "EACCES" THEN "new" ELSE "null"
      base == IF dir = "ok" THEN "new"
              ELSE IF e = "N" THEN IF a = "Y" THEN "new" ELSE IF a = "N" THEN "unavailable" ELSE undecided
              ELSE IF e = "Y" THEN "old" ELSE IF e = "EACCES" THEN undecided ELSE "unavailable"
      looked == IF dir = "ok" THEN lib ELSE IF e = "N" THEN Once(Once(lib, sys, "enabled"), sys, "avail") ELSE Once(lib, sys, "enabled")
  IN  IF lib.base # "unset" THEN lib
      ELSE [looked EXCEPT !.base = base, !.stacking = IF dir \in {"ok", "EACCES"} THEN "yes" ELSE IF dir = "ENOENT" THEN "no" ELSE @]

ProcattrPath(lib) == IF lib.base # "null" THEN lib.base ELSE IF lib.stacking # "no" THEN "new" ELSE "old"

(* procattr_open: [lib, via, errno].  The shared files are tried again even *)
(* if they were what failed: the paths are compared before they are filled  *)
(* in.                                                                      *)
OpenPath(sys, path) ==
  CASE path = "new" -> IF "newdir" \in sys.denied THEN "EACCES" ELSE sys.newdir
    [] path = "old" -> IF "old" \in sys.denied THEN "EACCES" ELSE "ok"
    [] OTHER -> "ENOENT"
(* Mutant: the shared files are never tried. *)
MayFallBack_never(lib, sys) == FALSE
MayFallBack(lib, sys) == ParamCheck(lib, sys, "enabled") # "N"
OpenOrFallBack(l, sys) ==
  LET path == ProcattrPath(l)
      first == OpenPath(sys, path)
      again == OpenPath(sys, "old")
      l2 == Once(l, sys, "enabled")
  IN  IF first = "ok" THEN [lib |-> l, via |-> path, errno |-> "0"]
      ELSE IF ~MayFallBack(l, sys) THEN [lib |-> l2, via |-> "none", errno |-> first]
      ELSE [lib |-> l2, via |-> IF again = "ok" THEN "old" ELSE "none", errno |-> IF again = "ok" THEN "0" ELSE again]
ProcattrOpen(lib, sys) == OpenOrFallBack(ProcAttrBaseInit(lib, sys), sys)

(* aa_set_self_attr and aa_get_self_attr, up to the kernel *)
SelfSyscall(lib, sys) == [lib EXCEPT !.syscall = IF @ = "unset" THEN sys.syscall ELSE @]
SelfAttrVia(l, sys) == IF l.syscall # "ENOSYS" /\ sys.syscall = "ok" THEN [lib |-> l, via |-> "syscall", errno |-> "0"]
                       ELSE ProcattrOpen(l, sys)
SelfAttr(lib, sys) == SelfAttrVia(SelfSyscall(lib, sys), sys)

-----------------------------------------------------------------------------
CONSTANTS Tasks, Systems, Policies    \* for each program; a policy is [confined, hats, profiles]

None == ""                \* the empty name
Null == "NULL"            \* stands for no name, a null pointer
TooLong == "toolong"      \* stands for a name of more than PATH_MAX bytes
Programs == {"caller", "httpd", "pam", "aa_exec", "reader", "query"}
Interfaces == {"newdir", "enabled", "avail", "old"}
SystemType == [newdir : {"ok", "ENOENT"}, enabled : {"Y", "N", "ENOENT"}, avail : {"Y", "N", "ENOENT"},
               syscall : {"ok", "ENOSYS", "late"}, old : {"aa", "other"}, denied : SUBSET Interfaces]

ASSUME TasksAssumption == 1 \in Tasks
ASSUME SystemsAssumption == \A user \in Programs : \A s \in Systems[user] : s \in SystemType /\ Possible(s)
(* No hat has a name that stands for something else here. *)
ASSUME PoliciesAssumption ==
  \A user \in Programs : \A p \in Policies[user] : p.confined \in BOOLEAN /\ p.hats \cap {None, Null, TooLong, "unconfined", "killed"} = {}

VARIABLES prog,      \* the program that uses the library
          sys, lib,
          policy,
          task,      \* the kernel's view of each task
          foreign    \* history: how commands came to another LSM
base_vars == <<prog, sys, lib, policy, task, foreign>>

NewTask(p) == [label |-> IF p.confined THEN "profile" ELSE "unconfined", prev |-> None, token |-> 0, exec |-> None]
BaseInit == /\ sys \in Systems[prog] /\ lib = NewLib /\ policy \in Policies[prog] /\ foreign = {}
            /\ task = [t \in Tasks |-> NewTask(policy)]

(* The hats among some names, by their places, and the first of them. *)
Existing(names) == {i \in DOMAIN names : names[i] \in policy.hats}
FirstOf(names) == names[CHOOSE i \in Existing(names) : \A j \in Existing(names) : i <= j]

(* The kernel: the first hat that exists, or back with no name.  A name     *)
(* that is empty in the first place ends the list before it begins; without *)
(* a token that command is not one of the protocol's.                       *)
KernelChangeHat(k, names, token) ==
  LET back == names = <<>> \/ names[1] = None
  IN  IF back /\ token = 0 THEN [task |-> k, errno |-> "EINVAL"]
      ELSE IF k.label = "unconfined" THEN [task |-> k, errno |-> "EPERM"]
      ELSE IF back /\ k.prev = None THEN [task |-> k, errno |-> "0"]
      ELSE IF ~back /\ Existing(names) = {} THEN [task |-> k, errno |-> IF policy.hats = {} THEN "ECHILD" ELSE "ENOENT"]
      ELSE IF k.prev # None /\ k.token # token THEN [task |-> [k EXCEPT !.label = "killed"], errno |-> "EACCES"]
      ELSE IF back THEN [task |-> [label |-> k.prev, prev |-> None, token |-> 0, exec |-> None], errno |-> "0"]
      ELSE [task |-> [label |-> FirstOf(names), prev |-> IF k.prev = None THEN k.label ELSE k.prev, token |-> token, exec |-> None],
            errno |-> "0"]
KernelChangeProfile(k, op, name) ==
  IF name \notin policy.profiles THEN [task |-> k, errno |-> "ENOENT"]
  ELSE [task |-> IF op = "onexec" THEN [k EXCEPT !.exec = name] ELSE [k EXCEPT !.label = name, !.exec = None], errno |-> "0"]

(* aa_set_self_attr of one command: the errno, and what it changed; effect  *)
(* is what the kernel does if the command reaches it.                       *)
Active == sys.enabled = "Y" \/ sys.avail = "Y"
DeliverVia(s, t, effect) ==
  LET done == IF s.via = "none" THEN [task |-> task[t], errno |-> s.errno]
              ELSE IF (s.via = "old" /\ sys.old = "other") \/ ~Active THEN [task |-> task[t], errno |-> "EINVAL"]
              ELSE effect
  IN  [lib |-> s.lib, task |-> [task EXCEPT ![t] = done.task], errno |-> done.errno,
       foreign |-> IF s.via = "old" /\ sys.old = "other"
                   THEN foreign \union {[enabled |-> Look(sys, "enabled"), base |-> s.lib.base, known |-> s.lib.enabled]} ELSE foreign]
Deliver(t, effect) == DeliverVia(SelfAttr(lib, sys), t, effect)
Refused(errno) == [lib |-> lib, task |-> task, errno |-> errno, foreign |-> foreign]

(* aa_change_hat, and aa_change_hatv with its wrapper aa_change_hat_vargs.  *)
(* Only a null pointer is refused without a token, an empty name is sent.   *)
AaChangeHat(t, hat, token) ==
  IF token = 0 /\ hat = Null THEN Refused("EINVAL") ELSE IF hat = TooLong THEN Refused("EPROTO")
  ELSE Deliver(t, KernelChangeHat(task[t], <<IF hat = Null THEN None ELSE hat>>, token))
AaChangeHatv(t, hats, token) ==
  IF token = 0 /\ hats = <<>> THEN Refused("EINVAL") ELSE IF TooLong \in Range(hats) THEN Refused("EPROTO")
  ELSE Deliver(t, KernelChangeHat(task[t], hats, token))
(* aa_change_profile, aa_change_onexec, aa_stack_profile, aa_stack_onexec *)
AaChangeProfile(t, op, name) ==
  IF name = Null THEN Refused("EINVAL") ELSE Deliver(t, KernelChangeProfile(task[t], op, name))

Took(r) == lib' = r.lib /\ task' = r.task /\ foreign' = r.foreign /\ UNCHANGED <<prog, sys, policy>>
NotBase == UNCHANGED base_vars

(***************************************************************************)
(* A program that calls the library while policy takes its access to the   *)
(* interfaces away and gives it back                                       *)
(***************************************************************************)
Call(t, hat, token) == prog = "caller" /\ Took(AaChangeHat(t, hat, token))
Callv(t, hats, token) == prog = "caller" /\ Took(AaChangeHatv(t, hats, token))
Stack(t, name) == prog = "caller" /\ Took(AaChangeProfile(t, "now", name))
IsEnabled(mounted) == /\ prog = "caller" /\ lib' = AaIsEnabled(lib, sys, mounted).lib
                      /\ UNCHANGED <<prog, sys, policy, task, foreign>>
Deny(what) == /\ prog = "caller" /\ sys' = [sys EXCEPT !.denied = IF what \in @ THEN @ \ {what} ELSE @ \union {what}]
              /\ UNCHANGED <<prog, lib, policy, task, foreign>>
Caller == \/ \E hat \in {None, Null, "d", TooLong}, token \in {0, 1} : Call(1, hat, token)
          \/ \E hats \in {<<>>, <<"x", "d">>, <<None, "d">>, <<"d", TooLong>>} : Callv(1, hats, 1)
          \/ \E name \in {"p", "x", Null} : Stack(1, name)
          \/ \E mounted \in BOOLEAN : IsEnabled(mounted)
          \/ \E what \in Interfaces : Deny(what)

(* A command comes to another LSM only if the library could not find out    *)
(* that apparmor is not enabled, or if neither the directory nor the        *)
(* parameter of the private interface is there (procattr_path).             *)
ForeignOnlyIfUnknown ==
  \A f \in foreign : f.enabled = "EACCES" \/ f.enabled = "ENOENT" \/ (f.base = "null" /\ sys.newdir = "ENOENT")

(* Whatever was denied when the library looked first, a command reaches     *)
(* apparmor whenever one of its interfaces can be opened now, except that a *)
(* library that settled on the shared files never comes back to the private *)
(* ones (the TODO of procattr_path).                                        *)
CommandArrives ==
  prog = "caller" /\ Active =>
    LET s == SelfAttr(lib, sys)
        open == \/ sys.newdir = "ok" /\ "newdir" \notin sys.denied /\ lib.base # "old"
                \/ sys.old = "aa" /\ "old" \notin sys.denied
    IN  open => s.via # "none" /\ ~(s.via = "old" /\ sys.old = "other")

(* Commands go to apparmor when it can be reached and to nobody else,       *)
(* whatever the library remembers of an earlier look.                       *)
CommandsDelivered == ForeignOnlyIfUnknown /\ CommandArrives
=============================================================================
