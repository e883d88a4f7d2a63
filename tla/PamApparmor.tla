---------------------------- MODULE PamApparmor ----------------------------
(***************************************************************************)
(* pam_apparmor: the hat of a session (pam_apparmor.c, get_options.c), and *)
(* aa-exec (aa_exec.c).                                                    *)
(***************************************************************************)
EXTENDS ChangeHat

CONSTANTS PamArgs, ExecArgs     \* arguments of the module, and options of aa-exec
ASSUME PamArgsAssumption == PamArgs \subseteq Seq(Seq(STRING))
ASSUME ExecArgsAssumption == ExecArgs \subseteq Seq(({"p", "n"} \X STRING) \union {<<"i">>, <<"bad">>})
VARIABLES pam,     \* [st, args, k, rest, order, ok, i, ret]
          ax       \* [st, args, profile, namespace, immediate]
pam_vars == <<pam, ax>>

MAX_HAT_TYPES == 3
NoPam == [st |-> "none", args |-> <<>>, k |-> 1, rest |-> <<>>, order |-> <<>>, ok |-> TRUE, i |-> 1, ret |-> "none"]
NoExec == [st |-> "none", args |-> <<>>, profile |-> None, namespace |-> None, immediate |-> FALSE]
PamInit == /\ IF prog = "pam" THEN pam \in {[NoPam EXCEPT !.st = "options", !.args = a] : a \in PamArgs} ELSE pam = NoPam
           /\ IF prog = "aa_exec" THEN ax \in {[NoExec EXCEPT !.st = "options", !.args = a] : a \in ExecArgs} ELSE ax = NoExec
PamIdle == UNCHANGED pam_vars

(* get_options and parse_option: every argument is looked at, one that is   *)
(* wrong is enough.  An argument is <<>>, <<"debug">>, <<"bad">> or         *)
(* <<"order", ...>>; rest is what of an order is still to be added.         *)
ParseOption ==
  LET arg == pam.args[pam.k]
  IN  /\ prog = "pam" /\ pam.st = "options" /\ pam.rest = <<>> /\ pam.k <= Len(pam.args) /\ NotBase /\ UNCHANGED ax
      /\ pam' = [pam EXCEPT !.k = @ + 1,
                            !.rest = IF arg # <<>> /\ arg[1] = "order" THEN Tail(arg) ELSE <<>>,
                            !.ok = @ /\ (arg = <<>> \/ arg[1] \in {"debug", "order"})]
HatTypes == {"group", "user", "default"}
AddHatType ==
  LET hat == Head(pam.rest)
      wrong == [pam EXCEPT !.ok = FALSE, !.rest = <<>>]
  IN  /\ prog = "pam" /\ pam.st = "options" /\ pam.rest # <<>> /\ NotBase /\ UNCHANGED ax
      /\ pam' = IF hat \notin HatTypes THEN wrong
                ELSE IF hat \in Range(pam.order) THEN [wrong EXCEPT !.order = <<>>]
                ELSE IF Len(pam.order) >= MAX_HAT_TYPES THEN wrong
                ELSE [pam EXCEPT !.order = Append(@, hat), !.rest = Tail(@)]
DefaultOrder == <<"group", "default">>
HatName(type) == CASE type = "group" -> "g" [] type = "user" -> "u" [] type = "default" -> "DEFAULT"

PamReturn(ret) == pam' = [pam EXCEPT !.st = "end", !.ret = ret]
(* pam_sm_open_session up to the token: user, group and /dev/urandom may be *)
(* missing.                                                                 *)
OpenSession ==
  /\ prog = "pam" /\ pam.st = "options" /\ pam.rest = <<>> /\ pam.k > Len(pam.args) /\ NotBase /\ UNCHANGED ax
  /\ IF ~pam.ok THEN PamReturn("SESSION_ERR")
     ELSE \/ \E ret \in {"USER_UNKNOWN", "PERM_DENIED"} : PamReturn(ret)
          \/ pam' = [pam EXCEPT !.st = "try", !.order = IF @ = <<>> THEN DefaultOrder ELSE @]
PamToken == 1        \* never 0: it is drawn until it is not
(* Mutant: a hat that does not exist ends the search with success. *)
AfterError_lenient(errno) == IF errno \in {"EINVAL", "ENOENT"} THEN "SUCCESS" ELSE "back"
AfterError(errno) == CASE errno \in {"EACCES", "ENOENT"} -> "back" [] errno = "EINVAL" -> "SUCCESS"
                       [] errno = "ECHILD" -> "SESSION_ERR" [] OTHER -> "SYSTEM_ERR"
TryHat ==
  LET r == AaChangeHat(1, HatName(pam.order[pam.i]), PamToken)
  IN  /\ prog = "pam" /\ pam.st = "try" /\ pam.i <= Len(pam.order) /\ Took(r) /\ UNCHANGED ax
      /\ IF r.errno = "0" THEN PamReturn("SUCCESS")
         ELSE IF AfterError(r.errno) = "back" THEN pam' = [pam EXCEPT !.st = "back"] ELSE PamReturn(AfterError(r.errno))
JumpBack ==
  LET r == AaChangeHat(1, Null, PamToken)
  IN  /\ prog = "pam" /\ pam.st = "back" /\ Took(r) /\ UNCHANGED ax
      /\ IF r.errno # "0" THEN PamReturn("SUCCESS") ELSE pam' = [pam EXCEPT !.st = "try", !.i = @ + 1]
NoMoreHats == /\ prog = "pam" /\ pam.st = "try" /\ pam.i > Len(pam.order) /\ PamReturn("SESSION_ERR") /\ NotBase /\ UNCHANGED ax

(***************************************************************************)
(* aa-exec: options <<"p", name>>, <<"n", name>>, <<"i">>, <<"bad">>       *)
(***************************************************************************)
ParseArg ==
  LET o == Head(ax.args)
      next == [ax EXCEPT !.args = Tail(@)]
      wrong == [ax EXCEPT !.st = "error"]
  IN  /\ prog = "aa_exec" /\ ax.st = "options" /\ ax.args # <<>> /\ NotBase /\ UNCHANGED pam
      /\ ax' = CASE o[1] = "p" -> IF ax.profile # None THEN wrong ELSE [next EXCEPT !.profile = o[2]]
                 [] o[1] = "n" -> IF ax.namespace # None THEN wrong ELSE [next EXCEPT !.namespace = o[2]]
                 [] o[1] = "i" -> [next EXCEPT !.immediate = TRUE]
                 [] OTHER -> wrong
(* build_name: a name in a namespace is another profile than the same name  *)
(* without one.                                                             *)
BuildName(c) == IF c.namespace = None THEN c.profile ELSE IF c.profile = None THEN "ns" ELSE "ns:p"
ParsedArgs == /\ prog = "aa_exec" /\ ax.st = "options" /\ ax.args = <<>> /\ NotBase /\ UNCHANGED pam
              /\ ax' = [ax EXCEPT !.st = IF BuildName(ax) = None THEN "exec" ELSE "change"]
Failed(errno) == errno # "0"
ChangeProfile ==
  LET r == AaChangeProfile(1, IF ax.immediate THEN "now" ELSE "onexec", BuildName(ax))
  IN  /\ prog = "aa_exec" /\ ax.st = "change" /\ Took(r) /\ UNCHANGED pam
      /\ ax' = [ax EXCEPT !.st = IF Failed(r.errno) THEN "error" ELSE "exec"]
Execvp == /\ prog = "aa_exec" /\ ax.st = "exec" /\ UNCHANGED <<prog, sys, lib, policy, foreign, pam>>
          /\ \/ /\ ax' = [ax EXCEPT !.st = "running"]
                /\ task' = [task EXCEPT ![1].label = IF task[1].exec # None THEN task[1].exec ELSE @, ![1].exec = None]
             \/ ax' = [ax EXCEPT !.st = "error"] /\ UNCHANGED task
Pam == ParseOption \/ AddHatType \/ OpenSession \/ TryHat \/ JumpBack \/ NoMoreHats
AaExec == ParseArg \/ ParsedArgs \/ ChangeProfile \/ Execvp

(* A session of a confined application is granted only in the first hat of  *)
(* the configured order that exists; one that is refused is left in no hat, *)
(* and a wrong option is never ignored.                                     *)
SessionInItsHat ==
  pam.st = "end" /\ Active /\ policy.confined =>
    LET hats == [i \in DOMAIN pam.order |-> HatName(pam.order[i])]
    IN  /\ pam.ret = "SUCCESS" => pam.order # <<>> /\ Existing(hats) # {} /\ task[1].label = FirstOf(hats)
        /\ pam.ret # "SUCCESS" => task[1].label = "profile"
        /\ (\E k \in DOMAIN pam.args : pam.args[k] = <<"bad">>) => pam.ret = "SESSION_ERR"

(* aa-exec runs its program only under the profile it was asked for. *)
RunsUnderProfile == ax.st = "running" /\ BuildName(ax) # None => task[1].label = BuildName(ax)

(* Neither a session nor a program is let run outside what was asked for.   *)
ConfinedOrRefused == SessionInItsHat /\ RunsUnderProfile
=============================================================================
