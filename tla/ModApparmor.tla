---------------------------- MODULE ModApparmor ----------------------------
(***************************************************************************)
(* mod_apparmor: the hats of an Apache child and of its threads            *)
(* (mod_apparmor.c).  A request is [dir, srv, vhost_uri, uri]: the names   *)
(* that AAHatName, AADefaultHatName, the server name with the URI and the  *)
(* URI give.                                                               *)
(***************************************************************************)
EXTENDS ChangeHat

CONSTANTS Requests, Tokens, MaxInits, Threads     \* Threads: numbers of threads that a child may have
(* A server has a name, and no name is too long for the kernel. *)
ASSUME RequestsAssumption == \A r \in Requests : r.host # None /\ TooLong \notin {r.dir, r.srv, r.host, r.vhost_uri, r.uri}

VARIABLES magic_token,   \* of the parent process
          inits, child,
          stage, req, redirected
http_vars == <<magic_token, inits, child, stage, req, redirected>>

DEFAULT_HAT == "HANDLING_UNTRUSTED_INPUT"
DEFAULT_URI_HAT == "DEFAULT_URI"
NoReq == [dir |-> None, srv |-> None, host |-> None, vhost_uri |-> None, uri |-> None]
NoChild == [up |-> FALSE, token |-> 0, inside_default_hat |-> FALSE, threads |-> {}]
HttpInit == /\ magic_token = 0 /\ inits = 0 /\ child = NoChild /\ redirected = [t \in Tasks |-> FALSE]
            /\ stage = [t \in Tasks |-> "none"] /\ req = [t \in Tasks |-> NoReq]
HttpIdle == UNCHANGED http_vars

(* aa_init: after each reading of the configuration; the token stays 0 if   *)
(* /dev/urandom cannot be read.                                             *)
AaInit == /\ prog = "httpd" /\ inits < MaxInits /\ inits' = inits + 1
          /\ magic_token' \in Tokens \union {0}
          /\ NotBase /\ UNCHANGED <<child, stage, req, redirected>>
(* The child copies the token of the parent process. *)
Fork(n) == /\ prog = "httpd" /\ ~child.up /\ inits > 0
           /\ child' = [up |-> TRUE, token |-> magic_token, inside_default_hat |-> FALSE, threads |-> 1 .. n]
           /\ task' = [t \in Tasks |-> NewTask(policy)] /\ stage' = [t \in Tasks |-> IF t = 1 THEN "start" ELSE "none"]
           /\ redirected' = [t \in Tasks |-> FALSE] /\ req' = [t \in Tasks |-> NoReq]
           /\ UNCHANGED <<prog, sys, lib, policy, foreign, magic_token, inits>>
ChildEnds == /\ prog = "httpd" /\ child.up /\ child' = NoChild /\ stage' = [t \in Tasks |-> "none"]
             /\ NotBase /\ UNCHANGED <<magic_token, inits, req, redirected>>

(* Mutant: the token of the parent process at the time of the call. *)
Token_parent == magic_token
Token == child.token
(* aa_child_init, and the threads that start from its task *)
AaChildInit ==
  LET r == AaChangeHat(1, DEFAULT_HAT, Token)
  IN  /\ prog = "httpd" /\ stage[1] = "start"
      /\ child' = [child EXCEPT !.inside_default_hat = r.errno = "0"]
      /\ lib' = r.lib /\ foreign' = r.foreign /\ task' = [t \in Tasks |-> r.task[1]]
      /\ stage' = [t \in Tasks |-> IF t \in child.threads THEN "idle" ELSE "none"]
      /\ UNCHANGED <<prog, sys, policy, magic_token, inits, req, redirected>>

Go(t, s) == stage' = [stage EXCEPT ![t] = s]
(* A request gets to the access checker, perhaps as an internal redirect of *)
(* one that is being handled.  Subrequests leave the hat alone.             *)
Arrive(t, r) == /\ prog = "httpd" /\ stage[t] \in {"idle", "handling"} /\ Go(t, "enter") /\ req' = [req EXCEPT ![t] = r]
                /\ redirected' = [redirected EXCEPT ![t] = stage[t] = "handling"]
                /\ NotBase /\ UNCHANGED <<magic_token, inits, child>>
(* aa_enter_hat *)
LeaveDefault(t) == /\ prog = "httpd" /\ stage[t] = "enter" /\ UNCHANGED <<magic_token, inits, child, req, redirected>>
                   /\ IF child.inside_default_hat THEN Took(AaChangeHat(t, Null, Token)) /\ Go(t, "clear")
                      ELSE NotBase /\ Go(t, "hats")
ClearInside(t) == /\ prog = "httpd" /\ stage[t] = "clear" /\ child' = [child EXCEPT !.inside_default_hat = FALSE]
                  /\ Go(t, "hats") /\ NotBase /\ UNCHANGED <<magic_token, inits, req, redirected>>
HatArray(r) == LET server == IF r.srv # None THEN r.srv ELSE r.host
               IN  IF r.dir # None THEN <<r.dir, server, r.vhost_uri, r.uri, DEFAULT_URI_HAT>>
                   ELSE <<server, r.vhost_uri, r.uri, DEFAULT_URI_HAT>>
EnterHat(t) == /\ prog = "httpd" /\ stage[t] = "hats" /\ Took(AaChangeHatv(t, HatArray(req[t]), Token))
               /\ Go(t, "handling") /\ UNCHANGED <<magic_token, inits, child, req, redirected>>
(* aa_exit_hat: also for requests that end before the access checker *)
BackToProfile(t) == Took(AaChangeHatv(t, <<>>, Token))
ExitHat(t) == /\ prog = "httpd" /\ stage[t] \in {"idle", "handling"} /\ BackToProfile(t)
              /\ Go(t, "exit") /\ UNCHANGED <<magic_token, inits, child, req, redirected>>
EnterDefault(t) ==
  LET r == AaChangeHat(t, DEFAULT_HAT, Token)
  IN  /\ prog = "httpd" /\ stage[t] = "exit" /\ Took(r) /\ Go(t, "idle")
      /\ child' = [child EXCEPT !.inside_default_hat = IF r.errno = "0" THEN TRUE ELSE @]
      /\ redirected' = [redirected EXCEPT ![t] = FALSE]
      /\ UNCHANGED <<magic_token, inits, req>>
Httpd == \/ AaInit \/ (\E n \in Threads : Fork(n)) \/ ChildEnds \/ AaChildInit
         \/ \E t \in Tasks : \/ (\E r \in Requests : Arrive(t, r)) \/ LeaveDefault(t) \/ ClearInside(t) \/ EnterHat(t)
                             \/ ExitHat(t) \/ EnterDefault(t)

(* The module always presents the token that the kernel holds: no thread is *)
(* killed, whenever the parent draws new tokens.                            *)
NeverKilled == prog = "httpd" => \A t \in Tasks : task[t].label # "killed"

(* A request is handled in the first of its hats that exists, whatever the  *)
(* other threads do and whatever the token is; if none exists, in the       *)
(* profile, in prefork children for requests that are no redirects and with *)
(* a token.                                                                 *)
Reached == Active /\ policy.confined
HatsOf(r) == <<r.dir, IF r.srv # None THEN r.srv ELSE r.host, r.vhost_uri, r.uri, DEFAULT_URI_HAT>>
RequestInItsHat ==
  prog = "httpd" /\ Reached => \A t \in Tasks : stage[t] = "handling" =>
    LET hats == HatsOf(req[t])
    IN  /\ Existing(hats) # {} => task[t].label = FirstOf(hats)
        /\ Existing(hats) = {} /\ ~redirected[t] /\ child.threads = {1} /\ child.token # 0 => task[t].label = "profile"

(* Between requests no thread keeps the hat of the last one: it is in the   *)
(* hat for untrusted input or, if that does not exist, in the profile.      *)
IdleLeavesHat ==
  prog = "httpd" /\ Reached => \A t \in Tasks : stage[t] = "idle" =>
    IF DEFAULT_HAT \in policy.hats THEN task[t].label = DEFAULT_HAT
    ELSE child.token # 0 => task[t].label = "profile"

(* Every thread is where it belongs: alive, in the hat of its request while *)
(* it handles one, and out of it afterwards.                                *)
HatsFollowRequests == NeverKilled /\ RequestInItsHat /\ IdleLeavesHat
=============================================================================
