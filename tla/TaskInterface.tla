--------------------------- MODULE TaskInterface ---------------------------
(***************************************************************************)
(* The users of libapparmor's task interfaces, one program at a time: an   *)
(* Apache child with mod_apparmor, a PAM application, aa-exec, a reader of *)
(* labels, one that queries policy, and a caller of the library whose      *)
(* access to the interfaces changes.                                       *)
(***************************************************************************)
EXTENDS ModApparmor, PamApparmor, ReadLabel, QueryLabel

vars == <<base_vars, http_vars, pam_vars, read_vars, query_vars>>

Init == /\ prog \in Programs
        /\ BaseInit /\ HttpInit /\ PamInit /\ ReadInit /\ QueryInit

Next == \/ Caller /\ HttpIdle /\ PamIdle /\ ReadIdle /\ QueryIdle
        \/ Httpd /\ PamIdle /\ ReadIdle /\ QueryIdle
        \/ (Pam \/ AaExec) /\ HttpIdle /\ ReadIdle /\ QueryIdle
        \/ Reader /\ HttpIdle /\ PamIdle /\ QueryIdle
        \/ Query /\ HttpIdle /\ PamIdle /\ ReadIdle

(* A thread in the library goes on with its call. *)
Fairness == WF_vars(ReadStep /\ HttpIdle /\ PamIdle /\ QueryIdle)
Spec == Init /\ [][Next]_vars /\ Fairness

(* What the library answers is so: the context of a task that is read while *)
(* the task changes it is one the task had, or an error that is due         *)
(* (aa_getprocattr, aa_getcon, aa_getpeercon), and ENOENT from a query says *)
(* that the label is unknown (aa_query_label).                              *)
AnswersAreTrue == ReadsAreTrue /\ EnoentMeansUnknown
=============================================================================
