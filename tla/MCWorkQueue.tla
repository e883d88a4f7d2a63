----------------------------- MODULE MCWorkQueue -----------------------------
(***************************************************************************)
(* Two arguments, directories of up to two entries, so up to four units;   *)
(* every kind of job setting: none, one, several, and two that scale.      *)
(***************************************************************************)
EXTENDS WorkQueue

MCRetvals == {0, 1, -2}
MCErrnos == {12}
MCOnlineCpus == {-1, 1, 2, 4}
MCSetups == { [jobs |-> 0, jobs_max |-> 0, jobs_scale |-> 0],
              [jobs |-> 1, jobs_max |-> 1, jobs_scale |-> 0],
              [jobs |-> 3, jobs_max |-> 3, jobs_scale |-> 0],
              [jobs |-> 1, jobs_max |-> 2, jobs_scale |-> 2] }
=============================================================================
