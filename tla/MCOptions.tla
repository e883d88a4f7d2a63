----------------------------- MODULE MCOptions -----------------------------
(***************************************************************************)
(* Every sequence of at most two job options over a few values without -L; *)
(* every -L argument of up to six characters alone and every pair of up to *)
(* three, enough for one location more than there are slots and for a      *)
(* second -L that names fewer locations than the first; and a few of both. *)
(***************************************************************************)
EXTENDS Options

Values == [kind : {"auto", "max"}, n : {0}] \cup [kind : {"num"}, n : {0, 1, 3}]
              \cup [kind : {"times"}, n : {0, 1, 2}]

JobOpts == [opt : {"jobs", "max-jobs"}, val : Values]

MCOptionSeqs == {<<>>} \cup {<<a>> : a \in JobOpts} \cup {<<a, b>> : a, b \in JobOpts}

MCCpuCounts == {-1, 1, 2, 4}

(* no meminfo, low memory, and estimates below, at and above 8 * cpus *)
MCJobEstimates == {NoMemInfo, LowMemory, 0, 1, 3, 9, 32}

Strings(len) == UNION {[1 .. l -> Chars] : l \in 0 .. len}

MCGiven == {<<>>} \cup {<<a>> : a \in Strings(6)} \cup {<<a, b>> : a, b \in Strings(3)}

MCCommandLines ==
    (MCOptionSeqs \X {<<>>})
        \cup ({<<>>} \X MCGiven)
        \cup ({<<o>> : o \in JobOpts} \X {<<a>> : a \in Strings(2)})
=============================================================================
