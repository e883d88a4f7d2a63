----------------------------- MODULE JobOptions -----------------------------
(***************************************************************************)
(* How apparmor_parser turns its options -j and --max-jobs, the number of  *)
(* cpus and the free memory into the three globals that drive the work     *)
(* queue: jobs, jobs_max and jobs_scale (parser/parser_main.c).            *)
(*                                                                         *)
(* An option value is a record: kind "num" stands for a plain number,      *)
(* "times" for xN, "auto" and "max" for the two words.  The config file    *)
(* and the command line go through the same process_arg, the config file   *)
(* first, so one sequence of options stands for both.                      *)
(***************************************************************************)
EXTENDS Integers, Sequences

CONSTANTS
    LONG_MAX,       \* larger than any number an option may give
    OptionSeqs,     \* the sequences of job options that may be given
    CpuCounts,      \* what sysconf may answer for on-line and configured cpus
    JobEstimates    \* mem_free / estimated_job_size, -1 when memory is low

VARIABLES
    stage,          \* "options" -> "tune" -> "setup" -> "ready"
    opts,           \* options not processed yet
    jobs, jobs_max, jobs_scale,
    ncpus, maxcpus, \* answers of sysconf, fixed in auto_tune_parameters
    estimate,       \* how many jobs fit the free memory
    given           \* history: the options as they were given

vars == <<stage, opts, jobs, jobs_max, jobs_scale, ncpus, maxcpus, estimate, given>>

JOBS_AUTO == -LONG_MAX - 1
DEFAULT_JOBS_MAX == -8

OptionValues == [kind : {"auto", "max"}, n : {0}]
                    \cup [kind : {"num", "times"}, n : Int]

JobOption == [opt : {"jobs", "max-jobs"}, val : OptionValues]

(* The most negative answer of the estimate: mem_free < AUTOTUNE_MIN_FREE_MEM *)
LowMemory == -1
(* /proc/meminfo could not be read, so nothing is tuned. *)
NoMemInfo == -2

ASSUME LongMaxAssumption == LONG_MAX \in Nat \ {0}

ASSUME OptionSeqsAssumption ==
    /\ OptionSeqs \subseteq Seq(JobOption)
    /\ \A s \in OptionSeqs : \A i \in 1 .. Len(s) :
           s[i].val.n \in -LONG_MAX + 1 .. LONG_MAX - 1

ASSUME CpuCountsAssumption == CpuCounts \subseteq (Nat \ {0}) \cup {-1}

ASSUME JobEstimatesAssumption ==
    JobEstimates \subseteq Nat \cup {LowMemory, NoMemInfo}

-----------------------------------------------------------------------------
(* process_jobs_arg: the word or number after the option. *)
ProcessJobsArg(v) ==
    CASE v.kind = "auto"  -> JOBS_AUTO
      [] v.kind = "max"   -> LONG_MAX
      [] v.kind = "num"   -> v.n
      [] v.kind = "times" -> -v.n

(* A negative value is a multiple of the number of cpus. *)
ComputeJobs(n, j) ==
    IF j = JOBS_AUTO THEN n
    ELSE IF j < 0 THEN n * j * (-1)
    ELSE j

(* The default of a cpu count sysconf could not tell. *)
CpusOr1(n) == IF n = -1 THEN 1 ELSE n

(***************************************************************************)
(* What the memory estimate makes of <<jobs, jobs_max>>.  Only JOBS_AUTO   *)
(* is tuned: low memory turns the workers off, little memory takes the     *)
(* estimate, more takes a multiple of the cpus below the default cap, and  *)
(* plenty leaves JOBS_AUTO alone.                                          *)
(***************************************************************************)
AutoTune(j, jm, est, n) ==
    IF j # JOBS_AUTO \/ est = NoMemInfo THEN <<j, jm>>
    ELSE IF est = LowMemory THEN <<0, 0>>
    ELSE IF est < n THEN <<est, jm>>
    ELSE IF est \div n >= -DEFAULT_JOBS_MAX THEN <<j, jm>>
    ELSE <<-(est \div n), jm>>

(* Mutant: jobs is not capped. *)
Setup_uncapped(j, jm, scale, n, m) ==
    [jobs       |-> ComputeJobs(n, j),
     jobs_max   |-> ComputeJobs(m, jm),
     jobs_scale |-> IF j < 0 THEN 1 ELSE scale]

(***************************************************************************)
(* setup_parallel_compile: resolve both values against the cpus, cap jobs  *)
(* and give a scaling value its chances to sample the cpus again.          *)
(***************************************************************************)
Setup(j, jm, scale, n, m) ==
    LET sc == IF j < 0 \/ j = JOBS_AUTO THEN 1 ELSE scale
        rj == ComputeJobs(n, j)
        rm == ComputeJobs(m, jm)
    IN  [jobs       |-> IF rj > rm THEN rm ELSE rj,
         jobs_max   |-> rm,
         jobs_scale |-> IF rj > rm THEN sc
                        ELSE IF sc # 0 /\ rj < rm THEN rm + 1 - n
                        ELSE sc]

-----------------------------------------------------------------------------
Init ==
    /\ stage = "options"
    /\ given \in OptionSeqs
    /\ opts = given
    /\ jobs = JOBS_AUTO
    /\ jobs_max = DEFAULT_JOBS_MAX
    /\ jobs_scale = 0
    /\ ncpus = 1 /\ maxcpus = 1
    /\ estimate = NoMemInfo

(* Mutant: -j leaves the cap alone. *)
ProcessJobs_keepsmax ==
    /\ stage = "options" /\ opts # <<>>
    /\ Head(opts).opt = "jobs"
    /\ jobs' = ProcessJobsArg(Head(opts).val)
    /\ opts' = Tail(opts)
    /\ UNCHANGED <<stage, jobs_max, jobs_scale, ncpus, maxcpus, estimate, given>>

(* process_arg, case 'j': a value other than auto and max also sets the cap. *)
ProcessJobs ==
    /\ stage = "options" /\ opts # <<>>
    /\ Head(opts).opt = "jobs"
    /\ jobs' = ProcessJobsArg(Head(opts).val)
    /\ jobs_max' = IF jobs' # JOBS_AUTO /\ jobs' < LONG_MAX THEN jobs' ELSE jobs_max
    /\ opts' = Tail(opts)
    /\ UNCHANGED <<stage, jobs_scale, ncpus, maxcpus, estimate, given>>

(* process_arg, case ARG_MAX_JOBS *)
ProcessMaxJobs ==
    /\ stage = "options" /\ opts # <<>>
    /\ Head(opts).opt = "max-jobs"
    /\ jobs_max' = ProcessJobsArg(Head(opts).val)
    /\ opts' = Tail(opts)
    /\ UNCHANGED <<stage, jobs, jobs_scale, ncpus, maxcpus, estimate, given>>

(* auto_tune_parameters, once all options are seen: the cpus and the memory. *)
SampleSystem ==
    /\ stage = "options" /\ opts = <<>>
    /\ \E n, m \in CpuCounts : ncpus' = CpusOr1(n) /\ maxcpus' = CpusOr1(m)
    /\ estimate' \in JobEstimates
    /\ stage' = "tune"
    /\ UNCHANGED <<opts, jobs, jobs_max, jobs_scale, given>>

AutoTuneParameters ==
    /\ stage = "tune"
    /\ LET t == AutoTune(jobs, jobs_max, estimate, ncpus)
       IN  jobs' = t[1] /\ jobs_max' = t[2]
    /\ stage' = "setup"
    /\ UNCHANGED <<opts, jobs_scale, ncpus, maxcpus, estimate, given>>

SetupParallelCompile ==
    /\ stage = "setup"
    /\ LET s == Setup(jobs, jobs_max, jobs_scale, ncpus, maxcpus)
       IN  /\ jobs' = s.jobs
           /\ jobs_max' = s.jobs_max
           /\ jobs_scale' = s.jobs_scale
    /\ stage' = "ready"
    /\ UNCHANGED <<opts, ncpus, maxcpus, estimate, given>>

Next == ProcessJobs \/ ProcessMaxJobs \/ SampleSystem \/ AutoTuneParameters
            \/ SetupParallelCompile

Spec == Init /\ [][Next]_vars

-----------------------------------------------------------------------------
TypeOK ==
    /\ stage \in {"options", "tune", "setup", "ready"}
    /\ given \in OptionSeqs
    /\ opts \in Seq(JobOption)
    /\ jobs \in Int /\ jobs_max \in Int /\ jobs_scale \in Int
    /\ ncpus \in Nat \ {0} /\ maxcpus \in Nat \ {0}
    /\ estimate \in JobEstimates \cup {NoMemInfo}

(***************************************************************************)
(* Whatever the options, the cpus and the memory, the work queue starts    *)
(* with a job count between zero and the cap, and with a sampling budget   *)
(* that counts down to zero (work_spawn tests "if (jobs_scale)" and then   *)
(* decrements, so a negative budget would never run out).                  *)
(***************************************************************************)
JobsCapped ==
    stage = "ready" => /\ 0 <= jobs /\ jobs <= jobs_max
                       /\ 0 <= jobs_scale

(***************************************************************************)
(* A plain number in a -j that comes last is obeyed exactly, whatever came *)
(* before it (the config file for one), however many cpus there are and    *)
(* however little memory: "-j8 allows for 8 parallel jobs", "0 - disable   *)
(* jobs and use the main process for all compilation".                     *)
(***************************************************************************)
PlainNumberObeyed ==
    (stage = "ready" /\ given # <<>>) =>
        LET last == given[Len(given)]
        IN  (last.opt = "jobs" /\ last.val.kind = "num" /\ last.val.n >= 0)
                => jobs = last.val.n /\ jobs_max = jobs /\ jobs_scale = 0
=============================================================================
