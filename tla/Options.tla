------------------------------ MODULE Options ------------------------------
(***************************************************************************)
(* main of apparmor_parser up to the first profile: the config file and    *)
(* the command line are processed option by option (process_config_file,   *)
(* process_args), then the jobs are tuned (auto_tune_parameters), and then *)
(* the cache locations are used.  An invalid -L ends the program.          *)
(***************************************************************************)
EXTENDS JobOptions, CacheLoc

CONSTANT CommandLines      \* pairs of the job options and the -L arguments of one run

ASSUME CommandLinesAssumption == CommandLines \subseteq OptionSeqs \X Given

optvars == <<vars, locvars>>

OptInit ==
    /\ \E c \in CommandLines : given = c[1] /\ args = c[2]
    /\ Init
    /\ LocInit

(* process_arg: one option at a time, in any order of -j and -L. *)
ProcessArg ==
    \/ pc = "options" /\ (ProcessJobs \/ ProcessMaxJobs) /\ UNCHANGED locvars
    \/ (NextOption \/ ScanBackslash \/ ScanChar \/ ScanComma \/ ScanEnd) /\ UNCHANGED vars

(* auto_tune_parameters, once every option is processed. *)
Tune ==
    /\ pc = "options" /\ k = Len(args)
    /\ SampleSystem \/ AutoTuneParameters \/ SetupParallelCompile
    /\ UNCHANGED locvars

OpenCaches == stage = "ready" /\ UseLocations /\ UNCHANGED vars

OptNext == ProcessArg \/ Tune \/ OpenCaches

(* None of the steps waits for anything: main goes on. *)
OptSpec == OptInit /\ [][OptNext]_optvars /\ WF_optvars(OptNext)
=============================================================================
