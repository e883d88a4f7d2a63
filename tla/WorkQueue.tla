------------------------------ MODULE WorkQueue ------------------------------
(***************************************************************************)
(* The work queue of apparmor_parser (parser/parser_main.c): main walks    *)
(* over its arguments, a directory argument is walked entry by entry, and  *)
(* every profile is a unit of work.  With jobs = 0 a unit is done in the   *)
(* main process, otherwise it is forked; at most jobs children exist, and  *)
(* work_sync_one reaps one child at a time and hands its exit status to    *)
(* handle_work_result, which on the first error of --abort-on-error waits  *)
(* for the other children and exits from inside the callback.              *)
(*                                                                         *)
(* The children run concurrently with the parent: they finish, or are      *)
(* killed, in any order.                                                   *)
(***************************************************************************)
EXTENDS Integers, FiniteSets

CONSTANTS
    NArgs,        \* number of command line arguments
    MaxEntries,   \* bound on the entries of a directory argument
    Retvals,      \* what process_profile and process_binary may return
    Errnos,       \* what a failing system call may leave in errno
    OnlineCpus,   \* answers of sysconf(_SC_NPROCESSORS_ONLN)
    Setups        \* the settings JobOptions may leave behind

VARIABLES
    pc,             \* where the parent is
    arg,            \* index of the argument being processed
    entry,          \* entries left in the directory; 1 for a file argument
    indir,          \* the current argument is a directory
    dirrc,          \* rc of _aa_dirat_for_each
    jobs, jobs_max, jobs_scale, njobs,
    abort_on_error, last_error,
    suspended,      \* work_sync_one frames below handle_work_result's exit()
    child,          \* [Units -> state of the forked child]
    code,           \* [Units -> its wait status]
    exit_status,    \* of the parent
    abort_given,    \* history: --abort-on-error was given
    last_fail       \* history: the last error that really happened

vars == <<pc, arg, entry, indir, dirrc, jobs, jobs_max, jobs_scale, njobs,
          abort_on_error, last_error, suspended, child, code, exit_status,
          abort_given, last_fail>>

parse_vars == <<arg, entry, indir, dirrc>>
job_vars == <<jobs, jobs_max, jobs_scale>>

ECHILD == 10
KILLED == -1          \* a wait status that is not WIFEXITED

Units == (1 .. NArgs) \X (1 .. MaxEntries)
Unit == <<arg, entry>>

(* exit() keeps the low eight bits of its argument. *)
Exit8(r) == r % 256

ASSUME NArgsAssumption == NArgs \in Nat
ASSUME MaxEntriesAssumption == MaxEntries \in Nat \ {0}
ASSUME RetvalsAssumption ==
    Retvals \subseteq Int /\ \A r \in Retvals : r # 0 => Exit8(r) # 0
ASSUME ErrnosAssumption == Errnos \subseteq 1 .. 255
ASSUME OnlineCpusAssumption == OnlineCpus \subseteq (Nat \ {0}) \cup {-1}
ASSUME SetupsAssumption ==
    /\ Setups \subseteq [jobs : Nat, jobs_max : Nat, jobs_scale : Nat]
    /\ \A s \in Setups : s.jobs <= s.jobs_max

(* Children that exist: still running, or finished and not waited for. *)
Live == {u \in Units : child[u] \in {"running", "zombie"}}

-----------------------------------------------------------------------------
(* main, after the options: nothing spawned, no error yet. *)
Init ==
    /\ pc = "main" /\ arg = 1 /\ entry = 1 /\ indir = FALSE /\ dirrc = 0
    /\ \E s \in Setups :
          jobs = s.jobs /\ jobs_max = s.jobs_max /\ jobs_scale = s.jobs_scale
    /\ njobs = 0
    /\ abort_given \in BOOLEAN
    /\ abort_on_error = abort_given
    /\ last_error = 0 /\ last_fail = 0 /\ suspended = 0 /\ exit_status = 0
    /\ child = [u \in Units |-> "unborn"]
    /\ code = [u \in Units |-> 0]

(* Mutant: the result of a later unit, a success too, replaces the error. *)
HandleWorkResult_overwrites(r, frame, next) ==
    /\ last_error' = r
    /\ IF r # 0 /\ abort_on_error
       THEN abort_on_error' = FALSE /\ pc' = "abort" /\ suspended' = suspended + frame
            /\ njobs' = njobs
       ELSE pc' = next /\ njobs' = njobs - frame /\ UNCHANGED <<abort_on_error, suspended>>

(* Mutant: the first error is kept instead of the last. *)
HandleWorkResult_first(r, frame, next) ==
    /\ last_error' = IF last_error = 0 THEN r ELSE last_error
    /\ IF r # 0 /\ abort_on_error
       THEN abort_on_error' = FALSE /\ pc' = "abort" /\ suspended' = suspended + frame
            /\ njobs' = njobs
       ELSE pc' = next /\ njobs' = njobs - frame /\ UNCHANGED <<abort_on_error, suspended>>

(* Mutant: work_sync_one never gets to its "njobs--". *)
HandleWorkResult_nodec(r, frame, next) ==
    /\ last_error' = IF r # 0 THEN r ELSE last_error
    /\ pc' = IF r # 0 /\ abort_on_error THEN "abort" ELSE next
    /\ abort_on_error' = (abort_on_error /\ r = 0)
    /\ UNCHANGED <<njobs, suspended>>

(***************************************************************************)
(* handle_work_result(r), called where control continues at next.  frame   *)
(* is 1 when the caller is work_sync_one, whose "njobs--" comes after the  *)
(* call: it is done when the call returns and is never done when the call  *)
(* ends in exit().                                                         *)
(***************************************************************************)
HandleWorkResult(r, frame, next) ==
    /\ last_error' = IF r # 0 THEN r ELSE last_error
    /\ IF r # 0 /\ abort_on_error
       THEN /\ abort_on_error' = FALSE
            /\ pc' = "abort"
            /\ suspended' = suspended + frame
            /\ njobs' = njobs
       ELSE /\ pc' = next
            /\ njobs' = njobs - frame
            /\ UNCHANGED <<abort_on_error, suspended>>

(* A result that really happened, as opposed to a garbage wait status. *)
NoteFailure(r) == last_fail' = IF r # 0 THEN r ELSE last_fail

(* After a unit: the next entry of the directory or the next argument. *)
AfterUnit == IF indir THEN "dir" ELSE "main"
Advance ==
    /\ arg' = IF indir THEN arg ELSE arg + 1
    /\ entry' = IF indir THEN entry - 1 ELSE entry
    /\ UNCHANGED indir

-----------------------------------------------------------------------------
(* main: stat of the argument (or strdup of its name) fails. *)
ArgMissing ==
    /\ pc = "main" /\ arg <= NArgs
    /\ \E e \in Errnos : last_error' = e /\ NoteFailure(e)
    /\ pc' = IF abort_on_error THEN "sync" ELSE "main"
    /\ arg' = IF abort_on_error THEN arg ELSE arg + 1
    /\ UNCHANGED <<entry, indir, dirrc, job_vars, njobs, abort_on_error,
                   suspended, child, code, exit_status, abort_given>>

(* main: the argument is a file (or stdin), a unit of its own. *)
ArgFile ==
    /\ pc = "main" /\ arg <= NArgs
    /\ pc' = "unit" /\ entry' = 1 /\ indir' = FALSE
    /\ UNCHANGED <<arg, dirrc, job_vars, njobs, abort_on_error, last_error,
                   suspended, child, code, exit_status, abort_given, last_fail>>

(***************************************************************************)
(* main: the argument is a directory; _aa_dirat_for_each opens it and      *)
(* reads the whole list of its entries, or fails.                          *)
(***************************************************************************)
ArgDir ==
    /\ pc = "main" /\ arg <= NArgs
    /\ \/ entry' \in 0 .. MaxEntries /\ dirrc' = 0
       \/ entry' = 0 /\ dirrc' = -1
    /\ pc' = "dir" /\ indir' = TRUE
    /\ UNCHANGED <<arg, job_vars, njobs, abort_on_error, last_error, suspended,
                   child, code, exit_status, abort_given, last_fail>>

(* A subdirectory or a blacklisted name: the callback does nothing. *)
EntrySkip ==
    /\ pc = "dir" /\ entry > 0
    /\ entry' = entry - 1
    /\ UNCHANGED <<pc, arg, indir, dirrc, job_vars, njobs, abort_on_error,
                   last_error, suspended, child, code, exit_status,
                   abort_given, last_fail>>

(* fstatat of the entry fails: noted in rc, the walk goes on. *)
EntryStatFails ==
    /\ pc = "dir" /\ entry > 0
    /\ entry' = entry - 1
    /\ dirrc' = -1
    /\ UNCHANGED <<pc, arg, indir, job_vars, njobs, abort_on_error,
                   last_error, suspended, child, code, exit_status,
                   abort_given, last_fail>>

(* profile_dir_cb: asprintf fails. *)
EntryNoMemory ==
    /\ pc = "dir" /\ entry > 0
    /\ \E e \in Errnos : HandleWorkResult(e, 0, "dir") /\ NoteFailure(e)
    /\ entry' = entry - 1
    /\ dirrc' = -1
    /\ UNCHANGED <<arg, indir, job_vars, child, code, exit_status, abort_given>>

(* profile_dir_cb, binary_dir_cb: the entry is a profile, a unit of work. *)
EntryUnit ==
    /\ pc = "dir" /\ entry > 0
    /\ pc' = "unit"
    /\ UNCHANGED <<parse_vars, job_vars, njobs, abort_on_error, last_error,
                   suspended, child, code, exit_status, abort_given, last_fail>>

(* dirat_for_each returned; errno is whatever the last failing call left. *)
DirDone ==
    /\ pc = "dir" /\ entry = 0
    /\ IF dirrc = 0
       THEN /\ pc' = "main" /\ arg' = arg + 1
            /\ UNCHANGED <<last_error, last_fail>>
       ELSE /\ \E e \in Errnos : last_error' = e /\ NoteFailure(e)
            /\ pc' = IF abort_on_error THEN "sync" ELSE "main"
            /\ arg' = IF abort_on_error THEN arg ELSE arg + 1
    /\ UNCHANGED <<entry, indir, dirrc, job_vars, njobs, abort_on_error,
                   suspended, child, code, exit_status, abort_given>>

-----------------------------------------------------------------------------
(* work_spawn with jobs = 0: the unit is done by the main process. *)
RunInProcess ==
    /\ pc = "unit" /\ jobs = 0
    /\ \E r \in Retvals : HandleWorkResult(r, 0, AfterUnit) /\ NoteFailure(r)
    /\ Advance
    /\ UNCHANGED <<dirrc, job_vars, child, code, exit_status, abort_given>>

(***************************************************************************)
(* work_spawn with jobs = 0 and a unit that gives up with exit(1), as      *)
(* yyerror and post_process_profile do: the main process is gone with it.  *)
(* A forked child doing the same only ends itself (ChildEnds).             *)
(***************************************************************************)
UnitExits ==
    /\ pc = "unit" /\ jobs = 0
    /\ pc' = "exited" /\ exit_status' = 1
    /\ NoteFailure(1)
    /\ UNCHANGED <<parse_vars, job_vars, njobs, abort_on_error, last_error,
                   suspended, child, code, abort_given>>

(* Mutant: the sampled number of cpus is not capped. *)
ScaleJobs_uncapped ==
    IF jobs_scale = 0 THEN UNCHANGED <<jobs, jobs_scale>>
    ELSE \E n \in OnlineCpus :
           IF n > jobs THEN jobs' = n /\ jobs_scale' = 0
           ELSE jobs_scale' = jobs_scale - 1 /\ UNCHANGED jobs

(***************************************************************************)
(* work_spawn: while the sampling budget lasts, ask again how many cpus    *)
(* are on line; more of them raise jobs and renew the budget.              *)
(***************************************************************************)
ScaleJobs ==
    IF jobs_scale = 0 THEN UNCHANGED <<jobs, jobs_scale>>
    ELSE \E online \in OnlineCpus :
           LET n == IF online > jobs_max THEN jobs_max ELSE online
           IN  IF n > jobs
               THEN jobs_scale' = jobs_max - n /\ jobs' = n
               ELSE jobs_scale' = jobs_scale - 1 /\ UNCHANGED jobs

(* work_spawn up to its test for a free slot. *)
BeginSpawn ==
    /\ pc = "unit" /\ jobs # 0
    /\ ScaleJobs
    /\ pc' = IF njobs = jobs' THEN "full" ELSE "fork"
    /\ UNCHANGED <<parse_vars, jobs_max, njobs, abort_on_error, last_error,
                   suspended, child, code, exit_status, abort_given, last_fail>>

(* Mutant: a fork is not counted when it fills the last slot. *)
Fork_miscounts ==
    /\ pc = "fork"
    /\ child' = [child EXCEPT ![Unit] = "running"]
    /\ njobs' = IF njobs + 1 = jobs THEN njobs ELSE njobs + 1
    /\ pc' = AfterUnit
    /\ Advance
    /\ UNCHANGED <<dirrc, job_vars, abort_on_error, last_error, suspended,
                   code, exit_status, abort_given, last_fail>>

(* fork succeeds; the child runs on its own from here. *)
Fork ==
    /\ pc = "fork"
    /\ child' = [child EXCEPT ![Unit] = "running"]
    /\ njobs' = njobs + 1
    /\ pc' = AfterUnit
    /\ Advance
    /\ UNCHANGED <<dirrc, job_vars, abort_on_error, last_error, suspended,
                   code, exit_status, abort_given, last_fail>>

(* fork fails: the unit is lost, its error is noted, a directory walk learns of it. *)
ForkFails ==
    /\ pc = "fork"
    /\ \E e \in Errnos : HandleWorkResult(e, 0, AfterUnit) /\ NoteFailure(e)
    /\ dirrc' = IF indir THEN -1 ELSE dirrc
    /\ Advance
    /\ UNCHANGED <<job_vars, child, code, exit_status, abort_given>>

-----------------------------------------------------------------------------
(* The parent is in work_sync_one, blocked in wait(). *)
Waiting == pc = "full" \/ (pc \in {"sync", "abort"} /\ njobs # 0)

AfterWait == IF pc = "full" THEN "fork" ELSE pc

(* What work_sync_one makes of a wait status. *)
WaitResult(status) == IF status = KILLED THEN ECHILD ELSE status

(* work_sync_one: a finished child is reaped and its result handled. *)
Reap(u) ==
    /\ Waiting
    /\ child[u] = "zombie"
    /\ child' = [child EXCEPT ![u] = "reaped"]
    /\ HandleWorkResult(WaitResult(code[u]), 1, AfterWait)
    /\ NoteFailure(WaitResult(code[u]))
    /\ UNCHANGED <<parse_vars, job_vars, code, exit_status, abort_given>>

(***************************************************************************)
(* work_sync_one with no child left: wait() fails at once and the          *)
(* uninitialised status is interpreted as it happens to be.                *)
(***************************************************************************)
WaitFails ==
    /\ Waiting
    /\ Live = {}
    /\ \E garbage \in {Exit8(r) : r \in Retvals} \cup {KILLED} :
           HandleWorkResult(WaitResult(garbage), 1, AfterWait)
    /\ UNCHANGED <<parse_vars, job_vars, child, code, exit_status,
                   abort_given, last_fail>>

(* main: all arguments are done, work_sync follows. *)
ArgsDone ==
    /\ pc = "main" /\ arg > NArgs
    /\ pc' = "sync"
    /\ UNCHANGED <<parse_vars, job_vars, njobs, abort_on_error, last_error,
                   suspended, child, code, exit_status, abort_given, last_fail>>

(* Mutant: handle_work_result exits without its work_sync. *)
Exit_nosync ==
    /\ pc \in {"sync", "abort"}
    /\ pc = "abort" \/ njobs = 0
    /\ pc' = "exited"
    /\ exit_status' = Exit8(last_error)
    /\ UNCHANGED <<parse_vars, job_vars, njobs, abort_on_error, last_error,
                   suspended, child, code, abort_given, last_fail>>

(* work_sync is through: main returns, or handle_work_result exits. *)
Exit ==
    /\ pc \in {"sync", "abort"} /\ njobs = 0
    /\ pc' = "exited"
    /\ exit_status' = Exit8(last_error)
    /\ UNCHANGED <<parse_vars, job_vars, njobs, abort_on_error, last_error,
                   suspended, child, code, abort_given, last_fail>>

(* A child ends: exit(WORK), or a signal (the oom killer, a crash). *)
ChildEnds(u) ==
    /\ child[u] = "running"
    /\ child' = [child EXCEPT ![u] = "zombie"]
    /\ \E s \in {Exit8(r) : r \in Retvals} \cup {KILLED} : code' = [code EXCEPT ![u] = s]
    /\ UNCHANGED <<pc, parse_vars, job_vars, njobs, abort_on_error, last_error,
                   suspended, exit_status, abort_given, last_fail>>

Parent ==
    \/ ArgMissing \/ ArgFile \/ ArgDir
    \/ EntrySkip \/ EntryStatFails \/ EntryNoMemory \/ EntryUnit \/ DirDone
    \/ RunInProcess \/ UnitExits \/ BeginSpawn \/ Fork \/ ForkFails
    \/ (\E u \in Units : Reap(u)) \/ WaitFails \/ ArgsDone \/ Exit

Next == Parent \/ \E u \in Units : ChildEnds(u)

(* The scheduler runs the parent and every child; compiles terminate. *)
Fairness == WF_vars(Parent) /\ \A u \in Units : WF_vars(ChildEnds(u))

Spec == Init /\ [][Next]_vars
FairSpec == Spec /\ Fairness

-----------------------------------------------------------------------------
TypeOK ==
    /\ pc \in {"main", "dir", "unit", "full", "fork", "sync", "abort", "exited"}
    /\ arg \in 1 .. NArgs + 1
    /\ entry \in 0 .. MaxEntries
    /\ indir \in BOOLEAN
    /\ dirrc \in {0, -1}
    /\ jobs \in Nat /\ jobs_max \in Nat /\ jobs_scale \in Nat /\ njobs \in Nat
    /\ abort_on_error \in BOOLEAN /\ abort_given \in BOOLEAN
    /\ last_error \in Int /\ last_fail \in Int
    /\ suspended \in {0, 1}
    /\ child \in [Units -> {"unborn", "running", "zombie", "reaped"}]
    /\ code \in [Units -> Int]
    /\ exit_status \in Int

(***************************************************************************)
(* However often the cpus are sampled again, never more children exist at  *)
(* the same time than jobs, and jobs never passes jobs_max.  work_spawn    *)
(* tests njobs == jobs, so a njobs above jobs would never wait again.      *)
(***************************************************************************)
JobBound ==
    /\ Cardinality(Live) <= jobs
    /\ njobs <= jobs /\ jobs <= jobs_max

(***************************************************************************)
(* njobs counts the children that exist, except for the one reaped by the  *)
(* work_sync_one that handle_work_result never returns to.                 *)
(***************************************************************************)
Accounting ==
    /\ Cardinality(Live) <= njobs
    /\ njobs <= Cardinality(Live) + suspended

(* The parent does not exit, aborting or not, while a child exists. *)
NoOrphans == pc = "exited" => Live = {}

(***************************************************************************)
(* The exit status tells failure exactly when something failed: a missing  *)
(* argument, a directory, a fork, or any unit, also one reaped while       *)
(* another error is being handled.                                         *)
(***************************************************************************)
FailureReported == pc = "exited" => (exit_status # 0 <=> last_fail # 0)

(***************************************************************************)
(* Without --abort-on-error, and with units in children of their own,      *)
(* every argument is processed and the exit status is the one of the last  *)
(* error: the two halves of what the manual page says of processing that   *)
(* goes on after an error.                                                 *)
(***************************************************************************)
ContinuesOnError ==
    (pc = "exited" /\ ~abort_given /\ jobs # 0) =>
        arg = NArgs + 1 /\ exit_status = Exit8(last_fail)

(* An error that was noted is not forgotten by a later success. *)
ErrorSticks == [][last_error # 0 => last_error' # 0]_vars

(* The parent exits, whatever fails and in whatever order children end. *)
Terminates == <>(pc = "exited")

-----------------------------------------------------------------------------
(* The work queue implements the pool: a child is active from its fork to its wait. *)
TaskState(c) == CASE c = "unborn" -> "new"
                  [] c \in {"running", "zombie"} -> "active"
                  [] c = "reaped" -> "collected"

Pool == INSTANCE WorkPool WITH
            Tasks <- Units,
            task  <- [u \in Units |-> TaskState(child[u])],
            cap   <- jobs_max,
            open  <- pc # "exited"

PoolSpec == Pool!Spec
=============================================================================
