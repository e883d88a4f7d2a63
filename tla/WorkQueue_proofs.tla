--------------------------- MODULE WorkQueue_proofs ---------------------------
(***************************************************************************)
(* The work queue for any number of arguments, directory entries, jobs and *)
(* cpus: the job bound, the accounting of children, no orphans, and a      *)
(* failure status exactly when something failed.                           *)
(***************************************************************************)
EXTENDS WorkQueue, FiniteSetTheorems, TLAPS

(* Units are taken in order: one that was forked lies behind the parent. *)
Order ==
    \A u \in Units : child[u] # "unborn" =>
        u[1] < arg \/ (u[1] = arg /\ u[2] > entry /\ pc # "main")

(* Where the parent is, and what that says of its counters. *)
Control ==
    /\ pc \in {"dir", "unit", "full", "fork"} => arg <= NArgs
    /\ pc \in {"unit", "full", "fork"} => entry >= 1
    /\ pc = "full" => njobs = jobs /\ jobs # 0
    /\ pc = "fork" => njobs < jobs
    /\ pc = "abort" => ~abort_on_error
    /\ abort_on_error => suspended = 0
    /\ suspended = 1 => pc \in {"abort", "exited"} /\ last_fail # 0
    /\ pc = "exited" => njobs = 0 /\ (exit_status # 0 <=> last_fail # 0)

(* A status or an error that is not zero survives the eight bits of exit(). *)
Survives(r) == r # 0 => Exit8(r) # 0

Errors ==
    /\ pc # "exited" => (last_error # 0 <=> last_fail # 0)
    /\ Survives(last_error)
    /\ \A u \in Units : code[u] \in 0 .. 255 \cup {KILLED}

IInv == TypeOK /\ Order /\ Control /\ Errors /\ JobBound /\ Accounting

LEMMA UnitsFinite == IsFiniteSet(Units)
<1>1. IsFiniteSet(1 .. NArgs) /\ IsFiniteSet(1 .. MaxEntries)
  BY FS_Interval, NArgsAssumption, MaxEntriesAssumption
<1> QED BY <1>1, FS_Product DEF Units

LEMMA LiveFinite == IsFiniteSet(Live) /\ Cardinality(Live) \in Nat
<1>1. Live \subseteq Units
  BY DEF Live
<1> QED BY <1>1, UnitsFinite, FS_Subset, FS_CardinalityType

(* Forking an unborn unit adds one live child. *)
LEMMA LiveAdds ==
    ASSUME TypeOK, NEW u \in Units, child[u] = "unborn",
           child' = [child EXCEPT ![u] = "running"]
    PROVE  Cardinality(Live') = Cardinality(Live) + 1
<1>1. Live' = Live \cup {u} /\ u \notin Live
  BY DEF Live, TypeOK
<1> QED BY <1>1, LiveFinite, FS_AddElement

(* Reaping a zombie removes one. *)
LEMMA LiveRemoves ==
    ASSUME TypeOK, NEW u \in Units, child[u] = "zombie",
           child' = [child EXCEPT ![u] = "reaped"]
    PROVE  Cardinality(Live') = Cardinality(Live) - 1 /\ Cardinality(Live) # 0
<1>1. Live' = Live \ {u} /\ u \in Live
  BY DEF Live, TypeOK
<1>2. Cardinality(Live') = Cardinality(Live) - 1
  BY <1>1, LiveFinite, FS_RemoveElement
<1>3. Cardinality(Live) # 0
  BY <1>1, LiveFinite, FS_EmptySet
<1> QED BY <1>2, <1>3

(* What a child may exit with, and what that is worth as a result. *)
LEMMA StatusValues ==
    ASSUME NEW s \in {Exit8(r) : r \in Retvals} \cup {KILLED}
    PROVE  /\ s \in 0 .. 255 \cup {KILLED}
           /\ WaitResult(s) \in Int
           /\ Survives(WaitResult(s))
<1> USE RetvalsAssumption
<1>1. CASE s = KILLED
  BY <1>1 DEF WaitResult, ECHILD, KILLED, Survives, Exit8
<1>2. CASE s \in {Exit8(r) : r \in Retvals}
  <2>1. PICK r \in Retvals : s = r % 256
    BY <1>2 DEF Exit8
  <2>2. s \in 0 .. 255
    BY <2>1
  <2> QED
    BY <2>2 DEF WaitResult, ECHILD, KILLED, Survives, Exit8
<1> QED BY <1>1, <1>2

LEMMA CodeSurvives ==
    ASSUME NEW c \in 0 .. 255 \cup {KILLED}
    PROVE  WaitResult(c) \in Int /\ Survives(WaitResult(c))
BY DEF WaitResult, ECHILD, KILLED, Survives, Exit8

LEMMA ErrnoSurvives ==
    ASSUME NEW e \in Errnos
    PROVE  e \in Int /\ e # 0 /\ Survives(e)
BY ErrnosAssumption DEF Survives, Exit8

LEMMA InitIInv == Init => IInv
<1> SUFFICES ASSUME Init PROVE IInv
  OBVIOUS
<1>1. TypeOK /\ jobs <= jobs_max
  <2>1. PICK s \in Setups :
           jobs = s.jobs /\ jobs_max = s.jobs_max /\ jobs_scale = s.jobs_scale
    BY DEF Init
  <2>2. jobs \in Nat /\ jobs_max \in Nat /\ jobs_scale \in Nat /\ jobs <= jobs_max
    BY <2>1, SetupsAssumption
  <2>3. abort_given \in BOOLEAN /\ abort_on_error \in BOOLEAN /\ indir \in BOOLEAN
    BY Zenon DEF Init
  <2>4. /\ child \in [Units -> {"unborn", "running", "zombie", "reaped"}]
        /\ code \in [Units -> Int]
    BY DEF Init
  <2>5. arg \in 1 .. NArgs + 1 /\ entry \in 0 .. MaxEntries
    BY NArgsAssumption, MaxEntriesAssumption DEF Init
  <2> QED
    BY <2>2, <2>3, <2>4, <2>5 DEF Init, TypeOK
<1>2. Live = {}
  BY DEF Init, Live
<1>3. Cardinality(Live) = 0
  BY <1>2, FS_EmptySet
<1>4. JobBound /\ Accounting
  BY <1>1, <1>3 DEF Init, TypeOK, JobBound, Accounting
<1>5. Order /\ Control /\ Errors
  BY DEF Init, Order, Control, Errors, Survives, KILLED, Exit8
<1> QED BY <1>1, <1>4, <1>5 DEF IInv

(* A step that forks and reaps nothing keeps the set of live children. *)
LEMMA LiveKept == ASSUME child' = child PROVE Live' = Live
BY DEF Live

(***************************************************************************)
(* The effect of handle_work_result on the counters: either the frame's    *)
(* decrement happens, or it stays suspended below the exit().              *)
(***************************************************************************)
LEMMA HandleEffect ==
    ASSUME IInv, NEW r \in Int, NEW frame \in {0, 1}, NEW next,
           HandleWorkResult(r, frame, next), Survives(r)
    PROVE  /\ last_error' \in Int /\ Survives(last_error')
           /\ last_error' # 0 <=> last_error # 0 \/ r # 0
           /\ \/ /\ pc' = "abort" /\ ~abort_on_error' /\ r # 0 /\ suspended = 0
                 /\ abort_on_error' \in BOOLEAN
                 /\ suspended' = frame /\ njobs' = njobs
              \/ /\ pc' = next /\ abort_on_error' = abort_on_error
                 /\ suspended' = suspended /\ njobs' = njobs - frame
<1>1. last_error \in Int /\ suspended \in {0, 1} /\ Survives(last_error)
  BY DEF IInv, TypeOK, Errors
<1>2. /\ last_error' \in Int /\ Survives(last_error')
      /\ last_error' # 0 <=> last_error # 0 \/ r # 0
  BY <1>1 DEF HandleWorkResult
<1>3. CASE r # 0 /\ abort_on_error
  <2>1. suspended = 0
    BY <1>3 DEF IInv, Control
  <2>2. /\ pc' = "abort" /\ abort_on_error' = FALSE
        /\ suspended' = suspended + frame /\ njobs' = njobs
    BY <1>3 DEF HandleWorkResult
  <2>3. abort_on_error' \in BOOLEAN /\ ~abort_on_error'
    BY <2>2, Zenon
  <2>4. suspended' = frame
    BY <2>1, <2>2
  <2> QED BY <1>2, <1>3, <2>1, <2>2, <2>3, <2>4
<1>4. CASE ~(r # 0 /\ abort_on_error)
  BY <1>2, <1>4 DEF HandleWorkResult
<1> QED BY <1>3, <1>4

(***************************************************************************)
(* The walk over arguments and directories: no child and no job counter is *)
(* touched, so only Order, Control and Errors have anything to prove.      *)
(***************************************************************************)
LEMMA WalkStep ==
    ASSUME IInv,
           \/ ArgMissing \/ ArgFile \/ ArgDir \/ EntrySkip \/ EntryStatFails
           \/ EntryUnit \/ DirDone \/ ArgsDone \/ Exit \/ UnitExits
    PROVE  IInv'
<1> USE DEF IInv, job_vars, parse_vars
<1>1. /\ UNCHANGED <<child, code, njobs, jobs, jobs_max, jobs_scale>>
      /\ UNCHANGED <<abort_on_error, suspended, abort_given>>
  BY DEF ArgMissing, ArgFile, ArgDir, EntrySkip, EntryStatFails, EntryUnit,
         DirDone, ArgsDone, Exit, UnitExits
<1>2. Live' = Live
  BY <1>1, LiveKept
<1>3. JobBound' /\ Accounting'
  BY <1>1, <1>2 DEF JobBound, Accounting
<1>4. CASE ArgMissing
  <2>1. PICK e \in Errnos : last_error' = e /\ last_fail' = e
    BY <1>4, ErrnoSurvives DEF ArgMissing, NoteFailure
  <2>2. Errors'
    BY <1>1, <2>1, ErrnoSurvives DEF Errors
  <2>3. arg' \in {arg, arg + 1} /\ arg <= NArgs /\ pc' \in {"sync", "main"} /\ pc = "main"
        /\ entry' = entry /\ indir' = indir /\ dirrc' = dirrc /\ exit_status' = exit_status
    BY <1>4 DEF ArgMissing
  <2>4. TypeOK'
    BY <1>1, <2>1, <2>3, ErrnoSurvives, NArgsAssumption DEF TypeOK
  <2>5. Order' /\ Control'
    BY <1>1, <2>1, <2>3, ErrnoSurvives, NArgsAssumption DEF TypeOK, Order, Control, Units
  <2> QED BY <1>3, <2>2, <2>4, <2>5
<1>5. CASE ArgFile
  <2>1. TypeOK'
    <3>1. indir' \in BOOLEAN
      BY <1>5, Zenon DEF ArgFile
    <3>2. entry' \in 0 .. MaxEntries
      BY <1>5, MaxEntriesAssumption DEF ArgFile
    <3> QED BY <1>1, <1>5, <3>1, <3>2 DEF ArgFile, TypeOK
  <2>2. Order' /\ Control' /\ Errors'
    BY <1>1, <1>5, NArgsAssumption DEF ArgFile, TypeOK, Order, Control, Errors, Units
  <2> QED BY <1>3, <2>1, <2>2
<1>6. CASE ArgDir
  <2>1. TypeOK'
    <3>1. entry' \in 0 .. MaxEntries /\ dirrc' \in {0, -1} /\ indir' \in BOOLEAN
      BY <1>6, MaxEntriesAssumption DEF ArgDir
    <3> QED BY <1>1, <1>6, <3>1 DEF ArgDir, TypeOK
  <2>2. Order' /\ Control' /\ Errors'
    BY <1>1, <1>6, NArgsAssumption DEF ArgDir, TypeOK, Order, Control, Errors, Units
  <2> QED BY <1>3, <2>1, <2>2
<1>7. CASE EntrySkip \/ EntryStatFails \/ EntryUnit
  <2>1. TypeOK'
    BY <1>1, <1>7, MaxEntriesAssumption DEF EntrySkip, EntryStatFails, EntryUnit, TypeOK
  <2>2. Order' /\ Control' /\ Errors'
    BY <1>1, <1>7, NArgsAssumption, MaxEntriesAssumption
       DEF EntrySkip, EntryStatFails, EntryUnit, TypeOK, Order, Control, Errors, Units
  <2> QED BY <1>3, <2>1, <2>2
<1>8. CASE DirDone
  <2>1. /\ arg' \in {arg, arg + 1} /\ arg <= NArgs
        /\ (pc' = "sync" \/ (pc' = "main" /\ arg' = arg + 1)) /\ pc = "dir"
        /\ entry' = entry /\ indir' = indir /\ dirrc' = dirrc /\ exit_status' = exit_status
    BY <1>8 DEF DirDone, Control
  <2>2. Errors' /\ last_error' \in Int /\ last_fail' \in Int
    <3>1. CASE dirrc = 0
      BY <1>1, <1>8, <3>1 DEF DirDone, Errors, TypeOK
    <3>2. CASE dirrc # 0
      <4>1. PICK e \in Errnos : last_error' = e /\ last_fail' = e
        BY <1>8, <3>2, ErrnoSurvives DEF DirDone, NoteFailure
      <4> QED BY <1>1, <4>1, ErrnoSurvives DEF Errors
    <3> QED BY <3>1, <3>2
  <2>3. TypeOK'
    BY <1>1, <2>1, <2>2, NArgsAssumption DEF TypeOK
  <2>4. Order' /\ Control'
    BY <1>1, <2>1, NArgsAssumption DEF TypeOK, Order, Control, Units
  <2> QED BY <1>3, <2>2, <2>3, <2>4
<1>9. CASE ArgsDone
  <2>1. TypeOK'
    BY <1>1, <1>9 DEF ArgsDone, TypeOK
  <2>2. Order' /\ Control' /\ Errors'
    BY <1>1, <1>9, NArgsAssumption DEF ArgsDone, TypeOK, Order, Control, Errors, Units
  <2> QED BY <1>3, <2>1, <2>2
<1>10. CASE Exit
  <2>1. Exit8(last_error) \in Int
    BY DEF TypeOK, Exit8
  <2>2. TypeOK'
    BY <1>1, <1>10, <2>1 DEF Exit, TypeOK
  <2>3. exit_status' # 0 <=> last_fail' # 0
    <3>1. Exit8(0) = 0
      BY DEF Exit8
    <3> QED BY <1>10, <3>1 DEF Exit, Errors, Survives
  <2>4. Order' /\ Control' /\ Errors'
    BY <1>1, <1>10, <2>3, NArgsAssumption DEF Exit, TypeOK, Order, Control, Errors, Units
  <2> QED BY <1>3, <2>2, <2>4
<1>11. CASE UnitExits
  <2>1. njobs = 0
    BY <1>11 DEF UnitExits, JobBound, TypeOK
  <2>2. last_fail' = 1 /\ exit_status' = 1 /\ pc' = "exited" /\ last_error' = last_error
        /\ arg' = arg /\ entry' = entry /\ indir' = indir /\ dirrc' = dirrc
    BY <1>11 DEF UnitExits, NoteFailure
  <2>3. TypeOK'
    BY <1>1, <2>2 DEF TypeOK
  <2>4. Order' /\ Control' /\ Errors'
    BY <1>1, <2>1, <2>2, NArgsAssumption DEF TypeOK, Order, Control, Errors, Units
  <2> QED BY <1>3, <2>3, <2>4
<1> QED BY <1>4, <1>5, <1>6, <1>7, <1>8, <1>9, <1>10, <1>11

(***************************************************************************)
(* A unit done in the main process, a failed fork, a failed asprintf: a    *)
(* result is handled with no frame to account for, and no child changes.   *)
(***************************************************************************)
LEMMA ResultStep ==
    ASSUME IInv, EntryNoMemory \/ RunInProcess \/ ForkFails
    PROVE  IInv'
<1> USE DEF IInv, job_vars, parse_vars
<1>1. /\ UNCHANGED <<child, code, jobs, jobs_max, jobs_scale, indir>>
      /\ UNCHANGED <<exit_status, abort_given>>
  BY DEF EntryNoMemory, RunInProcess, ForkFails, Advance
<1>2. PICK r \in Int, next \in {"dir", "main"} :
         /\ HandleWorkResult(r, 0, next) /\ NoteFailure(r) /\ Survives(r)
         /\ next = "main" => arg' = arg + 1 /\ ~indir
         /\ next = "dir" => arg' = arg /\ entry' = entry - 1
  <2>1. CASE EntryNoMemory
    BY <2>1, ErrnoSurvives DEF EntryNoMemory
  <2>2. CASE RunInProcess
    <3>1. PICK r \in Retvals : HandleWorkResult(r, 0, AfterUnit) /\ NoteFailure(r)
      BY <2>2 DEF RunInProcess
    <3>2. r \in Int /\ Survives(r)
      BY RetvalsAssumption DEF Survives
    <3> QED BY <2>2, <3>1, <3>2 DEF RunInProcess, AfterUnit, Advance
  <2>3. CASE ForkFails
    <3>1. PICK e \in Errnos : HandleWorkResult(e, 0, AfterUnit) /\ NoteFailure(e)
      BY <2>3 DEF ForkFails
    <3> QED BY <2>3, <3>1, ErrnoSurvives DEF ForkFails, AfterUnit, Advance
  <2> QED BY <2>1, <2>2, <2>3
<1>3. /\ arg <= NArgs /\ entry >= 1 /\ pc \in {"dir", "unit", "fork"}
      /\ dirrc' \in {0, -1}
      /\ arg' \in {arg, arg + 1} /\ entry' \in {entry, entry - 1}
      /\ arg' = arg => entry' = entry - 1
  BY DEF EntryNoMemory, RunInProcess, ForkFails, Advance, Control, TypeOK
<1>4. /\ last_error' \in Int /\ Survives(last_error')
      /\ last_error' # 0 <=> last_error # 0 \/ r # 0
      /\ suspended' = 0 /\ suspended = 0 /\ njobs' = njobs
      /\ abort_on_error' \in BOOLEAN
      /\ \/ pc' = "abort" /\ ~abort_on_error' /\ r # 0
         \/ pc' = next /\ abort_on_error' = abort_on_error
  <2>1. suspended = 0
    BY <1>3 DEF Control, TypeOK
  <2> QED BY <1>2, <2>1, HandleEffect DEF TypeOK
<1>5. last_fail' \in Int /\ (last_fail' # 0 <=> last_fail # 0 \/ r # 0)
  BY <1>2 DEF NoteFailure, TypeOK
<1>6. TypeOK'
  <2>1. arg' \in 1 .. NArgs + 1 /\ entry' \in 0 .. MaxEntries
    BY <1>3, NArgsAssumption, MaxEntriesAssumption DEF TypeOK
  <2>2. pc' \in {"main", "dir", "unit", "full", "fork", "sync", "abort", "exited"}
    BY <1>4
  <2> QED BY <1>1, <1>3, <1>4, <1>5, <2>1, <2>2 DEF TypeOK
<1>7. Order'
  BY <1>1, <1>2, <1>3, <1>4, NArgsAssumption, MaxEntriesAssumption
     DEF Order, Units, TypeOK
<1>8. Control'
  BY <1>1, <1>2, <1>3, <1>4 DEF Control, TypeOK
<1>9. Errors'
  BY <1>1, <1>3, <1>4, <1>5 DEF Errors
<1>10. JobBound' /\ Accounting'
  BY <1>1, <1>4, LiveKept DEF JobBound, Accounting
<1> QED BY <1>6, <1>7, <1>8, <1>9, <1>10

(* work_spawn up to its test: jobs may grow, but not past jobs_max. *)
LEMMA BeginSpawnStep == ASSUME IInv, BeginSpawn PROVE IInv'
<1> USE DEF IInv, parse_vars
<1>1. /\ UNCHANGED <<child, code, arg, entry, indir, dirrc, jobs_max, njobs>>
      /\ UNCHANGED <<abort_on_error, last_error, suspended, exit_status>>
      /\ UNCHANGED <<abort_given, last_fail>>
      /\ pc = "unit" /\ jobs # 0
      /\ pc' = IF njobs = jobs' THEN "full" ELSE "fork"
  BY DEF BeginSpawn
<1>2. jobs' \in Nat /\ jobs_scale' \in Nat /\ jobs <= jobs' /\ jobs' <= jobs_max
  <2>1. jobs \in Nat /\ jobs_max \in Nat /\ jobs_scale \in Nat /\ jobs <= jobs_max
    BY DEF TypeOK, JobBound
  <2>2. CASE jobs_scale = 0
    BY <2>1, <2>2 DEF BeginSpawn, ScaleJobs
  <2>3. CASE jobs_scale # 0
    <3>1. PICK online \in OnlineCpus :
             LET n == IF online > jobs_max THEN jobs_max ELSE online
             IN  IF n > jobs
                 THEN jobs_scale' = jobs_max - n /\ jobs' = n
                 ELSE jobs_scale' = jobs_scale - 1 /\ UNCHANGED jobs
      BY <2>3 DEF BeginSpawn, ScaleJobs
    <3>2. online \in Int
      BY OnlineCpusAssumption
    <3> QED BY <2>1, <2>3, <3>1, <3>2
  <2> QED BY <2>2, <2>3
<1>3. Live' = Live
  BY <1>1, LiveKept
<1>4. TypeOK'
  BY <1>1, <1>2 DEF TypeOK
<1>5. Order' /\ Errors'
  BY <1>1 DEF Order, Errors
<1>6. Control'
  BY <1>1, <1>2 DEF Control, JobBound, TypeOK
<1>7. JobBound' /\ Accounting'
  BY <1>1, <1>2, <1>3, LiveFinite DEF JobBound, Accounting, TypeOK
<1> QED BY <1>4, <1>5, <1>6, <1>7

(* fork: the unit was unborn, so one child more is live and counted. *)
LEMMA ForkStep == ASSUME IInv, Fork PROVE IInv'
<1> USE DEF IInv, job_vars
<1>1. /\ UNCHANGED <<code, jobs, jobs_max, jobs_scale, dirrc, indir>>
      /\ UNCHANGED <<abort_on_error, last_error, suspended, exit_status>>
      /\ UNCHANGED <<abort_given, last_fail>>
      /\ pc = "fork" /\ pc' \in {"dir", "main"} /\ njobs' = njobs + 1
      /\ pc' = "main" => arg' = arg + 1
      /\ arg' \in {arg, arg + 1} /\ entry' \in {entry, entry - 1}
      /\ arg' = arg => entry' = entry - 1
      /\ child' = [child EXCEPT ![Unit] = "running"]
  <2>1. CASE indir
    BY <2>1 DEF Fork, AfterUnit, Advance
  <2>2. CASE ~indir
    BY <2>2, NArgsAssumption DEF Fork, AfterUnit, Advance, TypeOK
  <2> QED BY <2>1, <2>2
<1>2. arg <= NArgs /\ entry >= 1 /\ njobs < jobs /\ suspended = 0
  BY <1>1 DEF Control, TypeOK
<1>3. Unit \in Units /\ child[Unit] = "unborn"
  <2>1. Unit \in Units
    BY <1>2, NArgsAssumption, MaxEntriesAssumption DEF Unit, Units, TypeOK
  <2>2. Unit[1] = arg /\ Unit[2] = entry
    BY DEF Unit
  <2> QED BY <2>1, <2>2, NArgsAssumption, MaxEntriesAssumption DEF Order, TypeOK
<1>4. Cardinality(Live') = Cardinality(Live) + 1
  BY <1>1, <1>3, LiveAdds
<1>5. TypeOK'
  <2>1. arg' \in 1 .. NArgs + 1 /\ entry' \in 0 .. MaxEntries
    BY <1>1, <1>2, NArgsAssumption, MaxEntriesAssumption DEF TypeOK
  <2>2. child' \in [Units -> {"unborn", "running", "zombie", "reaped"}]
    BY <1>1 DEF TypeOK
  <2> QED BY <1>1, <2>1, <2>2 DEF TypeOK
<1>6. Order'
  <2> SUFFICES ASSUME NEW u \in Units, child'[u] # "unborn"
               PROVE  u[1] < arg' \/ (u[1] = arg' /\ u[2] > entry' /\ pc' # "main")
    BY DEF Order
  <2>1. CASE u = Unit
    BY <1>1, <2>1, NArgsAssumption, MaxEntriesAssumption DEF Unit, TypeOK
  <2>2. CASE u # Unit
    <3>1. child[u] # "unborn"
      BY <1>1, <2>2 DEF TypeOK
    <3>2. u[1] \in Int /\ u[2] \in Int
      BY NArgsAssumption, MaxEntriesAssumption DEF Units
    <3>3. u[1] < arg \/ (u[1] = arg /\ u[2] > entry)
      BY <3>1 DEF Order
    <3> QED BY <1>1, <3>2, <3>3, NArgsAssumption, MaxEntriesAssumption DEF TypeOK
  <2> QED BY <2>1, <2>2
<1>7. Control'
  <2>1. pc' = "dir" => arg' = arg
    BY <1>1 DEF Fork, AfterUnit, Advance
  <2> QED BY <1>1, <1>2, <2>1 DEF Control, TypeOK
<1>8. Errors'
  BY <1>1 DEF Errors
<1>9. JobBound' /\ Accounting'
  BY <1>1, <1>2, <1>4, LiveFinite DEF JobBound, Accounting, TypeOK
<1> QED BY <1>5, <1>6, <1>7, <1>8, <1>9

(* wait() returns a child: one live child less, and either njobs or suspended pays. *)
LEMMA ReapStep == ASSUME IInv, NEW u \in Units, Reap(u) PROVE IInv'
<1> USE DEF IInv, job_vars, parse_vars
<1> DEFINE r == WaitResult(code[u])
<1>1. /\ UNCHANGED <<code, jobs, jobs_max, jobs_scale, arg, entry, indir, dirrc>>
      /\ UNCHANGED <<exit_status, abort_given>>
      /\ child[u] = "zombie" /\ child' = [child EXCEPT ![u] = "reaped"]
      /\ HandleWorkResult(r, 1, AfterWait) /\ NoteFailure(r)
      /\ Waiting
  BY DEF Reap
<1>2. r \in Int /\ Survives(r)
  BY CodeSurvives DEF Errors
<1> HIDE DEF r
<1>3. /\ last_error' \in Int /\ Survives(last_error')
      /\ last_error' # 0 <=> last_error # 0 \/ r # 0
      /\ \/ /\ pc' = "abort" /\ ~abort_on_error' /\ r # 0 /\ suspended = 0
            /\ abort_on_error' \in BOOLEAN
            /\ suspended' = 1 /\ njobs' = njobs
         \/ /\ pc' = AfterWait /\ abort_on_error' = abort_on_error
            /\ suspended' = suspended /\ njobs' = njobs - 1
  BY <1>1, <1>2, HandleEffect
<1>4. last_fail' \in Int /\ (last_fail' # 0 <=> last_fail # 0 \/ r # 0)
  BY <1>1, <1>2 DEF NoteFailure, TypeOK
<1>5. Cardinality(Live') = Cardinality(Live) - 1 /\ Cardinality(Live) # 0
  BY <1>1, LiveRemoves
<1>6. njobs # 0 /\ pc \in {"full", "sync", "abort"} /\ AfterWait \in {"fork", "sync", "abort"}
      /\ (AfterWait = "fork" <=> pc = "full") /\ (AfterWait = "abort" <=> pc = "abort")
  <2>1. njobs # 0
    BY <1>1 DEF Waiting, Control
  <2> QED BY <1>1, <2>1 DEF Waiting, AfterWait
<1>7. TypeOK'
  <2>1. child' \in [Units -> {"unborn", "running", "zombie", "reaped"}]
    BY <1>1 DEF TypeOK
  <2>2. njobs' \in Nat /\ suspended' \in {0, 1} /\ abort_on_error' \in BOOLEAN
    BY <1>3, <1>6 DEF TypeOK
  <2>3. pc' \in {"main", "dir", "unit", "full", "fork", "sync", "abort", "exited"}
    BY <1>3, <1>6
  <2> QED BY <1>1, <1>3, <1>4, <2>1, <2>2, <2>3 DEF TypeOK
<1>8. Order'
  <2>1. pc' # "main"
    BY <1>3, <1>6
  <2>2. \A w \in Units : child'[w] # "unborn" => child[w] # "unborn"
    BY <1>1 DEF TypeOK
  <2> QED BY <1>1, <2>1, <2>2 DEF Order
<1>9. Control'
  BY <1>1, <1>3, <1>4, <1>6 DEF Control, TypeOK
<1>10. Errors'
  BY <1>1, <1>3, <1>4, <1>6 DEF Errors
<1>11. JobBound' /\ Accounting'
  BY <1>1, <1>3, <1>5, <1>6, LiveFinite DEF JobBound, Accounting, TypeOK
<1> QED BY <1>7, <1>8, <1>9, <1>10, <1>11

(***************************************************************************)
(* wait() fails: with no live child njobs can only be the suspended frame, *)
(* so an error was noted before and the garbage cannot invent the first.   *)
(***************************************************************************)
LEMMA WaitFailsStep == ASSUME IInv, WaitFails PROVE IInv'
<1> USE DEF IInv, job_vars, parse_vars
<1>1. /\ UNCHANGED <<child, code, jobs, jobs_max, jobs_scale, arg, entry, indir, dirrc>>
      /\ UNCHANGED <<exit_status, abort_given, last_fail>>
      /\ Waiting /\ Live = {}
  BY DEF WaitFails
<1>2. PICK g \in {Exit8(r) : r \in Retvals} \cup {KILLED} :
         HandleWorkResult(WaitResult(g), 1, AfterWait)
  BY DEF WaitFails
<1> DEFINE r == WaitResult(g)
<1>3. r \in Int /\ Survives(r)
  BY StatusValues
<1> HIDE DEF r
<1>4. njobs # 0 /\ pc \in {"full", "sync", "abort"}
  BY <1>1 DEF Waiting, Control
<1>5. Cardinality(Live) = 0 /\ Live' = Live
  BY <1>1, FS_EmptySet, LiveKept
<1>6. suspended = 1 /\ njobs = 1 /\ last_fail # 0 /\ pc = "abort" /\ ~abort_on_error
  <2>1. suspended = 1 /\ njobs = 1
    BY <1>4, <1>5 DEF Accounting, TypeOK
  <2> QED BY <1>4, <2>1 DEF Control
<1>7. /\ last_error' \in Int /\ Survives(last_error')
      /\ last_error' # 0 <=> last_error # 0 \/ r # 0
      /\ pc' = "abort" /\ abort_on_error' = abort_on_error
      /\ suspended' = suspended /\ njobs' = njobs - 1
  <2>1. AfterWait = "abort"
    BY <1>6 DEF AfterWait
  <2> QED BY <1>2, <1>3, <1>6, <2>1, HandleEffect DEF r
<1>8. TypeOK'
  BY <1>1, <1>6, <1>7 DEF TypeOK
<1>9. Order' /\ Control'
  BY <1>1, <1>6, <1>7 DEF Order, Control, TypeOK
<1>10. Errors'
  BY <1>1, <1>6, <1>7 DEF Errors
<1>11. JobBound' /\ Accounting'
  BY <1>1, <1>5, <1>6, <1>7 DEF JobBound, Accounting, TypeOK
<1> QED BY <1>8, <1>9, <1>10, <1>11

(* A child ends: running becomes zombie, which is still live. *)
LEMMA ChildEndsStep == ASSUME IInv, NEW u \in Units, ChildEnds(u) PROVE IInv'
<1> USE DEF IInv, job_vars, parse_vars
<1>1. /\ UNCHANGED <<pc, arg, entry, indir, dirrc, jobs, jobs_max, jobs_scale>>
      /\ UNCHANGED <<njobs, abort_on_error, last_error, suspended, exit_status>>
      /\ UNCHANGED <<abort_given, last_fail>>
      /\ child[u] = "running" /\ child' = [child EXCEPT ![u] = "zombie"]
  BY DEF ChildEnds
<1>2. PICK s \in {Exit8(r) : r \in Retvals} \cup {KILLED} : code' = [code EXCEPT ![u] = s]
  BY DEF ChildEnds
<1>3. s \in 0 .. 255 \cup {KILLED} /\ s \in Int
  BY StatusValues DEF KILLED
<1>4. Live' = Live
  BY <1>1 DEF Live, TypeOK
<1>5. TypeOK'
  <2>1. child' \in [Units -> {"unborn", "running", "zombie", "reaped"}]
    BY <1>1 DEF TypeOK
  <2>2. code' \in [Units -> Int]
    BY <1>2, <1>3 DEF TypeOK
  <2> QED BY <1>1, <2>1, <2>2 DEF TypeOK
<1>6. Order'
  <2>1. \A w \in Units : child'[w] # "unborn" => child[w] # "unborn"
    BY <1>1 DEF TypeOK
  <2> QED BY <1>1, <2>1 DEF Order
<1>7. Control'
  BY <1>1 DEF Control
<1>8. Errors'
  <2>1. \A w \in Units : code'[w] \in 0 .. 255 \cup {KILLED}
    BY <1>2, <1>3 DEF Errors, TypeOK
  <2> QED BY <1>1, <2>1 DEF Errors
<1>9. JobBound' /\ Accounting'
  BY <1>1, <1>4 DEF JobBound, Accounting
<1> QED BY <1>5, <1>6, <1>7, <1>8, <1>9

LEMMA NextIInv == IInv /\ [Next]_vars => IInv'
<1> SUFFICES ASSUME IInv, [Next]_vars PROVE IInv'
  OBVIOUS
<1>1. CASE \E u \in Units : ChildEnds(u)
  BY <1>1, ChildEndsStep
<1>2. CASE \E u \in Units : Reap(u)
  BY <1>2, ReapStep
<1>3. CASE WaitFails
  BY <1>3, WaitFailsStep
<1>4. CASE Fork
  BY <1>4, ForkStep
<1>5. CASE BeginSpawn
  BY <1>5, BeginSpawnStep
<1>6. CASE EntryNoMemory \/ RunInProcess \/ ForkFails
  BY <1>6, ResultStep
<1>7. CASE \/ ArgMissing \/ ArgFile \/ ArgDir \/ EntrySkip \/ EntryStatFails
           \/ EntryUnit \/ DirDone \/ ArgsDone \/ Exit \/ UnitExits
  BY <1>7, WalkStep
<1>8. CASE UNCHANGED vars
  <2>1. Live' = Live
    BY <1>8, LiveKept DEF vars
  <2> QED
    BY <1>8, <2>1 DEF vars, IInv, TypeOK, Order, Control, Errors, JobBound, Accounting
<1> QED
  BY <1>1, <1>2, <1>3, <1>4, <1>5, <1>6, <1>7, <1>8 DEF Next, Parent

(* The strengthened invariant holds in every reachable state. *)
THEOREM IInvHolds == Spec => []IInv
BY InitIInv, NextIInv, PTL DEF Spec

(***************************************************************************)
(* For any settings, however the cpus come and go: never more children     *)
(* than jobs, never jobs above jobs_max (work_spawn).                      *)
(***************************************************************************)
THEOREM JobBoundThm == Spec => []JobBound
<1>1. IInv => JobBound
  BY DEF IInv
<1> QED BY <1>1, IInvHolds, PTL

(* njobs counts the live children, up to the one suspended work_sync_one. *)
THEOREM AccountingThm == Spec => []Accounting
<1>1. IInv => Accounting
  BY DEF IInv
<1> QED BY <1>1, IInvHolds, PTL

(* When the parser exits, also out of handle_work_result, no child is left. *)
THEOREM NoOrphansThm == Spec => []NoOrphans
<1>1. IInv => NoOrphans
  <2> SUFFICES ASSUME IInv, pc = "exited" PROVE Live = {}
    BY DEF NoOrphans
  <2>1. Cardinality(Live) = 0
    BY LiveFinite DEF IInv, Control, Accounting, TypeOK
  <2> QED BY <2>1, LiveFinite, FS_EmptySet
<1> QED BY <1>1, IInvHolds, PTL

(* The exit status is non-zero exactly when an error happened. *)
THEOREM FailureReportedThm == Spec => []FailureReported
<1>1. IInv => FailureReported
  <2> SUFFICES ASSUME IInv, pc = "exited" PROVE exit_status # 0 <=> last_fail # 0
    BY DEF FailureReported
  <2> QED BY DEF IInv, Control
<1> QED BY <1>1, IInvHolds, PTL

(* Without --abort-on-error nothing is ever suspended and every result counts. *)
NoAbort ==
    ~abort_given =>
        /\ ~abort_on_error /\ suspended = 0 /\ pc # "abort"
        /\ pc # "exited" => last_error = last_fail
        /\ pc = "sync" => arg = NArgs + 1
        /\ (pc = "exited" /\ jobs # 0) =>
               arg = NArgs + 1 /\ exit_status = Exit8(last_fail)

LEMMA NoAbortStep == IInv /\ NoAbort /\ [Next]_vars => NoAbort'
<1> SUFFICES ASSUME IInv, NoAbort, [Next]_vars, ~abort_given' PROVE NoAbort'
  BY DEF NoAbort
<1>a. ~abort_given
  <2>1. ASSUME Parent PROVE UNCHANGED abort_given
    BY <2>1 DEF Parent, ArgMissing, ArgFile, ArgDir, EntrySkip, EntryStatFails,
       EntryNoMemory, EntryUnit, DirDone, RunInProcess, UnitExits, BeginSpawn,
       Fork, ForkFails, Reap, WaitFails, ArgsDone, Exit
  <2>2. ASSUME NEW u \in Units, ChildEnds(u) PROVE UNCHANGED abort_given
    BY <2>2 DEF ChildEnds
  <2> QED
    BY <2>1, <2>2 DEF Next, vars
<1>0. ~abort_on_error /\ suspended = 0 /\ pc # "abort"
      /\ (pc # "exited" => last_error = last_fail)
  BY <1>a DEF NoAbort
<1>1. ASSUME NEW r, NEW frame, NEW next \in {"main", "dir", "fork", "sync"},
             HandleWorkResult(r, frame, next), NoteFailure(r), pc # "exited",
             next = "sync" => arg' = NArgs + 1
      PROVE  NoAbort'
  BY <1>0, <1>1 DEF HandleWorkResult, NoteFailure, NoAbort
<1>2. CASE ArgMissing \/ DirDone
  <2>1. PICK e \in Errnos \cup {0} : /\ last_fail' = IF e # 0 THEN e ELSE last_fail
                                   /\ last_error' = IF e # 0 THEN e ELSE last_error
    BY <1>2, ErrnosAssumption DEF ArgMissing, DirDone, NoteFailure
  <2> QED
    BY <1>0, <1>2, <2>1 DEF ArgMissing, DirDone, NoAbort
<1>3. CASE ArgFile \/ ArgDir \/ EntrySkip \/ EntryStatFails \/ EntryUnit
  BY <1>0, <1>3 DEF ArgFile, ArgDir, EntrySkip, EntryStatFails, EntryUnit, NoAbort
<1>4. CASE EntryNoMemory \/ RunInProcess \/ ForkFails
  BY <1>1, <1>4 DEF EntryNoMemory, RunInProcess, ForkFails, AfterUnit
<1>5. CASE \E u \in Units : Reap(u)
  BY <1>0, <1>1, <1>5 DEF Reap, Waiting, AfterWait, NoAbort, parse_vars
<1>6. CASE WaitFails
  <2>1. Cardinality(Live) = 0
    BY <1>6, FS_EmptySet DEF WaitFails
  <2>2. njobs = 0
    BY <1>0, <2>1 DEF IInv, TypeOK, Accounting
  <2> QED
    BY <1>6, <2>2 DEF WaitFails, Waiting, IInv, Control
<1>7. CASE UnitExits
  BY <1>0, <1>7 DEF UnitExits, NoAbort, job_vars
<1>8. CASE BeginSpawn \/ Fork
  BY <1>0, <1>8 DEF BeginSpawn, Fork, AfterUnit, NoAbort
<1>9. CASE ArgsDone
  <2>1. arg = NArgs + 1
    BY <1>9, NArgsAssumption DEF ArgsDone, IInv, TypeOK
  <2> QED
    BY <1>0, <1>9, <2>1 DEF ArgsDone, NoAbort, parse_vars
<1>10. CASE Exit
  BY <1>0, <1>10 DEF Exit, NoAbort, parse_vars
<1>11. CASE (\E u \in Units : ChildEnds(u)) \/ UNCHANGED vars
  BY <1>11 DEF ChildEnds, vars, NoAbort, parse_vars, job_vars
<1> QED
  BY <1>2, <1>3, <1>4, <1>5, <1>6, <1>7, <1>8, <1>9, <1>10, <1>11 DEF Next, Parent

(***************************************************************************)
(* Without --abort-on-error, and with units in children of their own, all  *)
(* arguments are processed and the exit status is the last error's: the    *)
(* wait for a child that is not there happens only after an abort.         *)
(***************************************************************************)
THEOREM ContinuesOnErrorThm == Spec => []ContinuesOnError
<1>1. Init => NoAbort
  BY DEF Init, NoAbort
<1>2. NoAbort => ContinuesOnError
  BY DEF NoAbort, ContinuesOnError
<1> QED
  BY <1>1, <1>2, NoAbortStep, IInvHolds, PTL DEF Spec

(***************************************************************************)
(* An error that was noted is never forgotten: handle_work_result and main *)
(* only ever replace last_error by another error.                          *)
(***************************************************************************)
THEOREM ErrorSticksThm == Spec => ErrorSticks
<1>1. ASSUME [Next]_vars PROVE [last_error # 0 => last_error' # 0]_vars
  <2> SUFFICES ASSUME last_error # 0 PROVE last_error' # 0 \/ UNCHANGED vars
    OBVIOUS
  <2>1. ASSUME NEW r, NEW frame, NEW next, HandleWorkResult(r, frame, next)
        PROVE  last_error' # 0
    BY <2>1 DEF HandleWorkResult
  <2>2. ASSUME NEW e \in Errnos PROVE e # 0
    BY ErrnosAssumption
  <2>3. CASE UNCHANGED last_error
    BY <2>3
  <2>4. CASE ArgMissing \/ DirDone
    BY <2>2, <2>4 DEF ArgMissing, DirDone
  <2>5. CASE EntryNoMemory \/ RunInProcess \/ ForkFails \/ WaitFails
    BY <2>1, <2>5 DEF EntryNoMemory, RunInProcess, ForkFails, WaitFails
  <2>6. CASE \E u \in Units : Reap(u)
    BY <2>1, <2>6 DEF Reap
  <2>7. CASE \/ ArgFile \/ ArgDir \/ EntrySkip \/ EntryStatFails \/ EntryUnit
             \/ UnitExits \/ BeginSpawn \/ Fork \/ ArgsDone \/ Exit
             \/ (\E u \in Units : ChildEnds(u)) \/ UNCHANGED vars
    BY <2>3, <2>7 DEF ArgFile, ArgDir, EntrySkip, EntryStatFails, EntryUnit, UnitExits,
       BeginSpawn, Fork, ArgsDone, Exit, ChildEnds, vars
  <2> QED
    BY <1>1, <2>4, <2>5, <2>6, <2>7 DEF Next, Parent
<1> QED
  BY <1>1, PTL DEF Spec, ErrorSticks

-----------------------------------------------------------------------------
(* The refinement: live children are the active tasks of the pool. *)
Mapped == [u \in Units |-> TaskState(child[u])]

LEMMA ActiveIsLive == ASSUME TypeOK PROVE Pool!Active = Live
BY DEF Pool!Active, Live, TaskState, TypeOK

LEMMA PoolStep == IInv /\ IInv' /\ [Next]_vars => [Pool!Next]_(Pool!poolvars)
<1> SUFFICES ASSUME IInv, IInv', [Next]_vars
             PROVE  Pool!Next \/ UNCHANGED <<Mapped, jobs_max, pc # "exited">>
  BY DEF Pool!poolvars, Mapped
<1> USE DEF job_vars, parse_vars
<1>1. CASE \E u \in Units : ChildEnds(u)
  <2>1. PICK u \in Units : ChildEnds(u)
    BY <1>1
  <2>2. Mapped' = Mapped
    BY <2>1 DEF ChildEnds, Mapped, TaskState, IInv, TypeOK
  <2> QED BY <2>1, <2>2 DEF ChildEnds
<1>2. CASE \E u \in Units : Reap(u)
  <2>1. PICK u \in Units : Reap(u)
    BY <1>2
  <2>2. pc # "exited" /\ pc' # "exited"
    BY <2>1 DEF Reap, Waiting, AfterWait, HandleWorkResult
  <2>3. child[u] = "zombie" /\ child' = [child EXCEPT ![u] = "reaped"] /\ jobs_max' = jobs_max
    BY <2>1 DEF Reap
  <2>4. Mapped[u] = "active" /\ Mapped' = [Mapped EXCEPT ![u] = "collected"]
    BY <2>3 DEF Mapped, TaskState, IInv, TypeOK
  <2>5. Pool!Collect(u)
    BY <2>2, <2>3, <2>4 DEF Pool!Collect, Mapped
  <2> QED BY <2>5 DEF Pool!Next
<1>3. CASE Fork
  <2>1. pc = "fork" /\ pc' # "exited" /\ jobs_max' = jobs_max
        /\ child' = [child EXCEPT ![Unit] = "running"]
    BY <1>3 DEF Fork, AfterUnit
  <2>2. njobs < jobs /\ arg <= NArgs /\ entry >= 1
    BY <2>1 DEF IInv, Control
  <2>3. Unit \in Units /\ child[Unit] = "unborn"
    <3>1. Unit \in Units
      BY <2>2, NArgsAssumption, MaxEntriesAssumption DEF Unit, Units, IInv, TypeOK
    <3>2. Unit[1] = arg /\ Unit[2] = entry
      BY DEF Unit
    <3> QED
      BY <3>1, <3>2, NArgsAssumption, MaxEntriesAssumption DEF IInv, Order, TypeOK
  <2>4. Mapped[Unit] = "new" /\ Mapped' = [Mapped EXCEPT ![Unit] = "active"]
    BY <2>1, <2>3 DEF Mapped, TaskState, IInv, TypeOK
  <2>5. Cardinality(Pool!Active) < jobs_max
    BY <2>2, ActiveIsLive, LiveFinite DEF IInv, TypeOK, JobBound, Accounting
  <2>6. Pool!Cardinality(Pool!Active) < jobs_max
    BY <2>5, Zenon DEF Cardinality, Pool!Cardinality
  <2>7. Pool!Start(Unit)
    BY <2>1, <2>4, <2>6 DEF Pool!Start, Mapped
  <2> QED BY <2>3, <2>7 DEF Pool!Next
<1>4. CASE Exit \/ UnitExits
  <2>1. pc # "exited" /\ pc' = "exited" /\ jobs_max' = jobs_max /\ child' = child
    BY <1>4 DEF Exit, UnitExits
  <2>2. Live = {}
    <3>1. njobs = 0
      BY <1>4 DEF Exit, UnitExits, IInv, JobBound, TypeOK
    <3>2. Cardinality(Live) = 0
      BY <3>1, LiveFinite DEF IInv, Accounting, TypeOK
    <3> QED BY <3>2, LiveFinite, FS_EmptySet
  <2>3. Pool!Close
    BY <2>1, <2>2, ActiveIsLive DEF Pool!Close, IInv
  <2> QED BY <2>3 DEF Pool!Next
<1>5. CASE \/ ArgMissing \/ ArgFile \/ ArgDir \/ EntrySkip \/ EntryStatFails
           \/ EntryNoMemory \/ EntryUnit \/ DirDone \/ RunInProcess
           \/ BeginSpawn \/ ForkFails \/ WaitFails \/ ArgsDone
  <2>1. child' = child /\ jobs_max' = jobs_max
    BY <1>5 DEF ArgMissing, ArgFile, ArgDir, EntrySkip, EntryStatFails, EntryNoMemory,
                EntryUnit, DirDone, RunInProcess, BeginSpawn, ForkFails, WaitFails, ArgsDone
  <2>2. pc # "exited" /\ pc' # "exited"
    BY <1>5 DEF ArgMissing, ArgFile, ArgDir, EntrySkip, EntryStatFails, EntryNoMemory,
                EntryUnit, DirDone, RunInProcess, BeginSpawn, ForkFails, WaitFails, ArgsDone,
                Waiting, AfterWait, AfterUnit, HandleWorkResult
  <2> QED BY <2>1, <2>2 DEF Mapped
<1>6. CASE UNCHANGED vars
  BY <1>6 DEF vars, Mapped
<1> QED
  BY <1>1, <1>2, <1>3, <1>4, <1>5, <1>6 DEF Next, Parent

(***************************************************************************)
(* The work queue implements the abstract pool: every behaviour of the     *)
(* parser's parent and children is one of WorkPool.                        *)
(***************************************************************************)
THEOREM PoolRefinement == Spec => PoolSpec
<1>1. Init => Pool!Init
  <2> SUFFICES ASSUME Init PROVE Pool!Init
    OBVIOUS
  <2>1. IInv
    BY InitIInv
  <2>2. [u \in Units |-> TaskState(child[u])] = [u \in Units |-> "new"]
    BY DEF Init, TaskState
  <2> QED BY <2>1, <2>2 DEF Pool!Init, Init, IInv, TypeOK
<1> QED BY <1>1, PoolStep, IInvHolds, PTL DEF Spec, PoolSpec, Pool!Spec
=============================================================================
