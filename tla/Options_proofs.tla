--------------------------- MODULE Options_proofs ---------------------------
(***************************************************************************)
(* The options of the parser, for every sequence of them.  The job options *)
(* resolve to a capped, non-negative job count for every number of cpus    *)
(* and every memory estimate, and the scan of -L stays inside its argument *)
(* and inside its slots, for arguments of every length and any number of   *)
(* slots.  Each part is proved of its own specification, and main's        *)
(* specification implements both.                                          *)
(***************************************************************************)
EXTENDS Options, SequenceTheorems, TLAPS

(***************************************************************************)
(* The strengthening: until setup_parallel_compile runs jobs_scale is      *)
(* still zero, so a positive budget means that jobs was a scaling value.   *)
(***************************************************************************)
IInv ==
    /\ TypeOK
    /\ stage # "ready" => jobs_scale = 0
    /\ JobsCapped

(* compute_jobs answers at least the cpus for a scaling value. *)
LEMMA ComputeJobsBound ==
    ASSUME NEW cpus \in Nat \ {0}, NEW j \in Int
    PROVE  /\ ComputeJobs(cpus, j) \in Nat
           /\ j < 0 => ComputeJobs(cpus, j) >= cpus
<1>1. CASE j = JOBS_AUTO
  BY <1>1 DEF ComputeJobs
<1>2. CASE j # JOBS_AUTO /\ j < 0
  <2>1. PICK d \in Nat : j = -1 - d
    <3>1. -1 - j \in Nat /\ j = -1 - (-1 - j)
      BY <1>2
    <3> QED BY <3>1
  <2>2. cpus * d \in Nat
    BY SMT
  <2>3. cpus * j = -cpus - cpus * d
    BY <2>1, <2>2, SMT
  <2>4. ComputeJobs(cpus, j) = cpus + cpus * d
    BY <1>2, <2>2, <2>3, SMT DEF ComputeJobs
  <2> QED
    BY <2>2, <2>4, SMT
<1>3. CASE j # JOBS_AUTO /\ ~(j < 0)
  BY <1>3 DEF ComputeJobs
<1> QED BY <1>1, <1>2, <1>3

(* setup_parallel_compile on its own: what it leaves behind is capped. *)
LEMMA SetupCapped ==
    ASSUME NEW j \in Int, NEW jm \in Int, NEW cpus \in Nat \ {0}, NEW m \in Nat \ {0}
    PROVE  LET got == Setup(j, jm, 0, cpus, m)
           IN  /\ got.jobs \in Nat /\ got.jobs_max \in Nat /\ got.jobs_scale \in Nat
               /\ got.jobs <= got.jobs_max
<1> DEFINE rj == ComputeJobs(cpus, j)
           rm == ComputeJobs(m, jm)
<1>1. rj \in Nat /\ rm \in Nat /\ (j < 0 => rj >= cpus)
  BY ComputeJobsBound
<1>2. JOBS_AUTO < 0
  BY LongMaxAssumption DEF JOBS_AUTO
<1> HIDE DEF rj, rm
<1>3. Setup(j, jm, 0, cpus, m) =
         LET sc == IF j < 0 \/ j = JOBS_AUTO THEN 1 ELSE 0
         IN  [jobs       |-> IF rj > rm THEN rm ELSE rj,
              jobs_max   |-> rm,
              jobs_scale |-> IF rj > rm THEN sc
                             ELSE IF sc # 0 /\ rj < rm THEN rm + 1 - cpus
                             ELSE sc]
  BY DEF Setup, rj, rm
<1> QED BY <1>1, <1>2, <1>3

(* The strengthening is inductive, one step per action. *)
THEOREM IInvThm == Spec => []IInv
<1>0. JOBS_AUTO \in Int /\ LONG_MAX \in Int
  BY LongMaxAssumption DEF JOBS_AUTO
<1>1. Init => IInv
  <2>1. Init => opts \in Seq(JobOption)
    BY OptionSeqsAssumption DEF Init
  <2> QED
    BY <1>0, <2>1 DEF Init, IInv, TypeOK, JobsCapped, DEFAULT_JOBS_MAX
<1>2. IInv /\ [Next]_vars => IInv'
  <2> SUFFICES ASSUME IInv, [Next]_vars PROVE IInv'
    OBVIOUS
  <2> USE DEF IInv, TypeOK, JobsCapped
  <2>1. CASE ProcessJobs
    <3>1. Head(opts) \in JobOption
      BY <2>1 DEF ProcessJobs
    <3>2. ProcessJobsArg(Head(opts).val) \in Int
      BY <1>0, <3>1 DEF JobOption, OptionValues, ProcessJobsArg
    <3> QED BY <2>1, <3>2 DEF ProcessJobs
  <2>2. CASE ProcessMaxJobs
    <3>1. Head(opts) \in JobOption
      BY <2>2 DEF ProcessMaxJobs
    <3>2. ProcessJobsArg(Head(opts).val) \in Int
      BY <1>0, <3>1 DEF JobOption, OptionValues, ProcessJobsArg
    <3> QED BY <2>2, <3>2 DEF ProcessMaxJobs
  <2>3. CASE SampleSystem
    BY <2>3, CpuCountsAssumption DEF SampleSystem, CpusOr1
  <2>4. CASE AutoTuneParameters
    <3>1. \A est \in JobEstimates \cup {NoMemInfo} :
             LET t == AutoTune(jobs, jobs_max, est, ncpus)
             IN  t[1] \in Int /\ t[2] \in Int
      BY JobEstimatesAssumption DEF AutoTune, NoMemInfo, LowMemory
    <3> QED BY <2>4, <3>1 DEF AutoTuneParameters
  <2>5. CASE SetupParallelCompile
    <3> DEFINE got == Setup(jobs, jobs_max, 0, ncpus, maxcpus)
    <3>1. /\ got.jobs \in Nat /\ got.jobs_max \in Nat /\ got.jobs_scale \in Nat
          /\ got.jobs <= got.jobs_max
      BY SetupCapped
    <3>2. jobs' = got.jobs /\ jobs_max' = got.jobs_max /\ jobs_scale' = got.jobs_scale
      BY <2>5 DEF SetupParallelCompile
    <3> HIDE DEF got
    <3> QED BY <2>5, <3>1, <3>2 DEF SetupParallelCompile
  <2>6. CASE UNCHANGED vars
    BY <2>6 DEF vars
  <2> QED
    BY <2>1, <2>2, <2>3, <2>4, <2>5, <2>6 DEF Next
<1> QED BY <1>1, <1>2, PTL DEF Spec


-----------------------------------------------------------------------------
(***************************************************************************)
(* A last -j with a plain number that is not negative.                     *)
(***************************************************************************)
LastPlain ==
    LET last == given[Len(given)]
    IN  last.opt = "jobs" /\ last.val.kind = "num" /\ last.val.n >= 0

(***************************************************************************)
(* Why the last one is obeyed: the options left end in the last one given, *)
(* so it is the one processed when none is left, and from then on nothing  *)
(* tunes or scales its number.                                             *)
(***************************************************************************)
ObeyInv ==
    /\ opts # <<>> => given # <<>> /\ opts[Len(opts)] = given[Len(given)]
    /\ stage # "options" => opts = <<>>
    /\ (opts = <<>> /\ given # <<>> /\ LastPlain)
           => /\ jobs = given[Len(given)].val.n
              /\ jobs_max = jobs
              /\ jobs_scale = 0

(* A plain number lies strictly between the two words. *)
LEMMA PlainInRange ==
    ASSUME given \in OptionSeqs, given # <<>>, LastPlain
    PROVE  /\ given[Len(given)].val.n \in Nat
           /\ given[Len(given)].val.n < LONG_MAX
           /\ given[Len(given)].val.n # JOBS_AUTO
<1>1. given \in Seq(JobOption) /\ Len(given) \in 1 .. Len(given)
  BY OptionSeqsAssumption
<1>2. given[Len(given)].val.n \in -LONG_MAX + 1 .. LONG_MAX - 1
  BY <1>1, OptionSeqsAssumption
<1> QED BY <1>2, LongMaxAssumption DEF LastPlain, JOBS_AUTO

(* Removing the first of several options leaves the last one in place. *)
LEMMA TailKeepsLast ==
    ASSUME NEW S, NEW q \in Seq(S), q # <<>>
    PROVE  /\ Tail(q) # <<>> => Tail(q)[Len(Tail(q))] = q[Len(q)]
           /\ Tail(q) = <<>> => Head(q) = q[Len(q)]
<1> DEFINE last == Len(q)
           t == Len(Tail(q))
<1>1. last \in Nat \ {0} /\ t = last - 1 /\ Head(q) = q[1] /\ Tail(q) \in Seq(S)
  BY HeadTailProperties, EmptySeq
<1>2. ASSUME Tail(q) # <<>> PROVE Tail(q)[t] = q[last]
  <2>1. t \in Nat \ {0}
    BY <1>1, <1>2, EmptySeq
  <2>2. \A i \in 1 .. t : Tail(q)[i] = q[i + 1]
    BY HeadTailProperties
  <2> QED BY <1>1, <2>1, <2>2
<1>3. ASSUME Tail(q) = <<>> PROVE Head(q) = q[last]
  <2>1. t = 0
    BY <1>3, EmptySeq
  <2> HIDE DEF last, t
  <2>2. last = 1
    BY <1>1, <2>1
  <2> QED BY <1>1, <2>2
<1> QED BY <1>2, <1>3

(***************************************************************************)
(* The last plain number is obeyed, one step per action.                   *)
(***************************************************************************)
LEMMA ObeyThm == Spec => []PlainNumberObeyed
<1>1. Init => ObeyInv
  BY DEF Init, ObeyInv
<1>2. IInv /\ ObeyInv /\ [Next]_vars => ObeyInv'
  <2> SUFFICES ASSUME IInv, ObeyInv, [Next]_vars PROVE ObeyInv'
    OBVIOUS
  <2>0. given' = given /\ given \in OptionSeqs /\ opts \in Seq(JobOption)
    BY DEF IInv, TypeOK, Next, vars, ProcessJobs, ProcessMaxJobs, SampleSystem,
           AutoTuneParameters, SetupParallelCompile
  <2>l. LastPlain' = LastPlain
    BY <2>0 DEF LastPlain
  <2>1. CASE ProcessJobs
    <3>1. opts # <<>> /\ opts' = Tail(opts) /\ stage' = stage /\ stage = "options"
          /\ jobs_scale' = jobs_scale /\ jobs_scale = 0
      BY <2>1 DEF ProcessJobs, IInv
    <3>2. /\ opts' # <<>> => opts'[Len(opts')] = given[Len(given)]
          /\ opts' = <<>> => Head(opts) = given[Len(given)]
      BY <2>0, <3>1, TailKeepsLast DEF ObeyInv
    <3>3. ASSUME opts' = <<>>, given # <<>>, LastPlain
          PROVE  jobs' = given[Len(given)].val.n /\ jobs_max' = jobs'
      <4>1. jobs' = given[Len(given)].val.n
        BY <2>1, <3>2, <3>3 DEF ProcessJobs, ProcessJobsArg, LastPlain
      <4> QED BY <2>0, <2>1, <3>3, <4>1, PlainInRange DEF ProcessJobs
    <3> QED BY <2>0, <2>l, <3>1, <3>2, <3>3 DEF ObeyInv
  <2>2. CASE ProcessMaxJobs
    <3>1. opts # <<>> /\ opts' = Tail(opts) /\ stage' = stage /\ stage = "options"
          /\ Head(opts).opt = "max-jobs"
      BY <2>2 DEF ProcessMaxJobs
    <3>2. /\ opts' # <<>> => opts'[Len(opts')] = given[Len(given)]
          /\ opts' = <<>> => Head(opts) = given[Len(given)]
      BY <2>0, <3>1, TailKeepsLast DEF ObeyInv
    <3>3. opts' = <<>> => ~LastPlain
      BY <3>1, <3>2 DEF LastPlain
    <3> QED BY <2>0, <2>l, <3>1, <3>2, <3>3 DEF ObeyInv
  <2>3. CASE SampleSystem
    BY <2>0, <2>l, <2>3 DEF SampleSystem, ObeyInv
  <2>4. CASE AutoTuneParameters
    <3>1. opts' = opts /\ opts = <<>> /\ stage' # "options" /\ jobs_scale' = jobs_scale
      BY <2>4 DEF AutoTuneParameters, ObeyInv
    <3>2. ASSUME given # <<>>, LastPlain PROVE jobs' = jobs /\ jobs_max' = jobs_max
      <4>1. jobs # JOBS_AUTO
        BY <2>0, <3>1, <3>2, PlainInRange DEF ObeyInv
      <4> QED BY <2>4, <4>1 DEF AutoTuneParameters, AutoTune
    <3> QED BY <2>0, <2>l, <3>1, <3>2 DEF ObeyInv
  <2>5. CASE SetupParallelCompile
    <3>1. opts' = opts /\ opts = <<>> /\ stage' # "options"
      BY <2>5 DEF SetupParallelCompile, ObeyInv
    <3>2. ASSUME given # <<>>, LastPlain
          PROVE  jobs' = jobs /\ jobs_max' = jobs /\ jobs_scale' = 0
      <4>1. jobs \in Nat /\ jobs # JOBS_AUTO /\ jobs_max = jobs /\ jobs_scale = 0
        BY <2>0, <3>1, <3>2, PlainInRange DEF ObeyInv
      <4>2. ComputeJobs(ncpus, jobs) = jobs /\ ComputeJobs(maxcpus, jobs_max) = jobs
        BY <4>1 DEF ComputeJobs
      <4> QED BY <2>5, <4>1, <4>2 DEF SetupParallelCompile, Setup
    <3> QED BY <2>0, <2>l, <3>1, <3>2 DEF ObeyInv
  <2>6. CASE UNCHANGED vars
    BY <2>6 DEF vars, ObeyInv, LastPlain
  <2> QED
    BY <2>1, <2>2, <2>3, <2>4, <2>5, <2>6 DEF Next
<1>3. ObeyInv => PlainNumberObeyed
  BY DEF ObeyInv, PlainNumberObeyed, LastPlain
<1> QED BY <1>1, <1>2, <1>3, IInvThm, PTL DEF Spec
-----------------------------------------------------------------------------
(***************************************************************************)
(* The scan of -L                                                          *)
(***************************************************************************)
(* While there is an argument to scan, the pointers are where they may be. *)
Pointers ==
    pc = "scan" => /\ k \in 1 .. Len(args)
                   /\ s \in 1 .. p /\ p \in 1 .. Len(arg) + 1
                   /\ n <= MAX_CACHE_LOCS

ScanInv == LocTypeOK /\ Pointers

LEMMA CutEffect ==
    ASSUME ScanInv, pc = "scan", NEW next \in {"scan", "options"}, Cut(next)
    PROVE  /\ n' \in 0 .. MAX_CACHE_LOCS
           /\ cacheloc' \in [Slots -> Int \X Int]
           /\ pc' \in {next, "exit"}
<1>1. CASE UNCHANGED <<n, cacheloc>>
  BY <1>1, MaxAssumption DEF Cut, ScanInv, LocTypeOK, Pointers
<1>2. CASE ~UNCHANGED <<n, cacheloc>>
  <2>1. /\ n # MAX_CACHE_LOCS /\ n' = n + 1 /\ pc' = next
        /\ cacheloc' = [cacheloc EXCEPT ![n + 1] = <<s, p>>]
    BY <1>2 DEF Cut
  <2>2. <<s, p>> \in Int \X Int
    BY DEF ScanInv, LocTypeOK
  <2> QED
    BY <2>1, <2>2, MaxAssumption DEF ScanInv, LocTypeOK, Pointers, Slots
<1> QED
  BY <1>1, <1>2

LEMMA InitScanInv == LocInit => ScanInv
<1> SUFFICES ASSUME LocInit PROVE ScanInv
  OBVIOUS
<1>1. args \in Seq(Seq(Chars))
  BY GivenAssumption DEF LocInit
<1>2. cacheloc \in [Slots -> Int \X Int]
  BY DEF LocInit, Null
<1> QED
  BY <1>1, <1>2, MaxAssumption DEF LocInit, ScanInv, LocTypeOK, Pointers

LEMMA NextScanInv == ScanInv /\ [LocNext]_locvars => ScanInv'
<1> SUFFICES ASSUME ScanInv, [LocNext]_locvars PROVE ScanInv'
  OBVIOUS
<1> USE DEF ScanInv, LocTypeOK, Pointers
<1>a. ASSUME pc = "scan" PROVE arg \in Seq(Chars) /\ Len(arg) \in Nat
  BY <1>a DEF arg
<1>b. ASSUME UNCHANGED <<args, k>> PROVE arg' = arg
  BY <1>b DEF arg
<1>c. ASSUME pc = "scan", ~AtEnd PROVE p + 1 \in 1 .. Len(arg) + 1
  BY <1>a, <1>c DEF AtEnd
<1>1. CASE NextOption
  <2>1. k' \in 1 .. Len(args) /\ args[k'] \in Seq(Chars)
    BY <1>1 DEF NextOption
  <2>2. arg' \in Seq(Chars) /\ Len(arg') \in Nat
    BY <1>1, <2>1 DEF NextOption, arg
  <2> QED
    BY <1>1, <2>1, <2>2, MaxAssumption DEF NextOption
<1>2. CASE ScanBackslash
  <2>1. p' \in {p, p + 1} /\ UNCHANGED <<args, k, s, n, cacheloc, cacheloc_n, pc>>
    BY <1>2 DEF ScanBackslash
  <2> QED
    BY <1>2, <1>a, <1>b, <1>c, <2>1 DEF ScanBackslash
<1>3. CASE ScanChar
  BY <1>3, <1>a, <1>b, <1>c DEF ScanChar
<1>4. CASE ScanComma
  <2>1. /\ n' \in 0 .. MAX_CACHE_LOCS /\ pc' \in {"scan", "exit"}
        /\ cacheloc' \in [Slots -> Int \X Int]
    BY <1>4, CutEffect DEF ScanComma
  <2>2. /\ arg' = arg /\ UNCHANGED <<args, k>>
        /\ s' = p' /\ p' \in 1 .. Len(arg) + 1 /\ p' \in Nat
    BY <1>4, <1>a, <1>b, <1>c DEF ScanComma
  <2>3. cacheloc_n' \in -1 .. MAX_CACHE_LOCS
    BY <1>4, MaxAssumption DEF ScanComma
  <2>4. k \in 1 .. Len(args) /\ args \in Seq(Seq(Chars))
    BY <1>4 DEF ScanComma
  <2>5. s' \in 1 .. p'
    BY <2>2
  <2>6. Pointers'
    BY <2>1, <2>2, <2>4, <2>5
  <2>7. LocTypeOK'
    BY <2>1, <2>2, <2>3, <2>4
  <2> QED
    BY <2>6, <2>7
<1>5. CASE ScanEnd
  <2>1. /\ n' \in 0 .. MAX_CACHE_LOCS /\ pc' \in {"options", "exit"}
        /\ cacheloc' \in [Slots -> Int \X Int]
    BY <1>5, CutEffect DEF ScanEnd
  <2>2. cacheloc_n' \in -1 .. MAX_CACHE_LOCS
    BY <1>5, <2>1, MaxAssumption DEF ScanEnd
  <2> QED
    BY <1>5, <2>1, <2>2 DEF ScanEnd
<1>6. CASE UseLocations
  <2>1. Default \in Int \X Int
    BY DEF Default
  <2>2. /\ cacheloc' = cacheloc \/ cacheloc' = [cacheloc EXCEPT ![1] = Default]
        /\ cacheloc_n' = cacheloc_n \/ cacheloc_n' = 1
    BY <1>6 DEF UseLocations
  <2>3. cacheloc' \in [Slots -> Int \X Int]
    BY <2>1, <2>2
  <2>4. cacheloc_n' \in -1 .. MAX_CACHE_LOCS
    BY <2>2, MaxAssumption
  <2> QED
    BY <1>6, <2>3, <2>4 DEF UseLocations
<1>7. CASE UNCHANGED locvars
  BY <1>7, <1>b DEF locvars
<1> QED
  BY <1>1, <1>2, <1>3, <1>4, <1>5, <1>6, <1>7 DEF LocNext

(***************************************************************************)
(* The scan stays in bounds.                                               *)
(***************************************************************************)
LEMMA ScanThm == LocSpec => []InBounds
<1>1. ScanInv => InBounds
  BY DEF ScanInv, LocTypeOK, Pointers, InBounds
<1> QED
  BY InitScanInv, NextScanInv, <1>1, PTL DEF LocSpec

-----------------------------------------------------------------------------
(***************************************************************************)
(* The locations.  Between two commas there is at most one, so the runs    *)
(* that end at p or before it are those that end before s, and the one     *)
(* from s to p unless it is empty.                                         *)
(***************************************************************************)
Runs(a) == { r \in (1 .. Len(a)) \X (2 .. Len(a) + 1) :
               /\ r[1] < r[2]
               /\ \A i \in r[1] .. r[2] - 1 : a[i] # Comma
               /\ r[1] = 1 \/ a[r[1] - 1] = Comma
               /\ r[2] = Len(a) + 1 \/ a[r[2]] = Comma }

RunsBefore(a, x) == { r \in Runs(a) : r[2] < x }

(* Where no comma is escaped, the runs are the locations that are named. *)
LEMMA RunsAreLocations ==
    ASSUME NEW a \in Seq(Chars), ~EscapesComma(a)
    PROVE  Locations(a) = Runs(a)
<1> DEFINE l == Len(a)
<1>0. l \in Nat
  OBVIOUS
<1>1. \A i \in 1 .. l : Separates(a, i) <=> a[i] = Comma
  BY DEF EscapesComma, Separates
<1>2. ASSUME NEW r \in (1 .. l) \X (2 .. l + 1), r[1] < r[2]
      PROVE  /\ \A i \in r[1] .. r[2] - 1 : i \in 1 .. l
             /\ r[1] # 1 => r[1] - 1 \in 1 .. l
             /\ r[2] # l + 1 => r[2] \in 1 .. l
  BY <1>0, <1>2
<1> HIDE DEF l
<1>3. ASSUME NEW r \in (1 .. l) \X (2 .. l + 1), r[1] < r[2]
      PROVE  /\ (\A i \in r[1] .. r[2] - 1 : ~Separates(a, i)) <=> (\A i \in r[1] .. r[2] - 1 : a[i] # Comma)
             /\ (r[1] = 1 \/ Separates(a, r[1] - 1)) <=> (r[1] = 1 \/ a[r[1] - 1] = Comma)
             /\ (r[2] = l + 1 \/ Separates(a, r[2])) <=> (r[2] = l + 1 \/ a[r[2]] = Comma)
  BY <1>1, <1>2, <1>3
<1> QED BY <1>3 DEF Locations, Runs, l

LEMMA RunsUpTo ==
    ASSUME NEW a \in Seq(Chars), NEW x \in 1 .. Len(a) + 1, NEW y \in x .. Len(a) + 1,
           x = 1 \/ a[x - 1] = Comma,
           \A i \in x .. y - 1 : a[i] # Comma,
           y = Len(a) + 1 \/ a[y] = Comma
    PROVE  RunsBefore(a, y + 1) = RunsBefore(a, x) \cup (IF y = x THEN {} ELSE {<<x, y>>})
<1> DEFINE l == Len(a)
<1>0. l \in Nat
  OBVIOUS
<1>1. ASSUME y # x PROVE <<x, y>> \in RunsBefore(a, y + 1)
  <2>1. x \in 1 .. l /\ y \in 2 .. l + 1 /\ x < y
    BY <1>0, <1>1
  <2>2. <<x, y>> \in Runs(a)
    BY <2>1 DEF Runs
  <2> QED BY <2>1, <2>2 DEF RunsBefore
<1>2. ASSUME NEW r \in Runs(a), r[2] < x PROVE r \in RunsBefore(a, y + 1)
  BY <1>0, <1>2 DEF Runs, RunsBefore
<1>3. ASSUME NEW r \in Runs(a), r[2] < y + 1, ~(r[2] < x) PROVE y # x /\ r = <<x, y>>
  <2>1. /\ r \in (1 .. l) \X (2 .. l + 1) /\ r = <<r[1], r[2]>>
        /\ r[1] \in 1 .. l /\ r[2] \in 2 .. l + 1 /\ r[1] < r[2]
        /\ \A i \in r[1] .. r[2] - 1 : a[i] # Comma
        /\ r[1] = 1 \/ a[r[1] - 1] = Comma
        /\ r[2] = l + 1 \/ a[r[2]] = Comma
    BY DEF Runs
  <2>2. r[2] = y
    <3>1. r[2] \in x .. y
      BY <1>0, <1>3, <2>1
    <3>2. CASE a[r[2]] = Comma /\ r[2] # y
      BY <1>0, <3>1, <3>2
    <3> QED BY <1>0, <2>1, <3>1, <3>2
  <2>3. ~(r[1] < x)
    <3> SUFFICES ASSUME r[1] < x PROVE FALSE
      OBVIOUS
    <3>1. x - 1 \in r[1] .. r[2] - 1 /\ x # 1
      BY <1>0, <1>3, <2>1
    <3> QED BY <2>1, <3>1
  <2>4. ~(r[1] > x)
    <3> SUFFICES ASSUME r[1] > x PROVE FALSE
      OBVIOUS
    <3>1. r[1] - 1 \in x .. y - 1 /\ r[1] # 1
      BY <1>0, <2>1, <2>2
    <3> QED BY <2>1, <3>1
  <2>5. r[1] = x
    BY <1>0, <2>1, <2>3, <2>4
  <2> QED BY <1>0, <2>1, <2>2, <2>5
<1> QED BY <1>1, <1>2, <1>3 DEF RunsBefore

(* The first m of the slots c hold the locations in R, in their order. *)
Holds(c, m, R) ==
    /\ {c[i] : i \in 1 .. m} = R
    /\ \A i \in 2 .. m : c[i - 1][2] < c[i][1]

(* s is where a location may start, and no comma lies between s and p. *)
Scanned ==
    pc = "scan" =>
        /\ s = 1 \/ arg[s - 1] = Comma
        /\ \A i \in s .. p - 1 : arg[i] # Comma
        /\ Holds(cacheloc, n, RunsBefore(arg, s))

(* After an option, and until main puts the default in an unused first slot. *)
Taken == (pc = "options" /\ k > 0) => cacheloc_n = n /\ n <= MAX_CACHE_LOCS /\ Holds(cacheloc, n, Runs(arg))

(* What main has put in use. *)
InUse == (pc = "main" /\ k > 0 /\ Runs(arg) # {}) => Holds(cacheloc, cacheloc_n, Runs(arg))

LocInv == ScanInv /\ Scanned /\ Taken /\ InUse

(***************************************************************************)
(* A cut adds the run from s to p, if there is one, after the locations    *)
(* that the slots hold already.                                            *)
(***************************************************************************)
LEMMA CutHolds ==
    ASSUME LocInv, pc = "scan", NEW next \in {"scan", "options"}, Cut(next), pc' = next,
           AtEnd \/ arg[p] = Comma
    PROVE  Holds(cacheloc', n', RunsBefore(arg, p + 1))
<1> USE DEF LocInv, ScanInv, LocTypeOK, Pointers
<1>a. arg \in Seq(Chars) /\ Len(arg) \in Nat /\ s \in 1 .. Len(arg) + 1 /\ p \in s .. Len(arg) + 1
  BY DEF arg
<1>b. RunsBefore(arg, p + 1) = RunsBefore(arg, s) \cup (IF p = s THEN {} ELSE {<<s, p>>})
  BY <1>a, RunsUpTo DEF Scanned, AtEnd
<1>c. Holds(cacheloc, n, RunsBefore(arg, s))
  BY DEF Scanned
<1>1. CASE p = s
  <2>1. UNCHANGED <<n, cacheloc>>
    BY <1>1 DEF Cut
  <2> QED BY <1>1, <1>b, <1>c, <2>1 DEF Holds
<1>2. CASE p # s
  <2>1. /\ n # MAX_CACHE_LOCS /\ n' = n + 1
        /\ cacheloc' = [cacheloc EXCEPT ![n + 1] = <<s, p>>]
    BY <1>2 DEF Cut
  <2>2. n + 1 \in Slots /\ n \in Nat
    BY <2>1, MaxAssumption DEF Slots
  <2>3. cacheloc'[n + 1] = <<s, p>> /\ \A i \in 1 .. n : cacheloc'[i] = cacheloc[i]
    BY <2>1, <2>2 DEF Slots
  <2>4. {cacheloc'[i] : i \in 1 .. n + 1} = {cacheloc[i] : i \in 1 .. n} \cup {<<s, p>>}
    <3>1. \A i : i \in 1 .. n + 1 <=> i \in 1 .. n \/ i = n + 1
      BY <2>2
    <3> QED BY <2>3, <3>1
  <2>5. ASSUME NEW i \in 2 .. n + 1 PROVE cacheloc'[i - 1][2] < cacheloc'[i][1]
    <3>1. CASE i \in 2 .. n
      <4>1. i - 1 \in 1 .. n /\ i \in 1 .. n
        BY <2>2, <3>1
      <4> QED BY <1>c, <2>3, <3>1, <4>1 DEF Holds
    <3>2. CASE i = n + 1
      <4>1. n \in 1 .. n /\ i - 1 = n
        BY <2>2, <2>5, <3>2
      <4>2. cacheloc[n] \in RunsBefore(arg, s)
        BY <1>c, <4>1 DEF Holds
      <4>3. cacheloc[n][2] < s
        BY <4>2 DEF RunsBefore
      <4> QED BY <2>3, <3>2, <4>1, <4>3
    <3> QED BY <2>2, <2>5, <3>1, <3>2
  <2> QED BY <1>2, <1>b, <1>c, <2>1, <2>4, <2>5 DEF Holds
<1> QED BY <1>1, <1>2

LEMMA InitLocInv == LocInit => LocInv
BY InitScanInv DEF LocInit, LocInv, Scanned, Taken, InUse

LEMMA NextLocInv == LocInv /\ [LocNext]_locvars => LocInv'
<1> SUFFICES ASSUME LocInv, [LocNext]_locvars PROVE LocInv'
  OBVIOUS
<1>i. ScanInv /\ ScanInv'
  BY NextScanInv DEF LocInv
<1>a. ASSUME pc = "scan"
      PROVE  arg \in Seq(Chars) /\ Len(arg) \in Nat /\ s \in 1 .. Len(arg) + 1 /\ p \in s .. Len(arg) + 1
  BY <1>a, <1>i DEF arg, ScanInv, LocTypeOK, Pointers
<1>b. ASSUME UNCHANGED <<args, k>> PROVE arg' = arg
  BY <1>b DEF arg
<1>1. CASE NextOption
  <2>1. /\ pc' = "scan" /\ s' = 1 /\ p' = 1 /\ n' = 0
    BY <1>1 DEF NextOption
  <2>2. arg' \in Seq(Chars) /\ Len(arg') \in Nat
    BY <1>i, <2>1 DEF arg, ScanInv, LocTypeOK, Pointers
  <2>3. RunsBefore(arg', 1) = {}
    BY <2>2 DEF RunsBefore, Runs
  <2>4. Holds(cacheloc', 0, {})
    BY DEF Holds
  <2>5. Scanned'
    BY <2>1, <2>3, <2>4 DEF Scanned, Holds
  <2> QED BY <1>i, <2>1, <2>5 DEF LocInv, Taken, InUse
<1>2. CASE ScanBackslash \/ ScanChar
  <2>1. /\ UNCHANGED <<args, k, s, n, cacheloc, cacheloc_n, pc>> /\ pc = "scan"
        /\ p' \in {p, p + 1} /\ arg[p] # Comma
    BY <1>2 DEF ScanBackslash, ScanChar, Comma, Backslash
  <2>2. arg' = arg
    BY <1>b, <2>1
  <2>3. ASSUME NEW i \in s .. p' - 1 PROVE arg[i] # Comma
    BY <1>a, <2>1 DEF LocInv, Scanned
  <2>4. Scanned'
    BY <2>1, <2>2, <2>3 DEF LocInv, Scanned, Holds
  <2> QED BY <1>i, <2>1, <2>4 DEF LocInv, Taken, InUse
<1>3. CASE ScanComma
  <2>1. /\ pc = "scan" /\ ~AtEnd /\ arg[p] = Comma /\ Cut("scan") /\ UNCHANGED <<args, k>>
        /\ p' = p + 1 /\ s' = p + 1 /\ pc' \in {"scan", "exit"}
    BY <1>3 DEF ScanComma, Cut
  <2>2. arg' = arg
    BY <1>b, <2>1
  <2>3. ASSUME pc' = "scan" PROVE Holds(cacheloc', n', RunsBefore(arg', s'))
    <3>1. Holds(cacheloc', n', RunsBefore(arg, p + 1))
      BY <2>1, <2>3, CutHolds
    <3> QED BY <2>1, <2>2, <3>1
  <2>4. Scanned'
    BY <1>a, <2>1, <2>2, <2>3 DEF Scanned
  <2> QED BY <1>i, <2>1, <2>4 DEF LocInv, Taken, InUse
<1>4. CASE ScanEnd
  <2>1. /\ pc = "scan" /\ AtEnd /\ Cut("options") /\ UNCHANGED <<args, k, s, p>>
        /\ pc' \in {"options", "exit"}
    BY <1>4 DEF ScanEnd, Cut
  <2>2. arg' = arg
    BY <1>b, <2>1
  <2>3. ASSUME pc' = "options" PROVE Taken'
    <3>1. Holds(cacheloc', n', RunsBefore(arg, p + 1))
      BY <2>1, <2>3, CutHolds
    <3>2. RunsBefore(arg, p + 1) = Runs(arg)
      <4>1. \A r \in Runs(arg) : r[2] < p + 1
        BY <1>a, <2>1 DEF Runs, AtEnd
      <4> QED BY <4>1 DEF RunsBefore
    <3>3. n' \in 0 .. MAX_CACHE_LOCS /\ cacheloc_n' = n'
      BY <1>4, <1>i, <2>1, <2>3, CutEffect DEF ScanEnd
    <3> QED BY <2>1, <2>2, <3>1, <3>2, <3>3 DEF Taken, Holds
  <2> QED BY <1>i, <2>1, <2>3 DEF LocInv, Scanned, Taken, InUse
<1>5. CASE UseLocations
  <2>1. pc = "options" /\ pc' = "main" /\ UNCHANGED <<args, k, s, p, n>>
    BY <1>5 DEF UseLocations
  <2>2. arg' = arg
    BY <1>b, <2>1
  <2>3. InUse'
    <3> SUFFICES ASSUME k > 0, Runs(arg) # {}
                 PROVE  Holds(cacheloc', cacheloc_n', Runs(arg))
      BY <2>1, <2>2 DEF InUse, Holds
    <3>1. cacheloc_n = n /\ n \in Nat /\ Holds(cacheloc, n, Runs(arg))
      BY <1>i, <2>1 DEF LocInv, Taken, ScanInv, LocTypeOK
    <3>2. 1 \in 1 .. n
      BY <3>1 DEF Holds
    <3>3. cacheloc[1] \in Runs(arg)
      BY <3>1, <3>2 DEF Holds
    <3>4. arg \in Seq(Chars) /\ Len(arg) \in Nat
      BY <1>i DEF ScanInv, LocTypeOK, arg
    <3>5. cacheloc[1][1] # 0
      BY <3>3, <3>4 DEF Runs
    <3>6. cacheloc[1] # Null
      BY <3>5 DEF Null
    <3>7. UNCHANGED <<cacheloc, cacheloc_n>>
      BY <1>5, <3>6 DEF UseLocations
    <3> QED BY <2>2, <3>1, <3>7 DEF Holds
  <2> QED BY <1>i, <2>1, <2>3 DEF LocInv, Scanned, Taken
<1>6. CASE UNCHANGED locvars
  <2>1. arg' = arg
    BY <1>6, <1>b DEF locvars
  <2> QED BY <1>6, <1>i, <2>1 DEF locvars, LocInv, Scanned, Taken, InUse, Holds
<1> QED BY <1>1, <1>2, <1>3, <1>4, <1>5, <1>6 DEF LocNext

(* The locations that main uses, of the scan alone. *)
LEMMA UsedThm == LocSpec => []LastOptionCounts
<1>1. LocInv => LastOptionCounts
  <2> SUFFICES ASSUME LocInv, pc = "main", k > 0, Locations(arg) # {}, ~EscapesComma(arg)
               PROVE  Holds(cacheloc, cacheloc_n, Locations(arg))
    BY DEF LastOptionCounts, Holds
  <2>1. arg \in Seq(Chars)
    BY DEF LocInv, ScanInv, LocTypeOK, arg
  <2>2. Locations(arg) = Runs(arg)
    BY <2>1, RunsAreLocations
  <2> QED BY <2>2 DEF LocInv, InUse
<1> QED BY InitLocInv, NextLocInv, <1>1, PTL DEF LocSpec

-----------------------------------------------------------------------------
(* Every step of main is a step of one part that leaves the other alone. *)
LEMMA OptImplements == OptSpec => Spec /\ LocSpec
<1>1. OptInit => Init /\ LocInit
  BY DEF OptInit
<1>2. [OptNext]_optvars => [Next]_vars /\ [LocNext]_locvars
  BY DEF OptNext, ProcessArg, Tune, OpenCaches, optvars, Next, LocNext
<1> QED BY <1>1, <1>2, PTL DEF OptSpec, Spec, LocSpec

(***************************************************************************)
(* For all options, cpus and estimates: jobs stays within 0 .. jobs_max    *)
(* and the sampling budget is not negative (setup_parallel_compile).       *)
(***************************************************************************)
THEOREM JobsCappedThm == OptSpec => []JobsCapped
<1>1. IInv => JobsCapped
  BY DEF IInv
<1> QED BY <1>1, IInvThm, OptImplements, PTL

(***************************************************************************)
(* A plain number in a last -j is the job count and the cap, for every     *)
(* sequence of options before it, every machine and every memory estimate. *)
(***************************************************************************)
THEOREM PlainNumberObeyedThm == OptSpec => []PlainNumberObeyed
BY ObeyThm, OptImplements, PTL

(***************************************************************************)
(* parse_cacheloc never reads beyond the argument, never makes a location  *)
(* of negative size and never writes beyond the last slot.                 *)
(***************************************************************************)
THEOREM InBoundsThm == OptSpec => []InBounds
BY ScanThm, OptImplements, PTL

(***************************************************************************)
(* The locations that main uses are those that the last -L names, all of   *)
(* them and in their order, for arguments of every length that escape no   *)
(* comma: nothing that an earlier -L left in the slots is used, and        *)
(* nothing that the last one names is lost, wherever its other backslashes *)
(* and its empty locations are.                                            *)
(***************************************************************************)
THEOREM LastOptionCountsThm == OptSpec => []LastOptionCounts
BY UsedThm, OptImplements, PTL
=============================================================================
