------------------------- MODULE CacheStamp_proofs -------------------------
(***************************************************************************)
(* The time stamp of a cache entry can be trusted, for any number of files *)
(* and parsers and however their steps and the edits interleave, as long   *)
(* as no update is torn over files a parser is still opening.              *)
(*                                                                         *)
(* The invariant follows one run.  Its mru is the newest mtime it asked    *)
(* for.  A file that changed after it was opened is newer than mru (Fresh) *)
(* and stays so when further files are opened, because those are older     *)
(* than the change (Settled): that is what an untorn update means.  So a   *)
(* file that is not newer than mru when the entry is installed has not     *)
(* changed, and what was read of it is what it is.                         *)
(***************************************************************************)
EXTENDS CacheStamp, TLAPS

Active(p) == pc[p] \notin {"idle", "done"}

(* What a run knows of a file: asked, then read, never from the future. *)
Ordered(p) ==
    /\ mru[p] <= clock
    /\ \A f \in Files :
         /\ fd[p][f] <= file[f]
         /\ at[p][f] # 0 => at[p][f] <= fd[p][f] /\ at[p][f] <= mru[p]
         /\ seen[p][f] # 0 => at[p][f] # 0 /\ at[p][f] <= seen[p][f] /\ seen[p][f] <= fd[p][f]

(* Before the profile's own fstat nothing else is open; at the end all is read. *)
Phase(p) ==
    /\ pc[p] \in {"stamp", "stat"} =>
         /\ mru[p] = 0 /\ fd[p][Main] # 0
         /\ \A f \in Files : at[p][f] = 0 /\ (f # Main => fd[p][f] = 0)
    /\ pc[p] = "parse" => \A f \in Files : fd[p][f] # 0 => at[p][f] # 0
    /\ pc[p] \in {"cached", "compile", "install"} => \A f \in Files : seen[p][f] # 0

(* A file that changed under the run is newer than all the run asked for. *)
Fresh(p) == Active(p) => \A f \in Files : Changed(p, f) => file[f] > mru[p]

(* What the run has yet to open is older than that change. *)
Settled(p) ==
    Active(p) => \A f, g \in Files : (Changed(p, f) /\ fd[p][g] = 0) => file[g] < file[f]

RunInv(p) == Ordered(p) /\ Phase(p) /\ Fresh(p) /\ Settled(p)

Past == (\A f \in Files : file[f] \in 1 .. clock) /\ entry.mtime <= clock

IInv == TypeOK /\ Past /\ (\A p \in Procs : RunInv(p)) /\ StampSound

-----------------------------------------------------------------------------
LEMMA InitIInv == Init => IInv
<1> SUFFICES ASSUME Init PROVE IInv
  OBVIOUS
<1>1. TypeOK
  BY DEF Init, TypeOK, Times, None, NoEntry
<1>2. Past /\ StampSound
  BY DEF Init, Past, StampSound, NoEntry
<1>3. ASSUME NEW p \in Procs PROVE RunInv(p)
  BY <1>3 DEF Init, RunInv, Ordered, Phase, Fresh, Settled, Active, None
<1> QED BY <1>1, <1>2, <1>3 DEF IInv

(* A run is not disturbed by steps that leave its state and the files alone. *)
LEMMA Undisturbed ==
    ASSUME NEW p \in Procs, RunInv(p),
           pc'[p] = pc[p], fd'[p] = fd[p], at'[p] = at[p], seen'[p] = seen[p],
           mru'[p] = mru[p], file' = file, clock' = clock
    PROVE  RunInv(p)'
BY DEF RunInv, Ordered, Phase, Fresh, Settled, Active, Changed

(* A step that leaves the files, the entry and the clock alone keeps the rest. *)
LEMMA EntryKept ==
    ASSUME Past, StampSound, file' = file, clock' = clock, entry' = entry
    PROVE  Past' /\ StampSound'
BY DEF Past, StampSound

(* Only the program counter of p moves, past the parse. *)
LEMMA MoveStep ==
    ASSUME IInv, NEW p \in Procs,
           Parsed(p) \/ LoadCached(p) \/ LoadCachedFails(p) \/ Compile(p) \/ SetupCachePolicy(p)
    PROVE  IInv'
<1> USE DEF IInv
<1>1. /\ UNCHANGED <<clock, file, entry, fd, at, seen, mru, start>>
      /\ \A q \in Procs : q # p => pc'[q] = pc[q]
  BY DEF TypeOK, Parsed, LoadCached, LoadCachedFails, Compile, SetupCachePolicy
<1>2. TypeOK'
  <2>1. kernel' \in Times
    BY DEF TypeOK, Parsed, LoadCached, LoadCachedFails, Compile, SetupCachePolicy
  <2>2. pc' \in [Procs -> {"idle", "stamp", "stat", "parse", "cached", "compile",
                           "install", "done"}]
    BY DEF TypeOK, Parsed, LoadCached, LoadCachedFails, Compile, SetupCachePolicy
  <2>3. stamp' \in [Procs -> Nat] /\ skip' \in [Procs -> BOOLEAN]
    BY DEF TypeOK, Parsed, LoadCached, LoadCachedFails, Compile, SetupCachePolicy
  <2> QED BY <1>1, <2>1, <2>2, <2>3 DEF TypeOK
<1>3. Past' /\ StampSound'
  BY <1>1, EntryKept
<1>4. ASSUME NEW q \in Procs, q # p PROVE RunInv(q)'
  BY <1>1, <1>4, Undisturbed
<1>5. RunInv(p)'
  <2>1. /\ pc[p] = "stamp" => pc'[p] = "stat"
        /\ pc[p] # "stamp" => /\ pc'[p] \in {"cached", "compile", "install", "done"}
                              /\ \A f \in Files : seen[p][f] # 0
        /\ Active(p)
    BY DEF TypeOK, Parsed, LoadCached, LoadCachedFails, Compile, SetupCachePolicy,
           Active, RunInv, Phase
  <2>2. Ordered(p)' /\ Phase(p)'
    BY <1>1, <2>1 DEF RunInv, Ordered, Phase
  <2>3. Fresh(p)' /\ Settled(p)'
    BY <1>1, <2>1 DEF RunInv, Fresh, Settled, Changed
  <2> QED BY <2>2, <2>3 DEF RunInv
<1> QED BY <1>2, <1>3, <1>4, <1>5

(* Nothing is open, or only the profile as it is now. *)
LEMMA BeginStep ==
    ASSUME IInv, NEW p \in Procs, Start(p) \/ Abandon(p)
    PROVE  IInv'
<1> USE DEF IInv
<1>1. /\ UNCHANGED <<clock, file, entry, kernel>>
      /\ \A q \in Procs : q # p => /\ pc'[q] = pc[q] /\ fd'[q] = fd[q] /\ at'[q] = at[q]
                                   /\ seen'[q] = seen[q] /\ mru'[q] = mru[q]
      /\ at'[p] = None /\ seen'[p] = None /\ mru'[p] = 0
      /\ \/ pc'[p] = "idle" /\ fd'[p] = None
         \/ pc'[p] = "stamp" /\ fd'[p] = [None EXCEPT ![Main] = file[Main]]
  BY DEF TypeOK, Start, Abandon, Reset
<1>2. TypeOK'
  <2>1. None \in Times /\ [None EXCEPT ![Main] = file[Main]] \in Times
    BY MainAssumption DEF None, Times, TypeOK
  <2>2. fd' \in [Procs -> Times] /\ at' \in [Procs -> Times] /\ seen' \in [Procs -> Times]
    BY <2>1 DEF TypeOK, Start, Abandon, Reset
  <2>3. stamp' \in [Procs -> Nat] /\ mru' \in [Procs -> Nat] /\ start' \in [Procs -> Nat]
    BY DEF TypeOK, Start, Abandon, Reset
  <2>5. skip' \in [Procs -> BOOLEAN]
    <3>1. skip' = [skip EXCEPT ![p] = TRUE] /\ skip \in [Procs -> BOOLEAN]
      BY DEF TypeOK, Start, Abandon, Reset
    <3> QED BY <3>1, Zenon
  <2>4. pc' \in [Procs -> {"idle", "stamp", "stat", "parse", "cached", "compile",
                           "install", "done"}]
    BY DEF TypeOK, Start, Abandon
  <2> QED BY <1>1, <2>2, <2>3, <2>4, <2>5 DEF TypeOK
<1>3. Past' /\ StampSound'
  BY <1>1, EntryKept
<1>4. ASSUME NEW q \in Procs, q # p PROVE RunInv(q)'
  BY <1>1, <1>4, Undisturbed
<1>5. RunInv(p)'
  <2>1. \A f \in Files : at'[p][f] = 0 /\ seen'[p][f] = 0 /\ file[f] \in Nat /\ file[f] # 0
    BY <1>1 DEF None, Past, TypeOK, Times
  <2>2. \A f \in Files : fd'[p][f] = 0 \/ (f = Main /\ fd'[p][f] = file[f])
    BY <1>1, MainAssumption DEF None
  <2>3. pc'[p] = "stamp" => fd'[p][Main] = file[Main]
    BY <1>1, MainAssumption DEF None
  <2>4. \A f \in Files : ~Changed(p, f)'
    BY <1>1, <2>1, <2>2 DEF Changed
  <2>5. Ordered(p)'
    BY <1>1, <2>1, <2>2 DEF Ordered, TypeOK
  <2>6. Phase(p)'
    BY <1>1, <2>1, <2>2, <2>3, MainAssumption DEF Phase
  <2> QED BY <2>4, <2>5, <2>6 DEF RunInv, Fresh, Settled
<1> QED BY <1>2, <1>3, <1>4, <1>5

(* Both ask for the time stamp of a file that has not been asked about. *)
Asked(p, f, m) ==
    /\ UpdateMruTstamp(p, f, m) /\ m # 0 /\ at[p][f] = 0
    /\ \/ pc[p] = "stat" /\ f = Main /\ m = fd[p][f] /\ fd' = fd
       \/ pc[p] = "parse" /\ m = file[f] /\ fd[p][f] = 0
          /\ fd' = [fd EXCEPT ![p][f] = m]
    /\ UNCHANGED <<clock, file, entry, kernel, seen, stamp, start>>
    /\ pc' = [pc EXCEPT ![p] = "parse"]

LEMMA AskedOne ==
    ASSUME IInv, NEW p \in Procs, StatProfile(p) \/ \E f \in Files : Include(p, f)
    PROVE  \E f \in Files, m \in Nat : Asked(p, f, m)
<1>1. CASE StatProfile(p)
  BY <1>1, MainAssumption DEF Asked, StatProfile, IInv, RunInv, Phase, TypeOK, Times
<1>2. CASE \E f \in Files : Include(p, f)
  <2>1. PICK f \in Files : Include(p, f)
    BY <1>2
  <2>2. file[f] \in Nat /\ file[f] # 0
    BY DEF IInv, Past, TypeOK, Times
  <2>3. at[p][f] = 0
    BY <2>1 DEF Include, IInv, RunInv, Ordered, TypeOK, Times
  <2>4. pc' = [pc EXCEPT ![p] = "parse"]
    BY <2>1 DEF Include, IInv, TypeOK
  <2> QED BY <2>1, <2>2, <2>3, <2>4 DEF Include, Asked
<1> QED BY <1>1, <1>2

(***************************************************************************)
(* The fstat of one more file: mru grows to the mtime of that file, which  *)
(* is older than every change the run has missed.                          *)
(***************************************************************************)
LEMMA AskStep ==
    ASSUME IInv, NEW p \in Procs, StatProfile(p) \/ \E f \in Files : Include(p, f)
    PROVE  IInv'
<1> USE DEF IInv
<1> USE DEF Asked
<1>1. PICK f \in Files, m \in Nat : Asked(p, f, m)
  BY AskedOne
<1>2. /\ at'[p][f] = m /\ \A g \in Files : g # f => at'[p][g] = at[p][g]
      /\ mru'[p] = Later(mru[p], m)
      /\ \A q \in Procs : q # p => at'[q] = at[q] /\ mru'[q] = mru[q]
                                   /\ fd'[q] = fd[q] /\ pc'[q] = pc[q]
  BY <1>1 DEF UpdateMruTstamp, TypeOK, Times
<1>3. fd'[p][f] = m /\ \A g \in Files : g # f => fd'[p][g] = fd[p][g]
  BY <1>1 DEF TypeOK, Times
<1>4. /\ mru[p] \in Nat /\ mru'[p] \in Nat /\ mru[p] <= mru'[p] /\ m <= mru'[p]
      /\ mru'[p] \in {mru[p], m}
  BY <1>2 DEF Later, TypeOK
<1>5. m <= file[f] /\ file[f] \in Nat /\ file[f] <= clock /\ clock \in Nat
  BY <1>1 DEF RunInv, Ordered, Past, TypeOK, Times
<1>6. TypeOK'
  <2>1. at' \in [Procs -> Times] /\ fd' \in [Procs -> Times]
    <3>1. at' = [at EXCEPT ![p][f] = m] /\ (fd' = fd \/ fd' = [fd EXCEPT ![p][f] = m])
      BY <1>1 DEF UpdateMruTstamp
    <3>2. at \in [Procs -> Times] /\ fd \in [Procs -> Times]
      BY DEF TypeOK
    <3>3. [at[p] EXCEPT ![f] = m] \in Times /\ [fd[p] EXCEPT ![f] = m] \in Times
      BY <3>2 DEF Times
    <3> QED BY <3>1, <3>2, <3>3
  <2>2. mru' \in [Procs -> Nat]
    BY <1>1 DEF UpdateMruTstamp, Later, TypeOK
  <2>3. skip' \in [Procs -> BOOLEAN]
    BY <1>1, Zenon DEF UpdateMruTstamp, TypeOK
  <2> QED BY <1>1, <2>1, <2>2, <2>3 DEF TypeOK
<1>7. Past' /\ StampSound'
  BY <1>1, EntryKept
<1>8. ASSUME NEW q \in Procs, q # p PROVE RunInv(q)'
  BY <1>1, <1>2, <1>8, Undisturbed
<1>9. RunInv(p)'
  <2>1. Ordered(p)'
    <3>1. ASSUME NEW g \in Files
          PROVE  /\ at[p][g] \in Nat /\ fd[p][g] \in Nat /\ seen[p][g] \in Nat
                 /\ fd[p][g] <= file[g]
                 /\ at[p][g] # 0 => at[p][g] <= fd[p][g] /\ at[p][g] <= mru[p]
                 /\ seen[p][g] # 0 => /\ at[p][g] # 0 /\ at[p][g] <= seen[p][g]
                                      /\ seen[p][g] <= fd[p][g]
      BY DEF RunInv, Ordered, TypeOK, Times
    <3>2. mru'[p] <= clock
      BY <1>4, <1>5 DEF RunInv, Ordered
    <3>3. UNCHANGED <<clock, file, seen>> /\ at[p][f] = 0
      BY <1>1
    <3>4. ASSUME NEW g \in Files
          PROVE  /\ fd'[p][g] <= file[g]
                 /\ at'[p][g] # 0 => at'[p][g] <= fd'[p][g] /\ at'[p][g] <= mru'[p]
                 /\ seen[p][g] # 0 => /\ at'[p][g] # 0 /\ at'[p][g] <= seen[p][g]
                                      /\ seen[p][g] <= fd'[p][g]
      <4>1. CASE g = f
        BY <1>2, <1>3, <1>4, <1>5, <3>1, <3>3, <4>1
      <4>2. CASE g # f
        BY <1>2, <1>3, <1>4, <3>1, <4>2
      <4> QED BY <4>1, <4>2
    <3> QED BY <3>2, <3>3, <3>4 DEF Ordered
  <2>2. Phase(p)'
    BY <1>1, <1>2, <1>3, <1>6 DEF RunInv, Phase, TypeOK
  <2>3. Active(p) /\ file' = file
    BY <1>1 DEF Active
  <2>4. ASSUME NEW g \in Files, Changed(p, g)' PROVE Changed(p, g) \/ (g = f /\ pc[p] = "stat")
    BY <1>1, <1>2, <1>3, <2>4 DEF Changed
  <2>5. Fresh(p)'
    <3> SUFFICES ASSUME NEW g \in Files, Changed(p, g)' PROVE file[g] > mru'[p]
      BY <2>3 DEF Fresh
    <3>1. file[g] \in Nat
      BY DEF TypeOK, Times
    <3>2. CASE pc[p] = "stat"
      <4>1. mru[p] = 0 /\ g = Main /\ f = Main /\ m = fd[p][Main]
        BY <1>1, <1>3, <3>2, <1>2 DEF RunInv, Phase, Changed
      <4>2. mru'[p] = m /\ m # file[g]
        BY <1>2, <1>3, <1>4, <2>3, <4>1 DEF Changed, Later
      <4> QED BY <1>5, <3>1, <4>1, <4>2
    <3>3. CASE pc[p] = "parse"
      <4>1. Changed(p, g) /\ fd[p][f] = 0 /\ m = file[f]
        BY <1>1, <2>4, <3>3
      <4>2. file[g] > mru[p] /\ file[f] < file[g]
        BY <2>3, <4>1 DEF RunInv, Fresh, Settled
      <4> QED BY <1>4, <3>1, <4>1, <4>2
    <3> QED BY <1>1, <3>2, <3>3
  <2>6. Settled(p)'
    <3> SUFFICES ASSUME NEW g \in Files, NEW h \in Files, Changed(p, g)', fd'[p][h] = 0
                 PROVE  file[h] < file[g]
      BY <2>3 DEF Settled
    <3>1. h # f /\ fd[p][h] = 0
      BY <1>1, <1>3
    <3>2. Changed(p, g)
      <4>1. CASE pc[p] = "stat" /\ g = f
        BY <1>1, <1>2, <1>3, <2>3, <4>1 DEF Changed
      <4> QED BY <2>4, <4>1
    <3> QED BY <2>3, <3>1, <3>2 DEF RunInv, Settled
  <2> QED BY <2>1, <2>2, <2>5, <2>6 DEF RunInv
<1> QED BY <1>6, <1>7, <1>8, <1>9

(* The lexer reads: what it gets lies between the fstat and now. *)
LEMMA ReadStep ==
    ASSUME IInv, NEW p \in Procs, NEW f \in Files, Read(p, f)
    PROVE  IInv'
<1> USE DEF IInv
<1>1. /\ UNCHANGED <<clock, file, entry, kernel, pc, fd, at, stamp, skip, mru, start>>
      /\ pc[p] = "parse" /\ at[p][f] # 0
      /\ seen' = [seen EXCEPT ![p][f] = fd[p][f]]
  BY DEF Read
<1>2. TypeOK'
  <2>1. seen' \in [Procs -> Times]
    BY <1>1 DEF TypeOK, Times
  <2> QED BY <1>1, <2>1 DEF TypeOK
<1>3. Past' /\ StampSound'
  BY <1>1, EntryKept
<1>4. ASSUME NEW q \in Procs, q # p PROVE RunInv(q)'
  <2>1. seen'[q] = seen[q]
    BY <1>1, <1>4 DEF TypeOK
  <2> QED BY <1>1, <2>1, Undisturbed
<1>5. RunInv(p)'
  <2>1. seen'[p][f] = fd[p][f] /\ \A g \in Files : g # f => seen'[p][g] = seen[p][g]
    BY <1>1 DEF TypeOK, Times
  <2>2. Ordered(p)'
    BY <1>1, <2>1 DEF RunInv, Ordered, TypeOK, Times
  <2>3. Phase(p)' /\ Fresh(p)' /\ Settled(p)'
    BY <1>1 DEF RunInv, Phase, Fresh, Settled, Active, Changed
  <2> QED BY <2>2, <2>3 DEF RunInv
<1> QED BY <1>2, <1>3, <1>4, <1>5

(***************************************************************************)
(* install_cache: a file not newer than mru has not changed since it was   *)
(* opened, so what was read lies between two equal values.                 *)
(***************************************************************************)
LEMMA InstallStep ==
    ASSUME IInv, NEW p \in Procs, InstallCache(p)
    PROVE  IInv'
<1> USE DEF IInv
<1>1. /\ UNCHANGED <<clock, file, kernel, fd, at, seen, stamp, skip, mru, start>>
      /\ pc[p] = "install" /\ pc' = [pc EXCEPT ![p] = "done"]
      /\ entry' = [some |-> TRUE, src |-> seen[p], mtime |-> mru[p]]
  BY DEF InstallCache
<1>2. TypeOK'
  <2>1. entry' \in [some : BOOLEAN, src : Times, mtime : Nat]
    BY <1>1 DEF TypeOK
  <2>2. pc' \in [Procs -> {"idle", "stamp", "stat", "parse", "cached", "compile",
                           "install", "done"}]
    BY <1>1 DEF TypeOK
  <2> QED BY <1>1, <2>1, <2>2 DEF TypeOK
<1>3. StampSound'
  <2> SUFFICES ASSUME NEW f \in Files, file[f] <= mru[p] PROVE seen[p][f] = file[f]
    BY <1>1 DEF StampSound
  <2>1. ~Changed(p, f)
    <3>1. Active(p) /\ Fresh(p)
      BY <1>1 DEF RunInv, Active
    <3>2. file[f] \in Nat /\ mru[p] \in Nat
      BY DEF TypeOK, Times
    <3> QED BY <3>1, <3>2 DEF Fresh
  <2>2. seen[p][f] # 0
    BY <1>1 DEF RunInv, Phase
  <2>3. at[p][f] # 0 /\ at[p][f] <= seen[p][f] /\ seen[p][f] <= fd[p][f] /\ fd[p][f] <= file[f]
    BY <2>2 DEF RunInv, Ordered
  <2> QED BY <2>1, <2>3 DEF Changed, TypeOK, Times
<1>4. Past'
  BY <1>1 DEF Past, RunInv, Ordered
<1>5. ASSUME NEW q \in Procs, q # p PROVE RunInv(q)'
  <2>1. pc'[q] = pc[q]
    BY <1>1, <1>5 DEF TypeOK
  <2> QED BY <1>1, <2>1, Undisturbed
<1>6. RunInv(p)'
  <2>1. pc'[p] = "done"
    BY <1>1 DEF TypeOK
  <2> QED BY <1>1, <2>1 DEF RunInv, Ordered, Phase, Fresh, Settled, Active
<1> QED BY <1>2, <1>3, <1>4, <1>5, <1>6

(* --purge-cache: without an entry there is nothing to trust. *)
LEMMA PurgeStep == ASSUME IInv, Purge PROVE IInv'
<1> USE DEF IInv
<1>1. UNCHANGED <<clock, file, kernel, pc, fd, at, seen, stamp, skip, mru, start>>
      /\ entry' = NoEntry
  BY DEF Purge, parser
<1>2. TypeOK'
  <2>1. entry' \in [some : BOOLEAN, src : Times, mtime : Nat]
    BY <1>1 DEF NoEntry, None, Times
  <2> QED BY <1>1, <2>1 DEF TypeOK
<1>3. Past' /\ StampSound'
  BY <1>1 DEF Past, StampSound, NoEntry, TypeOK
<1>4. ASSUME NEW q \in Procs PROVE RunInv(q)'
  BY <1>1, Undisturbed
<1> QED BY <1>2, <1>3, <1>4

(***************************************************************************)
(* An edit: the file becomes newer than the entry and than every mru; a    *)
(* run that has yet to open it has missed no change so far.                *)
(***************************************************************************)
LEMMA EditStep ==
    ASSUME IInv, ~TornUpdates, NEW f \in Files, NEW inplace \in BOOLEAN, Edit(f, inplace)
    PROVE  IInv'
<1> USE DEF IInv
<1> DEFINE now == clock + 1
<1>1. /\ UNCHANGED <<entry, kernel, pc, at, seen, stamp, skip, mru, start>>
      /\ clock' = now /\ file' = [file EXCEPT ![f] = now]
      /\ fd' = [p \in Procs |-> [fd[p] EXCEPT ![f] =
                   IF inplace /\ @ # 0 /\ @ = file[f] THEN now ELSE @]]
  BY DEF Edit
<1>2. clock \in Nat /\ now \in Nat /\ now > clock
  BY DEF TypeOK
<1>3. file'[f] = now /\ \A g \in Files : g # f => file'[g] = file[g]
  BY <1>1 DEF TypeOK, Times
<1>4. \A g \in Files : file[g] \in 1 .. clock
  BY DEF Past
<1>5. TypeOK'
  <2>1. file' \in Times /\ fd' \in [Procs -> Times]
    BY <1>1, <1>2 DEF TypeOK, Times
  <2> QED BY <1>1, <1>2, <2>1 DEF TypeOK
<1>6. Past'
  BY <1>1, <1>2, <1>3, <1>4 DEF Past, TypeOK
<1>7. StampSound'
  <2> SUFFICES ASSUME entry.some, NEW g \in Files, file'[g] <= entry.mtime
               PROVE  entry.src[g] = file'[g]
    BY <1>1 DEF StampSound
  <2>1. g # f
    BY <1>2, <1>3 DEF Past, TypeOK
  <2> QED BY <1>3, <2>1 DEF StampSound
<1>8. ASSUME NEW p \in Procs PROVE RunInv(p)'
  <2>1. /\ \A g \in Files : g # f => fd'[p][g] = fd[p][g]
        /\ \/ fd'[p][f] = fd[p][f]
           \/ fd'[p][f] = now /\ fd[p][f] # 0 /\ fd[p][f] = file[f]
    BY <1>1 DEF TypeOK, Times
  <2>2. /\ mru[p] \in Nat
        /\ \A g \in Files : /\ fd[p][g] \in Nat /\ at[p][g] \in Nat /\ seen[p][g] \in Nat
                            /\ file[g] \in Nat /\ file'[g] \in Nat /\ file[g] <= file'[g]
                            /\ fd[p][g] <= fd'[p][g] /\ fd'[p][g] <= file'[g]
                            /\ (fd'[p][g] = 0 <=> fd[p][g] = 0)
    <3>1. \A g \in Files : fd[p][g] <= file[g]
      BY DEF RunInv, Ordered
    <3>2. /\ mru[p] \in Nat
          /\ \A g \in Files : /\ fd[p][g] \in Nat /\ at[p][g] \in Nat /\ seen[p][g] \in Nat
                              /\ file[g] \in Nat
      BY DEF TypeOK, Times
    <3>3. /\ file'[f] \in Nat /\ file[f] <= file'[f] /\ fd[p][f] <= fd'[p][f]
          /\ fd'[p][f] <= file'[f] /\ (fd'[p][f] = 0 <=> fd[p][f] = 0)
      BY <1>2, <1>3, <1>4, <2>1, <3>1, <3>2
    <3>4. ASSUME NEW g \in Files, g # f
          PROVE  file'[g] = file[g] /\ fd'[p][g] = fd[p][g]
      BY <1>3, <2>1, <3>4
    <3> QED BY <3>1, <3>2, <3>3, <3>4
  <2>3. Ordered(p)'
    BY <1>1, <1>2, <2>2 DEF RunInv, Ordered
  <2>4. Phase(p)'
    BY <1>1, <2>2, MainAssumption DEF RunInv, Phase
  <2>5. ASSUME NEW g \in Files, g # f PROVE Changed(p, g)' <=> Changed(p, g)
    BY <1>1, <1>3, <2>1, <2>5 DEF Changed
  <2>6. mru[p] <= clock
    BY DEF RunInv, Ordered
  <2>7. Fresh(p)'
    <3> SUFFICES ASSUME Active(p), NEW g \in Files, Changed(p, g)' PROVE file'[g] > mru[p]
      BY <1>1 DEF Fresh, Active
    <3>1. CASE g = f
      BY <1>2, <1>3, <2>2, <2>6, <3>1
    <3>2. CASE g # f
      BY <1>3, <2>5, <3>2 DEF RunInv, Fresh
    <3> QED BY <3>1, <3>2
  <2>8. Settled(p)'
    <3> SUFFICES ASSUME Active(p), NEW g \in Files, NEW h \in Files,
                        Changed(p, g)', fd'[p][h] = 0
                 PROVE  file'[h] < file'[g]
      BY <1>1 DEF Settled, Active
    <3>1. fd[p][h] = 0
      BY <2>2
    <3>2. CASE h = f
      <4>1. \A k \in Files : ~Changed(p, k)
        BY <3>1, <3>2 DEF Edit, Active
      <4>2. g = f
        BY <2>5, <4>1
      <4>3. at[p][f] = 0
        BY <3>1, <3>2 DEF RunInv, Ordered, TypeOK, Times
      <4>4. at'[p][f] = 0
        BY <1>1, <4>3
      <4> QED BY <3>2, <4>2, <4>4 DEF Changed
    <3>3. CASE h # f /\ g = f
      BY <1>2, <1>3, <1>4, <3>3
    <3>4. CASE h # f /\ g # f
      BY <1>3, <2>5, <3>1, <3>4 DEF RunInv, Settled
    <3> QED BY <3>2, <3>3, <3>4
  <2> QED BY <2>3, <2>4, <2>7, <2>8 DEF RunInv
<1> QED BY <1>5, <1>6, <1>7, <1>8

LEMMA NextIInv == ASSUME ~TornUpdates PROVE IInv /\ [Next]_vars => IInv'
<1> SUFFICES ASSUME IInv, [Next]_vars PROVE IInv'
  OBVIOUS
<1>1. ASSUME NEW p \in Procs, Run(p) PROVE IInv'
  BY <1>1, MoveStep, BeginStep, AskStep, ReadStep, InstallStep DEF Run
<1>2. ASSUME NEW f \in Files, NEW inplace \in BOOLEAN, Edit(f, inplace) PROVE IInv'
  BY <1>2, EditStep
<1>3. CASE UNCHANGED vars
  <2>1. ASSUME NEW q \in Procs PROVE RunInv(q)'
    BY <1>3, Undisturbed DEF vars, parser, IInv
  <2>2. Past' /\ StampSound' /\ TypeOK'
    BY <1>3, EntryKept DEF vars, parser, IInv, TypeOK
  <2> QED BY <2>1, <2>2 DEF IInv
<1> QED BY <1>1, <1>2, <1>3, PurgeStep DEF Next

(***************************************************************************)
(* For any files, parsers and edits that are not torn: a file that is not  *)
(* newer than the cache entry is the one the entry was compiled from.      *)
(***************************************************************************)
THEOREM StampSoundThm == ASSUME ~TornUpdates PROVE Spec => []StampSound
<1>1. IInv => StampSound
  BY DEF IInv
<1>2. IInv /\ [Next]_vars => IInv'
  BY NextIInv
<1> QED BY <1>1, <1>2, InitIInv, PTL DEF Spec

-----------------------------------------------------------------------------
(***************************************************************************)
(* What a run loads.  A version of a file that some run has opened or      *)
(* asked about, and that is later than the one q has, came after q opened  *)
(* the file.  It is later than all q asked for, and than every file q has  *)
(* yet to open (Beyond).  So an entry holds no version older than one that *)
(* its time stamp covers (Covers), which is what a hit relies on.          *)
(***************************************************************************)
Has(q, f) == IF at[q][f] # 0 THEN at[q][f] ELSE fd[q][f]

Beyond(q) ==
    Active(q) => \A p \in Procs, f \in Files :
        \A v \in {at[p][f], fd[p][f]} :
            (Has(q, f) # 0 /\ v > Has(q, f)) =>
                v > mru[q] /\ \A g \in Files : fd[q][g] = 0 => file[g] < v

Covers ==
    entry.some => /\ entry.mtime # 0
                  /\ \A p \in Procs, f \in Files : \A v \in {at[p][f], fd[p][f]} :
                        v <= entry.mtime => v <= entry.src[f]

(* A run that may still use the entry has compared all it asked about. *)
Compared(p) ==
    /\ (Active(p) /\ ~skip[p]) => stamp[p] # 0 /\ \A f \in Files : at[p][f] <= stamp[p]
    /\ pc[p] = "stamp" => skip[p]
    /\ pc[p] = "cached" => ~skip[p]

HitInv == Covers /\ \A p \in Procs : Beyond(p) /\ Compared(p)

(* Nobody else has run since the start, and nothing has been edited. *)
Alone(p) == start[p] = clock /\ \A q \in Procs \ {p} : start[q] = 0

Effective(p) ==
    Alone(p) =>
        /\ Active(p) => \A f \in Files : {fd[p][f], at[p][f], seen[p][f]} \subseteq {0, file[f]}
        /\ (pc[p] \in {"stat", "parse", "cached"} /\ ~skip[p] /\ entry.some)
               => entry.mtime = stamp[p]
        /\ pc[p] \in {"install", "done"} => kernel = file

Started == \A p \in Procs : start[p] <= clock /\ (start[p] = 0 => pc[p] = "idle")

RunsInv == Started /\ \A p \in Procs : Effective(p)

LoadInv == IInv /\ HitInv /\ RunsInv

-----------------------------------------------------------------------------
LEMMA Numbers ==
    ASSUME IInv, NEW p \in Procs, NEW f \in Files
    PROVE  /\ at[p][f] \in Nat /\ fd[p][f] \in Nat /\ seen[p][f] \in Nat /\ Has(p, f) \in Nat
           /\ file[f] \in Nat /\ mru[p] \in Nat /\ stamp[p] \in Nat /\ start[p] \in Nat
           /\ clock \in Nat /\ clock > 0 /\ entry.mtime \in Nat /\ entry.src[f] \in Nat
           /\ at[p][f] <= file[f] /\ fd[p][f] <= file[f] /\ 0 < file[f] /\ file[f] <= clock
<1>1. /\ at[p][f] \in Nat /\ fd[p][f] \in Nat /\ seen[p][f] \in Nat
      /\ file[f] \in Nat /\ mru[p] \in Nat /\ stamp[p] \in Nat /\ start[p] \in Nat
      /\ clock \in Nat /\ entry.mtime \in Nat /\ entry.src[f] \in Nat
  BY DEF IInv, TypeOK, Times
<1>2. file[f] \in 1 .. clock /\ fd[p][f] <= file[f] /\ (at[p][f] # 0 => at[p][f] <= fd[p][f])
  BY DEF IInv, Past, RunInv, Ordered
<1> QED BY <1>1, <1>2 DEF Has

(* No step but an edit makes a version, and new is only the current one. *)
OnlyCurrent ==
    \A p \in Procs, f \in Files :
        {at'[p][f], fd'[p][f]} \subseteq {0, file[f], at[p][f], fd[p][f]}

LEMMA BeyondKept ==
    ASSUME IInv, NEW q \in Procs, Beyond(q), file' = file, OnlyCurrent,
           Active(q)' => Active(q), fd'[q] = fd[q], at'[q] = at[q], mru'[q] = mru[q]
    PROVE  Beyond(q)'
<1> SUFFICES ASSUME Active(q), NEW p \in Procs, NEW f \in Files,
                    NEW v \in {at'[p][f], fd'[p][f]}, Has(q, f) # 0, v > Has(q, f)
             PROVE  v > mru[q] /\ \A g \in Files : fd[q][g] = 0 => file[g] < v
  BY DEF Beyond, Has
<1>1. v \in {0, file[f], at[p][f], fd[p][f]} /\ Has(q, f) \in Nat /\ file[f] \in Nat
  BY Numbers DEF OnlyCurrent
<1>2. CASE v = file[f]
  <2>1. Changed(q, f)
    BY <1>1, <1>2 DEF Changed, Has
  <2> QED BY <1>2, <2>1 DEF IInv, RunInv, Fresh, Settled
<1>3. CASE v \in {at[p][f], fd[p][f]}
  BY <1>3 DEF Beyond
<1> QED BY <1>1, <1>2, <1>3

LEMMA CoversKept ==
    ASSUME IInv, Covers, file' = file, entry' = entry, OnlyCurrent
    PROVE  Covers'
<1> SUFFICES ASSUME entry.some, NEW p \in Procs, NEW f \in Files,
                    NEW v \in {at'[p][f], fd'[p][f]}, v <= entry.mtime
             PROVE  v <= entry.src[f]
  BY DEF Covers
<1>1. v \in {0, file[f], at[p][f], fd[p][f]} /\ entry.src[f] \in Nat
  BY Numbers DEF OnlyCurrent
<1>2. CASE v = file[f]
  BY <1>1, <1>2 DEF IInv, StampSound
<1>3. CASE v \in {at[p][f], fd[p][f]}
  BY <1>3 DEF Covers
<1> QED BY <1>1, <1>2, <1>3

(* A run that has begun is nobody else's lonely run. *)
LEMMA NotAlone ==
    ASSUME NEW p \in Procs, NEW q \in Procs, q # p, start'[p] # 0
    PROVE  Effective(q)'
BY DEF Effective, Alone

LEMMA InitLoadInv == Init => LoadInv
<1> SUFFICES ASSUME Init PROVE LoadInv
  OBVIOUS
<1>1. HitInv
  BY DEF Init, HitInv, Covers, Beyond, Compared, Active, NoEntry
<1>2. RunsInv
  BY DEF Init, RunsInv, Started, Effective, Alone
<1> QED BY <1>1, <1>2, InitIInv DEF LoadInv

(***************************************************************************)
(* The steps past the parse and the look at the entry's time stamp.  A     *)
(* cached binary that an undisturbed run loads is the one whose time stamp *)
(* it compared, and covers all its files.                                  *)
(***************************************************************************)
LEMMA MoveLoads ==
    ASSUME LoadInv, NEW p \in Procs,
           Parsed(p) \/ LoadCached(p) \/ LoadCachedFails(p) \/ Compile(p) \/ SetupCachePolicy(p)
    PROVE  HitInv' /\ RunsInv'
<1> USE DEF LoadInv
<1>1. /\ UNCHANGED <<clock, file, entry, fd, at, seen, mru, start>>
      /\ \A q \in Procs : q # p => /\ pc'[q] = pc[q]
                                   /\ stamp'[q] = stamp[q] /\ skip'[q] = skip[q]
  BY DEF IInv, TypeOK, Parsed, LoadCached, LoadCachedFails, Compile, SetupCachePolicy
<1>2. Active(p) /\ start[p] # 0
  BY DEF Active, RunsInv, Started, Parsed, LoadCached, LoadCachedFails, Compile, SetupCachePolicy
<1>3. Covers' /\ \A q \in Procs : Beyond(q)'
  <2>1. OnlyCurrent
    BY <1>1 DEF OnlyCurrent
  <2>2. ASSUME NEW q \in Procs PROVE Active(q)' => Active(q)
    BY <1>1, <1>2 DEF Active
  <2> QED BY <1>1, <2>1, <2>2, BeyondKept, CoversKept DEF HitInv
<1>4. Compared(p)'
  <2>1. CASE SetupCachePolicy(p)
    <3>1. pc[p] = "stamp" /\ skip[p] /\ pc'[p] = "stat"
      BY <2>1 DEF SetupCachePolicy, IInv, TypeOK, HitInv, Compared
    <3>2. ASSUME ~skip'[p] PROVE entry.some /\ stamp'[p] = entry.mtime
      BY <2>1, <3>1, <3>2 DEF SetupCachePolicy, IInv, TypeOK
    <3>3. ASSUME ~skip'[p], NEW f \in Files PROVE at'[p][f] <= stamp'[p] /\ stamp'[p] # 0
      <4>1. at[p][f] = 0
        BY <3>1 DEF IInv, RunInv, Phase
      <4> QED BY <1>1, <3>2, <3>3, <4>1, Numbers DEF HitInv, Covers
    <3> QED BY <3>1, <3>3, MainAssumption DEF Compared
  <2>2. CASE ~SetupCachePolicy(p)
    <3>1. UNCHANGED <<stamp, skip>> /\ pc'[p] # "stamp"
      BY <2>2 DEF Parsed, LoadCached, LoadCachedFails, Compile, IInv, TypeOK
    <3>2. pc'[p] = "cached" => ~skip[p]
      BY <2>2 DEF Parsed, LoadCached, LoadCachedFails, Compile, IInv, TypeOK
    <3> QED BY <1>1, <1>2, <3>1, <3>2 DEF HitInv, Compared, Active
  <2> QED BY <2>1, <2>2
<1>5. ASSUME NEW q \in Procs, q # p PROVE Compared(q)'
  BY <1>1, <1>5 DEF HitInv, Compared, Active
<1>6. Started'
  BY <1>1, <1>2 DEF RunsInv, Started
<1>7. Effective(p)'
  <2> SUFFICES ASSUME Alone(p)
               PROVE  /\ \A f \in Files : {fd[p][f], at[p][f], seen[p][f]} \subseteq {0, file[f]}
                      /\ (pc'[p] \in {"stat", "parse", "cached"} /\ ~skip'[p] /\ entry.some)
                             => entry.mtime = stamp'[p]
                      /\ pc'[p] \in {"install", "done"} => kernel' = file
    BY <1>1 DEF Effective, Alone
  <2>1. \A f \in Files : {fd[p][f], at[p][f], seen[p][f]} \subseteq {0, file[f]}
    BY <1>2 DEF RunsInv, Effective
  <2>2. (pc'[p] \in {"stat", "parse", "cached"} /\ ~skip'[p] /\ entry.some)
            => entry.mtime = stamp'[p]
    <3>1. CASE SetupCachePolicy(p)
      BY <3>1 DEF SetupCachePolicy, IInv, TypeOK, HitInv, Compared
    <3>2. CASE ~SetupCachePolicy(p)
      <4>1. UNCHANGED <<stamp, skip>> /\ (pc'[p] \in {"stat", "parse", "cached"} => pc[p] = "parse")
        BY <3>2 DEF Parsed, LoadCached, LoadCachedFails, Compile, IInv, TypeOK
      <4> QED BY <4>1 DEF RunsInv, Effective
    <3> QED BY <3>1, <3>2
  <2>3. ASSUME pc'[p] \in {"install", "done"} PROVE kernel' = file
    <3>1. pc[p] \in {"cached", "compile"} /\ \A f \in Files : seen[p][f] = file[f] /\ at[p][f] = file[f]
      <4>1. pc[p] \in {"cached", "compile"}
        BY <2>3 DEF Parsed, LoadCached, LoadCachedFails, Compile, SetupCachePolicy, IInv, TypeOK
      <4>2. \A f \in Files : seen[p][f] # 0 /\ at[p][f] # 0
        BY <4>1 DEF IInv, RunInv, Phase, Ordered
      <4> QED BY <2>1, <4>1, <4>2
    <3>2. file \in Times /\ entry.src \in Times /\ seen[p] \in Times
      BY DEF IInv, TypeOK
    <3>3. CASE Compile(p)
      BY <3>1, <3>2, <3>3 DEF Compile, Times
    <3>4. CASE LoadCached(p)
      <4>1. entry.some /\ kernel' = entry.src /\ ~skip[p] /\ entry.mtime = stamp[p]
        BY <3>4 DEF LoadCached, HitInv, Compared, RunsInv, Effective
      <4>2. ASSUME NEW f \in Files PROVE entry.src[f] = file[f]
        <5>1. at[p][f] <= stamp[p]
          BY <1>2, <4>1 DEF HitInv, Compared
        <5> QED BY <3>1, <4>1, <5>1 DEF IInv, StampSound
      <4> QED BY <3>2, <4>1, <4>2 DEF Times
    <3> QED BY <2>3, <3>1, <3>3, <3>4 DEF Parsed, LoadCachedFails, SetupCachePolicy, IInv, TypeOK
  <2> QED BY <2>1, <2>2, <2>3
<1>8. ASSUME NEW q \in Procs, q # p PROVE Effective(q)'
  BY <1>1, <1>2, <1>8, NotAlone
<1> QED BY <1>3, <1>4, <1>5, <1>6, <1>7, <1>8 DEF HitInv, RunsInv

LEMMA BeginLoads ==
    ASSUME LoadInv, NEW p \in Procs, Start(p) \/ Abandon(p)
    PROVE  HitInv' /\ RunsInv'
<1> USE DEF LoadInv
<1>1. /\ UNCHANGED <<clock, file, entry, kernel>>
      /\ \A q \in Procs : q # p =>
           /\ pc'[q] = pc[q] /\ fd'[q] = fd[q] /\ at'[q] = at[q] /\ seen'[q] = seen[q]
           /\ mru'[q] = mru[q] /\ stamp'[q] = stamp[q] /\ skip'[q] = skip[q] /\ start'[q] = start[q]
      /\ at'[p] = None /\ seen'[p] = None /\ mru'[p] = 0 /\ skip'[p]
  BY DEF IInv, TypeOK, Start, Abandon, Reset
<1>2. \/ pc'[p] = "idle" /\ fd'[p] = None /\ start' = start /\ pc[p] # "idle"
      \/ pc'[p] = "stamp" /\ fd'[p] = [None EXCEPT ![Main] = file[Main]] /\ start'[p] = clock
  BY DEF IInv, TypeOK, Start, Abandon
<1>3. \A f \in Files : at'[p][f] = 0 /\ seen'[p][f] = 0 /\ fd'[p][f] \in {0, file[f]}
  BY <1>1, <1>2, MainAssumption DEF None
<1>4. OnlyCurrent
  BY <1>1, <1>3 DEF OnlyCurrent
<1>5. Covers'
  BY <1>1, <1>4, CoversKept DEF HitInv
<1>6. ASSUME NEW q \in Procs, q # p PROVE Beyond(q)' /\ Compared(q)'
  <2>1. Active(q)' => Active(q)
    BY <1>1, <1>6 DEF Active
  <2>2. Beyond(q)'
    BY <1>1, <1>4, <1>6, <2>1, BeyondKept DEF HitInv
  <2> QED BY <1>1, <1>6, <2>1, <2>2 DEF HitInv, Compared
<1>7. Compared(p)'
  BY <1>1, <1>2 DEF Compared
<1>8. Beyond(p)'
  <2> SUFFICES ASSUME NEW q \in Procs, NEW f \in Files, NEW v \in {at'[q][f], fd'[q][f]},
                      Has(p, f)' # 0, v > Has(p, f)'
               PROVE  FALSE
    BY DEF Beyond
  <2>1. Has(p, f)' = file[f]
    BY <1>3 DEF Has
  <2>2. v \in {0, file[f], at[q][f], fd[q][f]}
    BY <1>4 DEF OnlyCurrent
  <2> QED BY <2>1, <2>2, Numbers
<1>9. start'[p] # 0 /\ Started'
  <2>1. clock \in Nat /\ clock > 0 /\ start[p] \in Nat
    BY Numbers, MainAssumption
  <2>2. start'[p] # 0 /\ start'[p] <= clock
    BY <1>2, <2>1 DEF RunsInv, Started
  <2> QED BY <1>1, <2>2 DEF RunsInv, Started
<1>10. Effective(p)'
  BY <1>1, <1>2, <1>3 DEF Effective, Active
<1>11. ASSUME NEW q \in Procs, q # p PROVE Effective(q)'
  BY <1>9, <1>11, NotAlone
<1> QED BY <1>5, <1>6, <1>7, <1>8, <1>9, <1>10, <1>11 DEF HitInv, RunsInv

(***************************************************************************)
(* One more file is asked about: it was not open, so it is older than the  *)
(* versions that are beyond the run.                                       *)
(***************************************************************************)
LEMMA AskLoads ==
    ASSUME LoadInv, NEW p \in Procs, StatProfile(p) \/ \E f \in Files : Include(p, f)
    PROVE  HitInv' /\ RunsInv'
<1> USE DEF LoadInv
<1> USE DEF Asked
<1>1. PICK f \in Files, m \in Nat : Asked(p, f, m)
  BY AskedOne
<1>2. /\ at'[p][f] = m /\ \A g \in Files : g # f => at'[p][g] = at[p][g]
      /\ mru'[p] = Later(mru[p], m) /\ pc'[p] = "parse"
      /\ \A q \in Procs : q # p => /\ at'[q] = at[q] /\ mru'[q] = mru[q] /\ fd'[q] = fd[q]
                                   /\ pc'[q] = pc[q] /\ skip'[q] = skip[q]
  BY <1>1 DEF UpdateMruTstamp, IInv, TypeOK, Times
<1>3. fd'[p][f] = m /\ \A g \in Files : g # f => fd'[p][g] = fd[p][g]
  BY <1>1 DEF IInv, TypeOK, Times
<1>4. ~skip'[p] => ~skip[p] /\ ~(stamp[p] # 0 /\ m > stamp[p])
  <2>1. skip' = [skip EXCEPT ![p] = skip[p] \/ (stamp[p] # 0 /\ m > stamp[p])]
        /\ skip \in [Procs -> BOOLEAN]
    BY <1>1 DEF UpdateMruTstamp, IInv, TypeOK
  <2>2. skip'[p] = (skip[p] \/ (stamp[p] # 0 /\ m > stamp[p]))
    BY <2>1, Zenon
  <2> QED BY <2>2
<1>5. OnlyCurrent
  <2>1. ASSUME NEW g \in Files PROVE {at'[p][g], fd'[p][g]} \subseteq {0, file[g], at[p][g], fd[p][g]}
    BY <1>1, <1>2, <1>3
  <2> QED BY <1>2, <2>1 DEF OnlyCurrent
<1>6. Covers'
  BY <1>1, <1>5, CoversKept DEF HitInv
<1>7. ASSUME NEW q \in Procs, q # p PROVE Beyond(q)' /\ Compared(q)'
  <2>1. Active(q)' => Active(q)
    BY <1>2, <1>7 DEF Active
  <2>2. Beyond(q)'
    BY <1>1, <1>2, <1>5, <1>7, <2>1, BeyondKept DEF HitInv
  <2> QED BY <1>1, <1>2, <1>7, <2>1, <2>2 DEF HitInv, Compared
<1>8. Active(p) /\ start[p] # 0
  BY <1>1 DEF Active, RunsInv, Started
<1>9. Compared(p)'
  <2>1. ASSUME ~skip'[p], NEW g \in Files PROVE at'[p][g] <= stamp[p] /\ stamp[p] # 0
    <3>1. stamp[p] # 0 /\ at[p][g] <= stamp[p] /\ stamp[p] \in Nat
      BY <1>4, <1>8, <2>1, Numbers DEF HitInv, Compared
    <3> QED BY <1>2, <1>4, <2>1, <3>1
  <2> QED BY <1>1, <1>2, <2>1, MainAssumption DEF Compared
<1>10. Beyond(p)'
  <2> SUFFICES ASSUME NEW q \in Procs, NEW g \in Files, NEW v \in {at'[q][g], fd'[q][g]},
                      Has(p, g)' # 0, v > Has(p, g)'
               PROVE  v > mru'[p] /\ \A h \in Files : fd'[p][h] = 0 => file[h] < v
    BY <1>1 DEF Beyond
  <2>1. v \in {0, file[g], at[q][g], fd[q][g]} /\ v \in Nat /\ v <= file[g]
    BY <1>5, Numbers DEF OnlyCurrent
  <2>2. Has(p, g)' = Has(p, g) \/ Has(p, g)' = file[g]
    BY <1>1, <1>2, <1>3 DEF Has
  <2>3. Has(p, g)' = Has(p, g) /\ Has(p, g) \in Nat
    BY <2>1, <2>2, Numbers
  <2>4. v > mru[p] /\ \A h \in Files : fd[p][h] = 0 => file[h] < v
    <3>1. CASE v = file[g]
      <4>1. Changed(p, g)
        BY <2>3, <3>1 DEF Changed, Has
      <4> QED BY <1>8, <3>1, <4>1 DEF IInv, RunInv, Fresh, Settled
    <3>2. CASE v \in {at[q][g], fd[q][g]}
      BY <1>8, <2>3, <3>2 DEF HitInv, Beyond
    <3> QED BY <2>1, <2>3, <3>1, <3>2
  <2>5. m < v
    <3>1. CASE pc[p] = "stat"
      <4>1. \A h \in Files : at[p][h] = 0 /\ (h # Main => fd[p][h] = 0)
        BY <3>1 DEF IInv, RunInv, Phase
      <4>2. g = Main
        BY <2>3, <4>1 DEF Has
      <4> QED BY <1>1, <2>3, <3>1, <4>1, <4>2 DEF Has
    <3>2. CASE pc[p] = "parse"
      BY <1>1, <2>4, <3>2
    <3> QED BY <1>1, <3>1, <3>2
  <2>6. v > mru'[p]
    BY <1>2, <2>1, <2>4, <2>5, Numbers DEF Later
  <2>7. ASSUME NEW h \in Files, fd'[p][h] = 0 PROVE file[h] < v
    BY <1>1, <1>3, <2>4, <2>7
  <2> QED BY <2>6, <2>7
<1>11. Started'
  BY <1>1, <1>2, <1>8 DEF RunsInv, Started
<1>12. Effective(p)'
  <2> SUFFICES ASSUME Alone(p)
               PROVE  /\ \A g \in Files : {fd'[p][g], at'[p][g], seen[p][g]} \subseteq {0, file[g]}
                      /\ (~skip'[p] /\ entry.some) => entry.mtime = stamp[p]
    BY <1>1, <1>2 DEF Effective, Alone
  <2>1. ASSUME NEW g \in Files PROVE {fd[p][g], at[p][g], seen[p][g]} \subseteq {0, file[g]}
    BY <1>8 DEF RunsInv, Effective
  <2>2. ASSUME NEW g \in Files PROVE {fd'[p][g], at'[p][g], seen[p][g]} \subseteq {0, file[g]}
    BY <1>1, <1>2, <1>3, <2>1
  <2> QED BY <1>1, <1>4, <2>2 DEF RunsInv, Effective
<1>13. ASSUME NEW q \in Procs, q # p PROVE Effective(q)'
  BY <1>1, <1>8, <1>13, NotAlone
<1> QED BY <1>6, <1>7, <1>9, <1>10, <1>11, <1>12, <1>13 DEF HitInv, RunsInv

LEMMA ReadLoads ==
    ASSUME LoadInv, NEW p \in Procs, NEW f \in Files, Read(p, f)
    PROVE  HitInv' /\ RunsInv'
<1> USE DEF LoadInv
<1>1. /\ UNCHANGED <<clock, file, entry, kernel, pc, fd, at, stamp, skip, mru, start>>
      /\ pc[p] = "parse" /\ seen' = [seen EXCEPT ![p][f] = fd[p][f]]
  BY DEF Read
<1>2. Active(p) /\ start[p] # 0
  BY <1>1 DEF Active, RunsInv, Started
<1>3. HitInv'
  BY <1>1 DEF HitInv, Covers, Beyond, Compared, Active, Has
<1>4. Effective(p)'
  <2>1. seen'[p][f] = fd[p][f] /\ \A g \in Files : g # f => seen'[p][g] = seen[p][g]
    BY <1>1 DEF IInv, TypeOK, Times
  <2>2. ASSUME Alone(p), NEW g \in Files
        PROVE  {fd[p][g], at[p][g], seen'[p][g]} \subseteq {0, file[g]}
    <3>1. \A h \in Files : {fd[p][h], at[p][h], seen[p][h]} \subseteq {0, file[h]}
      BY <1>2, <2>2 DEF RunsInv, Effective
    <3> QED BY <2>1, <3>1
  <2> QED BY <1>1, <2>2 DEF RunsInv, Effective, Alone
<1>5. ASSUME NEW q \in Procs, q # p PROVE Effective(q)'
  BY <1>1, <1>2, <1>5, NotAlone
<1> QED BY <1>1, <1>3, <1>4, <1>5 DEF RunsInv, Started

(***************************************************************************)
(* install_cache: a version that the new time stamp covers is not beyond   *)
(* this run, so it is not later than the one the run asked about and read. *)
(***************************************************************************)
LEMMA InstallLoads ==
    ASSUME LoadInv, NEW p \in Procs, InstallCache(p)
    PROVE  HitInv' /\ RunsInv'
<1> USE DEF LoadInv
<1>1. /\ UNCHANGED <<clock, file, kernel, fd, at, seen, stamp, skip, mru, start>>
      /\ pc[p] = "install" /\ pc' = [pc EXCEPT ![p] = "done"] /\ pc'[p] = "done"
      /\ entry' = [some |-> TRUE, src |-> seen[p], mtime |-> mru[p]]
  BY DEF InstallCache, IInv, TypeOK
<1>2. Active(p) /\ start[p] # 0
  BY <1>1 DEF Active, RunsInv, Started
<1>3. \A f \in Files : at[p][f] # 0 /\ at[p][f] <= seen[p][f] /\ at[p][f] <= mru[p]
  BY <1>1 DEF IInv, RunInv, Phase, Ordered
<1>4. \A q \in Procs : q # p => pc'[q] = pc[q]
  BY <1>1 DEF IInv, TypeOK
<1>5. Covers'
  <2>1. mru[p] # 0
    BY <1>3, MainAssumption, Numbers
  <2>2. ASSUME NEW q \in Procs, NEW f \in Files, NEW v \in {at[q][f], fd[q][f]}, v <= mru[p]
        PROVE  v <= seen[p][f]
    <3>1. Has(p, f) = at[p][f] /\ Has(p, f) # 0
      BY <1>3 DEF Has
    <3>2. ~(v > Has(p, f))
      BY <1>2, <2>2, <3>1, Numbers DEF HitInv, Beyond
    <3> QED BY <1>3, <3>1, <3>2, Numbers
  <2> QED BY <1>1, <2>1, <2>2 DEF Covers
<1>6. \A q \in Procs : Beyond(q)' /\ Compared(q)'
  BY <1>1, <1>4 DEF HitInv, Beyond, Compared, Active, Has
<1>7. Effective(p)'
  BY <1>1 DEF RunsInv, Effective, Alone, Active
<1>8. ASSUME NEW q \in Procs, q # p PROVE Effective(q)'
  BY <1>1, <1>2, <1>8, NotAlone
<1>9. Started'
  BY <1>1, <1>2, <1>4 DEF RunsInv, Started
<1> QED BY <1>5, <1>6, <1>7, <1>8, <1>9 DEF HitInv, RunsInv

LEMMA PurgeLoads == ASSUME LoadInv, Purge PROVE HitInv' /\ RunsInv'
<1>1. /\ UNCHANGED <<clock, file, kernel, pc, fd, at, seen, stamp, skip, mru, start>>
      /\ ~entry'.some
  BY DEF Purge, parser, NoEntry
<1> QED BY <1>1 DEF LoadInv, HitInv, Covers, Beyond, Compared, Active, Has,
                    RunsInv, Started, Effective, Alone

(***************************************************************************)
(* An edit: the new version is later than everything, and nobody who has   *)
(* missed one was yet to open the file.                                    *)
(***************************************************************************)
LEMMA EditLoads ==
    ASSUME LoadInv, ~TornUpdates, NEW f \in Files, NEW inplace \in BOOLEAN, Edit(f, inplace)
    PROVE  HitInv' /\ RunsInv'
<1> USE DEF LoadInv
<1> DEFINE now == clock + 1
<1>1. /\ UNCHANGED <<entry, kernel, pc, at, seen, stamp, skip, mru, start>>
      /\ clock' = now /\ file' = [file EXCEPT ![f] = now]
      /\ fd' = [p \in Procs |-> [fd[p] EXCEPT ![f] =
                   IF inplace /\ @ # 0 /\ @ = file[f] THEN now ELSE @]]
  BY DEF Edit
<1>2. clock \in Nat /\ now \in Nat /\ now > clock
  BY DEF IInv, TypeOK
<1>3. file'[f] = now /\ \A g \in Files : g # f => file'[g] = file[g]
  BY <1>1 DEF IInv, TypeOK, Times
<1>4. ASSUME NEW p \in Procs
      PROVE  /\ \A g \in Files : g # f => fd'[p][g] = fd[p][g]
             /\ \/ fd'[p][f] = fd[p][f]
                \/ fd'[p][f] = now /\ fd[p][f] # 0
  BY <1>1 DEF IInv, TypeOK, Times
<1>5. ASSUME NEW p \in Procs, NEW g \in Files, NEW v \in {at'[p][g], fd'[p][g]}
      PROVE  v \in {at[p][g], fd[p][g]} \/ (v = now /\ g = f)
  BY <1>1, <1>4
<1>6. Covers'
  <2> SUFFICES ASSUME entry.some, NEW p \in Procs, NEW g \in Files,
                      NEW v \in {at'[p][g], fd'[p][g]}, v <= entry.mtime
               PROVE  v <= entry.src[g]
    BY <1>1 DEF HitInv, Covers
  <2>1. v # now
    BY <1>2 DEF IInv, Past, TypeOK
  <2> QED BY <1>5, <2>1 DEF HitInv, Covers
<1>7. ASSUME NEW q \in Procs PROVE Beyond(q)'
  <2> SUFFICES ASSUME Active(q), NEW p \in Procs, NEW g \in Files,
                      NEW v \in {at'[p][g], fd'[p][g]}, Has(q, g)' # 0, v > Has(q, g)'
               PROVE  v > mru[q] /\ \A h \in Files : fd'[q][h] = 0 => file'[h] < v
    BY <1>1 DEF Beyond, Active
  <2>1. Has(q, g) # 0 /\ (Has(q, g)' = Has(q, g) \/ Has(q, g)' = now)
    BY <1>1, <1>4 DEF Has
  <2>2. mru[q] <= clock /\ mru[q] \in Nat /\ Has(q, g) \in Nat
    BY Numbers DEF IInv, RunInv, Ordered
  <2>3. \A h \in Files : (fd'[q][h] = 0 => fd[q][h] = 0) /\ file[h] \in Nat /\ file[h] <= clock
    BY <1>2, <1>4, Numbers
  <2>4. CASE v = now
    <3>1. g = f \/ now \in {at[p][g], fd[p][g]}
      BY <1>5, <2>4
    <3>2. g = f
      BY <1>2, <3>1, Numbers
    <3>3. fd[q][f] # 0
      BY <2>1, <3>2 DEF Has, IInv, RunInv, Ordered, TypeOK, Times
    <3> QED BY <1>2, <1>3, <2>2, <2>3, <2>4, <3>3
  <2>5. CASE v # now
    <3>1. v \in {at[p][g], fd[p][g]} /\ v \in Nat /\ v <= file[g] /\ v <= clock
      BY <1>5, <2>5, Numbers
    <3>2. v > Has(q, g)
      BY <1>2, <2>1, <2>2, <3>1
    <3>3. v > mru[q] /\ \A h \in Files : fd[q][h] = 0 => file[h] < v
      BY <2>1, <3>1, <3>2 DEF HitInv, Beyond
    <3>4. ASSUME fd[q][f] = 0 PROVE FALSE
      <4>1. ~Changed(q, g)
        BY <3>4 DEF Edit, Active
      <4>2. Has(q, g) = file[g]
        BY <2>1, <4>1 DEF Changed, Has
      <4> QED BY <2>2, <3>1, <3>2, <4>2
    <3> QED BY <1>3, <2>3, <3>3, <3>4
  <2> QED BY <2>4, <2>5
<1>8. \A q \in Procs : Compared(q)'
  BY <1>1 DEF HitInv, Compared, Active
<1>9. ASSUME NEW q \in Procs PROVE /\ start'[q] <= clock' /\ start'[q] # clock'
                                   /\ start'[q] = 0 => pc'[q] = "idle"
  <2>1. start[q] <= clock /\ start[q] \in Nat /\ (start[q] = 0 => pc[q] = "idle")
    BY DEF RunsInv, Started, IInv, TypeOK
  <2> QED BY <1>1, <1>2, <2>1
<1> QED BY <1>6, <1>7, <1>8, <1>9 DEF HitInv, RunsInv, Started, Effective, Alone

LEMMA NextLoadInv == ASSUME ~TornUpdates PROVE LoadInv /\ [Next]_vars => LoadInv'
<1> SUFFICES ASSUME LoadInv, [Next]_vars PROVE LoadInv'
  OBVIOUS
<1>1. IInv'
  BY NextIInv DEF LoadInv
<1>2. ASSUME NEW p \in Procs, Run(p) PROVE HitInv' /\ RunsInv'
  BY <1>2, MoveLoads, BeginLoads, AskLoads, ReadLoads, InstallLoads DEF Run
<1>3. ASSUME NEW f \in Files, NEW inplace \in BOOLEAN, Edit(f, inplace) PROVE HitInv' /\ RunsInv'
  BY <1>3, EditLoads
<1>4. ASSUME UNCHANGED vars PROVE HitInv' /\ RunsInv'
  BY <1>4 DEF vars, parser, LoadInv, HitInv, Covers, Beyond, Compared, Active, Has,
              RunsInv, Started, Effective, Alone
<1>5. HitInv' /\ RunsInv'
  BY <1>2, <1>3, <1>4, PurgeLoads DEF Next
<1> QED BY <1>1, <1>5 DEF LoadInv

(***************************************************************************)
(* For any files, parsers and edits that are not torn: a run with a cache  *)
(* hit loads nothing older than the files it opened, unless an older entry *)
(* has come in between, and a run that nobody disturbs leaves the current  *)
(* policy in the kernel, by way of the cache or of a compile.              *)
(***************************************************************************)
THEOREM LoadsCurrentPolicyThm == ASSUME ~TornUpdates PROVE Spec => []LoadsCurrentPolicy
<1>1. LoadInv => LoadsCurrentPolicy
  <2> SUFFICES ASSUME LoadInv PROVE HitIsSound /\ RunIsEffective
    BY DEF LoadsCurrentPolicy
  <2>1. ASSUME NEW p \in Procs, pc[p] = "cached", entry.some, stamp[p] <= entry.mtime, NEW f \in Files
        PROVE  entry.src[f] >= at[p][f]
    <3>1. IInv /\ Active(p) /\ ~skip[p]
      BY <2>1 DEF LoadInv, HitInv, Compared, Active
    <3>2. at[p][f] <= stamp[p]
      BY <3>1 DEF LoadInv, HitInv, Compared
    <3>3. at[p][f] <= entry.mtime
      BY <2>1, <3>1, <3>2, Numbers
    <3>4. at[p][f] <= entry.src[f]
      BY <2>1, <3>3 DEF LoadInv, HitInv, Covers
    <3> QED BY <3>1, <3>4, Numbers
  <2>2. RunIsEffective
    BY DEF LoadInv, RunsInv, Effective, Alone, RunIsEffective
  <2> QED BY <2>1, <2>2 DEF HitIsSound
<1>2. LoadInv /\ [Next]_vars => LoadInv'
  BY NextLoadInv
<1> QED BY <1>1, <1>2, InitLoadInv, PTL DEF Spec
=============================================================================
