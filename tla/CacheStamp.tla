----------------------------- MODULE CacheStamp -----------------------------
(***************************************************************************)
(* When may the cached binary of a profile be used?  The parser decides by *)
(* modification times (parser/policy_cache.c): an entry carries the newest *)
(* mtime of the files it was compiled from (mru_policy_tstamp), and is     *)
(* used by a later run if no file that run opens is newer.  Several parser *)
(* processes work on one entry while somebody edits the files.             *)
(*                                                                         *)
(* Every edit gets a time stamp of its own, later than all before it, so a *)
(* file's mtime also names its contents: file[f] is both.  An edit in      *)
(* place is seen through an open descriptor, one by rename is not.         *)
(***************************************************************************)
EXTENDS Integers

CONSTANTS
    Files,         \* the profile, its includes and its include directories
    Main,          \* the profile itself
    Procs,         \* parser processes
    MaxEdits,      \* bound on the number of edits
    TornUpdates    \* an update may be spread over files a parser is reading

ASSUME MainAssumption == Main \in Files
ASSUME MaxEditsAssumption == MaxEdits \in Nat
ASSUME TornAssumption == TornUpdates \in BOOLEAN

VARIABLES
    clock,         \* the latest time stamp given out
    file,          \* [Files -> mtime and contents]
    entry,         \* the cache entry: what it was compiled from, and its mtime
    kernel,        \* [Files -> contents the loaded policy was compiled from]
    pc,
    fd,            \* [Procs -> [Files -> inode behind the open file, 0: not open]]
    at,            \* mtime that fstat returned, 0: not asked yet
    seen,          \* contents the lexer got, 0: not read yet
    stamp, skip,   \* cache_tstamp (0 is null), mru_skip_cache
    mru,           \* mru_policy_tstamp
    start          \* history: the clock when the run began

parser == <<pc, fd, at, seen, stamp, skip, mru, start>>
vars == <<clock, file, entry, kernel, parser>>

Times == [Files -> Nat]
None == [f \in Files |-> 0]
NoEntry == [some |-> FALSE, src |-> None, mtime |-> 0]

Later(a, b) == IF a < b THEN b ELSE a

(* The file is open in p and is no longer what p opened or asked about. *)
Changed(p, f) ==
    \/ fd[p][f] # 0 /\ fd[p][f] # file[f]
    \/ at[p][f] # 0 /\ at[p][f] # file[f]

-----------------------------------------------------------------------------
(* All files have the same age; there is no entry and no policy. *)
Init ==
    /\ clock = 1
    /\ file = [f \in Files |-> 1]
    /\ entry = NoEntry
    /\ kernel = None
    /\ pc = [p \in Procs |-> "idle"]
    /\ fd = [p \in Procs |-> None] /\ at = fd /\ seen = fd
    /\ stamp = [p \in Procs |-> 0] /\ mru = stamp /\ start = stamp
    /\ skip = [p \in Procs |-> TRUE]

(* reset_parser: nothing is open, no time stamp is known. *)
Reset(p) ==
    /\ at' = [at EXCEPT ![p] = None] /\ seen' = [seen EXCEPT ![p] = None]
    /\ stamp' = [stamp EXCEPT ![p] = 0] /\ mru' = [mru EXCEPT ![p] = 0]
    /\ skip' = [skip EXCEPT ![p] = TRUE]

(* process_profile: fopen of the profile and reset_parser. *)
Start(p) ==
    /\ pc[p] \in {"idle", "done"}
    /\ pc' = [pc EXCEPT ![p] = "stamp"]
    /\ Reset(p)
    /\ fd' = [fd EXCEPT ![p] = [None EXCEPT ![Main] = file[Main]]]
    /\ start' = [start EXCEPT ![p] = clock]
    /\ UNCHANGED <<clock, file, entry, kernel>>

(***************************************************************************)
(* setup_cache_policy: the entry's mtime, if there is an entry, it is of   *)
(* this version and reading the cache is not switched off.                 *)
(***************************************************************************)
SetupCachePolicy(p) ==
    /\ pc[p] = "stamp"
    /\ pc' = [pc EXCEPT ![p] = "stat"]
    /\ \/ /\ entry.some
          /\ stamp' = [stamp EXCEPT ![p] = entry.mtime]
          /\ skip' = [skip EXCEPT ![p] = FALSE]
       \/ UNCHANGED <<stamp, skip>>
    /\ UNCHANGED <<clock, file, entry, kernel, fd, at, seen, mru, start>>

(* Mutant: the newest time stamp is followed, the entry's is not compared. *)
UpdateMruTstamp_nocompare(p, f, m) ==
    /\ at' = [at EXCEPT ![p][f] = m]
    /\ mru' = [mru EXCEPT ![p] = Later(@, m)]
    /\ UNCHANGED skip

(* update_mru_tstamp for the open file f whose fstat says m. *)
UpdateMruTstamp(p, f, m) ==
    /\ at' = [at EXCEPT ![p][f] = m]
    /\ mru' = [mru EXCEPT ![p] = Later(@, m)]
    /\ skip' = [skip EXCEPT ![p] = @ \/ (stamp[p] # 0 /\ m > stamp[p])]

(* process_profile asks for the profile's time stamp after the entry's. *)
StatProfile(p) ==
    /\ pc[p] = "stat"
    /\ UpdateMruTstamp(p, Main, fd[p][Main])
    /\ pc' = [pc EXCEPT ![p] = "parse"]
    /\ UNCHANGED <<clock, file, entry, kernel, fd, seen, stamp, start>>

(* include_filename, include_dir_cb: fopen, update_mru_tstamp. *)
Include(p, f) ==
    /\ pc[p] = "parse" /\ fd[p][f] = 0
    /\ fd' = [fd EXCEPT ![p][f] = file[f]]
    /\ UpdateMruTstamp(p, f, file[f])
    /\ UNCHANGED <<clock, file, entry, kernel, pc, seen, stamp, start>>

(* The lexer reads an open file. *)
Read(p, f) ==
    /\ pc[p] = "parse" /\ at[p][f] # 0 /\ seen[p][f] = 0
    /\ seen' = [seen EXCEPT ![p][f] = fd[p][f]]
    /\ UNCHANGED <<clock, file, entry, kernel, pc, fd, at, stamp, skip, mru, start>>

(* The end of yyparse, and cache_hit. *)
Parsed(p) ==
    /\ pc[p] = "parse" /\ \A f \in Files : seen[p][f] # 0
    /\ pc' = [pc EXCEPT ![p] = IF skip[p] THEN "compile" ELSE "cached"]
    /\ UNCHANGED <<clock, file, entry, kernel, fd, at, seen, stamp, skip, mru, start>>

(***************************************************************************)
(* process_binary opens the entry by its name again.  With a compressed    *)
(* entry to write the profile is compiled all the same.                    *)
(***************************************************************************)
LoadCached(p) ==
    /\ pc[p] = "cached" /\ entry.some
    /\ kernel' = entry.src
    /\ \E next \in {"done", "compile"} : pc' = [pc EXCEPT ![p] = next]
    /\ UNCHANGED <<clock, file, entry, fd, at, seen, stamp, skip, mru, start>>

(* The entry is gone or unreadable, or the kernel does not take it. *)
LoadCachedFails(p) ==
    /\ pc[p] = "cached"
    /\ pc' = [pc EXCEPT ![p] = "compile"]
    /\ UNCHANGED <<clock, file, entry, kernel, fd, at, seen, stamp, skip, mru, start>>

(* The compile, and the load of its result; whether it is to be cached. *)
Compile(p) ==
    /\ pc[p] = "compile"
    /\ kernel' = seen[p]
    /\ \E next \in {"install", "done"} : pc' = [pc EXCEPT ![p] = next]
    /\ UNCHANGED <<clock, file, entry, fd, at, seen, stamp, skip, mru, start>>

(* Mutant: no utimensat, the entry keeps the time it was written at. *)
InstallCache_now(p) ==
    /\ pc[p] = "install"
    /\ entry' = [some |-> TRUE, src |-> seen[p], mtime |-> clock]
    /\ pc' = [pc EXCEPT ![p] = "done"]
    /\ UNCHANGED <<clock, file, kernel, fd, at, seen, stamp, skip, mru, start>>

(* install_cache: utimensat to mru_policy_tstamp, then rename over the entry. *)
InstallCache(p) ==
    /\ pc[p] = "install"
    /\ entry' = [some |-> TRUE, src |-> seen[p], mtime |-> mru[p]]
    /\ pc' = [pc EXCEPT ![p] = "done"]
    /\ UNCHANGED <<clock, file, kernel, fd, at, seen, stamp, skip, mru, start>>

(* A syntax error, a refused load, a failed install, a signal: the run ends. *)
Abandon(p) ==
    /\ pc[p] \notin {"idle", "done"}
    /\ pc' = [pc EXCEPT ![p] = "idle"]
    /\ Reset(p)
    /\ fd' = [fd EXCEPT ![p] = None]
    /\ UNCHANGED <<clock, file, entry, kernel, start>>

-----------------------------------------------------------------------------
(* External: --purge-cache, or a cache created anew for other features. *)
Purge ==
    /\ entry.some
    /\ entry' = NoEntry
    /\ UNCHANGED <<clock, file, kernel, parser>>

(***************************************************************************)
(* External: somebody changes f, in place or by renaming a new file over   *)
(* it.  Without TornUpdates nobody changes a file that a parser has yet to *)
(* open when a file that parser has opened has changed under it.           *)
(***************************************************************************)
Edit(f, inplace) ==
    /\ clock < MaxEdits + 1
    /\ TornUpdates \/ \A p \in Procs :
           (pc[p] \notin {"idle", "done"} /\ fd[p][f] = 0)
               => \A g \in Files : ~Changed(p, g)
    /\ clock' = clock + 1
    /\ file' = [file EXCEPT ![f] = clock + 1]
    /\ fd' = [p \in Procs |-> [fd[p] EXCEPT ![f] =
                 IF inplace /\ @ # 0 /\ @ = file[f] THEN clock + 1 ELSE @]]
    /\ UNCHANGED <<entry, kernel, pc, at, seen, stamp, skip, mru, start>>

Run(p) ==
    \/ Start(p) \/ SetupCachePolicy(p) \/ StatProfile(p) \/ Parsed(p)
    \/ LoadCached(p) \/ LoadCachedFails(p) \/ Compile(p) \/ InstallCache(p)
    \/ Abandon(p)
    \/ \E f \in Files : Include(p, f) \/ Read(p, f)

Next ==
    \/ \E p \in Procs : Run(p)
    \/ \E f \in Files, inplace \in BOOLEAN : Edit(f, inplace)
    \/ Purge

Spec == Init /\ [][Next]_vars

-----------------------------------------------------------------------------
TypeOK ==
    /\ clock \in Nat /\ file \in Times
    /\ entry \in [some : BOOLEAN, src : Times, mtime : Nat]
    /\ kernel \in Times
    /\ pc \in [Procs -> {"idle", "stamp", "stat", "parse", "cached", "compile",
                         "install", "done"}]
    /\ fd \in [Procs -> Times] /\ at \in [Procs -> Times] /\ seen \in [Procs -> Times]
    /\ stamp \in [Procs -> Nat] /\ mru \in [Procs -> Nat] /\ start \in [Procs -> Nat]
    /\ skip \in [Procs -> BOOLEAN]

(***************************************************************************)
(* The entry's time stamp can be trusted: a file that is not newer than    *)
(* the entry is the one it was compiled from.  Runs overlap, overwrite     *)
(* each other's entry and read files that change under them; it is         *)
(* install_cache dating the entry by what was opened, and not by when it   *)
(* was written, that makes this hold.                                      *)
(***************************************************************************)
StampSound ==
    entry.some => \A f \in Files : file[f] <= entry.mtime => entry.src[f] = file[f]

(***************************************************************************)
(* What a run with a cache hit is about to load was compiled from nothing  *)
(* older than the files that run has opened, unless an older entry has     *)
(* taken the place of the one whose time stamp the run compared.           *)
(***************************************************************************)
HitIsSound ==
    \A p \in Procs : (pc[p] = "cached" /\ entry.some /\ stamp[p] <= entry.mtime) =>
        \A f \in Files : entry.src[f] >= at[p][f]

(***************************************************************************)
(* A run during which nothing is edited, and no other parser has run,      *)
(* leaves the current policy in the kernel, by way of the cache or of a    *)
(* compile.                                                                *)
(***************************************************************************)
RunIsEffective ==
    \A p \in Procs :
        (/\ pc[p] \in {"install", "done"} /\ start[p] = clock
         /\ \A q \in Procs \ {p} : start[q] = 0)
            => kernel = file

(***************************************************************************)
(* A run loads nothing older than what it read, from the cache or by a     *)
(* compile, however its steps meet the edits and the other parsers.        *)
(***************************************************************************)
LoadsCurrentPolicy == HitIsSound /\ RunIsEffective
=============================================================================
