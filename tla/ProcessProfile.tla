--------------------------- MODULE ProcessProfile ---------------------------
(***************************************************************************)
(* One apparmor_parser process that works through its profiles one after   *)
(* the other (parser/parser_main.c process_profile and what it calls:      *)
(* setup_cache_policy, process_binary, load_policy, install_cache).  The   *)
(* globals it changes on the way are not reset between two profiles, so    *)
(* the order of the profiles is part of the state.                         *)
(*                                                                         *)
(* A cache entry is described by what the code can tell of it: its form    *)
(* ("bad": empty or of another version; "plain"; "zlow", "zhigh": zstd     *)
(* below or not below the level in use), whether some policy file is newer *)
(* than it, and, for the properties, whether all of it was written.  How   *)
(* time stamps come about is module CacheStamp.                            *)
(***************************************************************************)
EXTENDS Naturals

CONSTANTS
    NProfiles,     \* the profiles 1 .. NProfiles are given on the command line
    Actions,       \* the actions that may be given
    OptionSets,    \* the sets of options that may be given with them
    Links,         \* what may be in the disable and force-complain directories
    Entries,       \* the cache entries that may be found
    HasHats        \* whether the profiles may define hats or child profiles

Profiles == 1 .. NProfiles

AllOptions == {"write-cache", "skip-read-cache", "skip-cache", "namespace",
               "Complain", "skip-kernel-load", "skip-bad-cache",
               "skip-bad-cache-rebuild", "zstd", "zstd-recompress",
               "names", "preprocess", "debug", "stdin"}

EntryForms == {"none", "bad", "plain", "zlow", "zhigh"}
Entry == [form : EntryForms, stale : BOOLEAN, whole : BOOLEAN]

ASSUME NProfilesAssumption == NProfiles \in Nat \ {0}
ASSUME OptionsAssumption ==
    /\ Actions \subseteq {"add", "replace", "remove", "stdout"}
    /\ OptionSets \subseteq SUBSET AllOptions
    /\ Links \subseteq [Profiles -> {"none", "disable", "complain"}]
    /\ Entries \subseteq [Profiles -> Entry]
    /\ HasHats \subseteq BOOLEAN

VARIABLES
    option, given,                     \* the action and the options given
    skip_cache, skip_read_cache, write_cache, kernel_load, cond_clear_cache,
    zpol,                              \* zstd_compress_policy
    policy_cache,                      \* main could open the cache
    pc, cur,                           \* the step, and the profile it is for
    force_complain, mru_skip_cache, hats,
    retval,
    tmp,                               \* the temporary cache file of this profile
    cache, link, loaded,               \* the cache, the links, the kernel
    result,                            \* [Profiles -> how it ended]
    log                                \* history: what was done for each profile

globals == <<skip_cache, skip_read_cache, write_cache, zpol>>
settings == <<option, given, kernel_load, cond_clear_cache, policy_cache, link, hats>>
vars == <<globals, settings, pc, cur, force_complain, mru_skip_cache, retval,
          tmp, cache, loaded, result, log>>

NoTmp == [exists |-> FALSE, whole |-> TRUE]

(***************************************************************************)
(* History: the form of the entry found; a load of the cached binary, and  *)
(* whether it was stale; how the last load was sent; a compression failed; *)
(* the entry was written; who was in the kernel when it refused the load.  *)
(***************************************************************************)
NoLog == [found |-> "none", cached |-> FALSE, stale |-> FALSE, sent |-> "nothing",
          zfail |-> FALSE, wrote |-> FALSE, conflict |-> "none"]

Given(o) == o \in given
entry == cache[cur]
info == Given("names") \/ Given("preprocess") \/ Given("debug")

-----------------------------------------------------------------------------
(* process_arg, for the options of the model. *)
ProcessArg ==
    /\ option \in Actions /\ given \in OptionSets
    /\ skip_cache = (\/ Given("skip-cache") \/ Given("Complain") \/ Given("names")
                     \/ Given("preprocess") \/ option = "remove")
    /\ skip_read_cache = (Given("skip-read-cache") \/ Given("debug") \/ option = "stdout")
    /\ kernel_load = ~(\/ Given("skip-kernel-load") \/ Given("names")
                       \/ Given("preprocess") \/ option = "stdout")
    /\ cond_clear_cache = ~Given("skip-bad-cache")

(* main: the compression policy; a cache unless caching is off or cannot be set up. *)
SetupCache ==
    /\ zpol = IF Given("zstd") THEN "POLICY" ELSE "NONE"
    /\ IF ~skip_cache /\ (Given("write-cache") \/ ~skip_read_cache)
       THEN policy_cache \in BOOLEAN /\ write_cache = (Given("write-cache") /\ policy_cache)
       ELSE policy_cache = FALSE /\ write_cache = Given("write-cache")

Init ==
    /\ ProcessArg /\ SetupCache
    /\ cache \in Entries
    /\ link \in Links
    /\ hats \in HasHats
    /\ \E k \in {"absent", "old"} : loaded = [p \in Profiles |-> k]
    /\ pc = "open" /\ cur = 1
    /\ force_complain = FALSE /\ mru_skip_cache = TRUE /\ retval = 0 /\ tmp = NoTmp
    /\ result = [p \in Profiles |-> "pending"]
    /\ log = [p \in Profiles |-> NoLog]

(* process_profile returns r to main, through "out:" and its reset_parser. *)
Out(r) ==
    /\ result' = [result EXCEPT ![cur] = IF r = 0 THEN "ok" ELSE "error"]
    /\ cur' = cur + 1
    /\ pc' = IF cur = NProfiles \/ Given("stdin") THEN "done" ELSE "open"
    /\ mru_skip_cache' = TRUE
    /\ retval' = 0
    /\ tmp' = NoTmp

(* yyerror, post_process_profile: the whole process exits. *)
Fatal ==
    /\ pc \in {"parse", "compile"}
    /\ result' = [result EXCEPT ![cur] = "error"]
    /\ pc' = "done"
    /\ UNCHANGED <<globals, settings, cur, force_complain, mru_skip_cache, retval, tmp,
                   cache, loaded, log>>

(* fopen of the profile fails. *)
OpenFails ==
    /\ pc = "open" /\ ~Given("stdin")
    /\ force_complain' = Given("Complain")
    /\ Out(1)
    /\ UNCHANGED <<globals, settings, cache, loaded, log>>

(* test_for_dir_mode: a link of that kind, unless -p says to ignore it. *)
DirMode(kind) ==
    /\ option # "remove" /\ ~Given("stdin") /\ ~Given("preprocess")
    /\ link[cur] = kind

(* A link in the disable directory: nothing else happens. *)
SkipDisabled ==
    /\ pc = "open" /\ DirMode("disable")
    /\ force_complain' = Given("Complain")
    /\ Out(0)
    /\ UNCHANGED <<globals, settings, cache, loaded, log>>

(* Mutant: a bad entry does not keep the cache from being written. *)
SetupCachePolicy_rewrites(e) ==
    [hit |-> e.form = "plain", zpol |-> zpol, write |-> write_cache]

(***************************************************************************)
(* setup_cache_policy with valid_compressed_cache for an existing entry:   *)
(* hit says that its time stamp was taken and that it may be used, so that *)
(* only a newer policy file makes a miss of it.                            *)
(***************************************************************************)
SetupCachePolicy(e) ==
    LET recompress == e.form = "zlow" /\ Given("zstd-recompress") /\ Given("zstd")
        precompressed == e.form \in {"zlow", "zhigh"} /\ ~recompress
    IN  [hit   |-> e.form = "plain" \/ recompress \/ (precompressed /\ zpol # "NONE"),
         zpol  |-> IF precompressed /\ zpol # "NONE" THEN "PRECOMPRESSED" ELSE zpol,
         write |-> CASE recompress \/ e.form = "plain" -> write_cache \/ zpol = "POLICY"
                     [] precompressed -> write_cache
                     [] e.form = "bad" -> write_cache /\ cond_clear_cache]

(* Mutant: a stale entry counts as a hit. *)
OpenProfile_ignoresmtime ==
    /\ pc = "open" /\ ~DirMode("disable")
    /\ force_complain' = (Given("Complain") \/ DirMode("complain"))
    /\ mru_skip_cache' = (\/ force_complain' \/ ~policy_cache \/ skip_read_cache
                          \/ entry.form # "plain")
    /\ pc' = "parse"
    /\ UNCHANGED <<globals, settings, cur, retval, tmp, cache, loaded, result, log>>

(***************************************************************************)
(* fopen (or stdin), reset_parser, the force-complain link, the look at    *)
(* the cache entry.  The entry's time stamp is compared with every file    *)
(* the parse opens, so a stale entry ends up with mru_skip_cache set.      *)
(***************************************************************************)
OpenProfile ==
    /\ pc = "open" /\ ~DirMode("disable")
    /\ force_complain' = (Given("Complain") \/ DirMode("complain"))
    /\ IF Given("stdin")
       THEN skip_cache' = FALSE /\ write_cache' = FALSE /\ mru_skip_cache' = TRUE
            /\ UNCHANGED <<zpol, log>>
       ELSE /\ IF /\ option # "remove" /\ ~force_complain' /\ policy_cache
                  /\ entry.form # "none" /\ ~skip_read_cache
               THEN LET s == SetupCachePolicy(entry)
                    IN  /\ mru_skip_cache' = (~s.hit \/ entry.stale)
                        /\ zpol' = s.zpol
                        /\ write_cache' = s.write
               ELSE mru_skip_cache' = TRUE /\ UNCHANGED <<zpol, write_cache>>
            /\ log' = [log EXCEPT ![cur].found = entry.form]
            /\ UNCHANGED skip_cache
    /\ pc' = "parse"
    /\ UNCHANGED <<settings, skip_read_cache, cur, retval, tmp, cache, loaded, result>>

(* yyparse succeeds; the namespace test; cache_hit. *)
Parse ==
    /\ pc = "parse"
    /\ skip_cache' = (skip_cache \/ Given("namespace"))
    /\ pc' = IF ~mru_skip_cache THEN "cached" ELSE "compile"
    /\ UNCHANGED <<skip_read_cache, write_cache, zpol, settings, cur, force_complain,
                   mru_skip_cache, retval, tmp, cache, loaded, result, log>>

(* yyparse returns an error instead of exiting. *)
ParseFails ==
    /\ pc = "parse"
    /\ Out(1)
    /\ UNCHANGED <<globals, settings, force_complain, cache, loaded, log>>

(***************************************************************************)
(* External: the kernel's replace, add and remove of one profile.  An add  *)
(* of one it has, and a remove of one it has not, are refused; anything    *)
(* may be refused.                                                         *)
(***************************************************************************)
KernelMayAccept ==
    /\ option = "add" => loaded[cur] = "absent"
    /\ option = "remove" => loaded[cur] # "absent"

(***************************************************************************)
(* process_binary on the cache entry.  A load that succeeds is the end of  *)
(* it, unless the entry is to be rewritten compressed; one that fails      *)
(* leads to a compile.  --skip-bad-cache-rebuild ends it either way.       *)
(***************************************************************************)
CachedOk ==
    /\ pc = "cached"
    /\ IF kernel_load
       THEN /\ KernelMayAccept
            /\ loaded' = [loaded EXCEPT ![cur] = "cached"]
            /\ \E zfail \in IF zpol = "POLICY" /\ entry.form = "plain" THEN BOOLEAN ELSE {FALSE} :
                 log' = [log EXCEPT ![cur].cached = TRUE, ![cur].zfail = zfail,
                           ![cur].stale = entry.stale \/ entry.form = "bad",
                           ![cur].sent =
                               IF (zpol = "POLICY" /\ ~zfail) \/ entry.form \in {"zlow", "zhigh"}
                               THEN "zstd" ELSE "raw"]
       ELSE UNCHANGED <<loaded, log>>
    /\ IF write_cache /\ zpol = "POLICY" /\ ~Given("skip-bad-cache-rebuild")
       THEN pc' = "compile" /\ UNCHANGED <<cur, mru_skip_cache, retval, tmp, result>>
       ELSE Out(0)
    /\ UNCHANGED <<globals, settings, force_complain, cache>>

CachedFails ==
    /\ pc = "cached" /\ kernel_load
    /\ IF Given("skip-bad-cache-rebuild")
       THEN Out(1)
       ELSE pc' = "compile" /\ UNCHANGED <<cur, mru_skip_cache, retval, tmp, result>>
    /\ log' = [log EXCEPT ![cur].conflict = IF KernelMayAccept THEN @ ELSE loaded[cur]]
    /\ UNCHANGED <<globals, settings, force_complain, cache, loaded>>

(* -p, -N, the dumps and -d leave here; post_process_policy may fail. *)
StopEarly ==
    /\ pc = "compile"
    /\ \/ info /\ Out(0)
       \/ ~Given("preprocess") /\ ~Given("names") /\ Out(1)
    /\ UNCHANGED <<globals, settings, force_complain, cache, loaded, log>>

(* Compiled; a temporary cache file when one is to be written. *)
SetupTmp ==
    /\ pc = "compile" /\ ~info
    /\ IF policy_cache /\ write_cache /\ ~force_complain
       THEN \/ tmp' = [exists |-> TRUE, whole |-> TRUE] /\ UNCHANGED write_cache
            \/ tmp' = NoTmp /\ write_cache' = FALSE
       ELSE UNCHANGED <<tmp, write_cache>>
    /\ pc' = "load"
    /\ UNCHANGED <<skip_cache, skip_read_cache, zpol, settings, cur, force_complain,
                   mru_skip_cache, retval, cache, loaded, result, log>>

(***************************************************************************)
(* What __sd_serialize_profile returns: k, the kernel (or stdout) took the *)
(* profile, w, the cache file took all of it, hats_ok, its hats were loaded. *)
(***************************************************************************)
SerializeResult(k, w, hats_ok) ==
    IF (k /\ w) \/ (hats /\ hats_ok /\ option # "remove") THEN 0 ELSE 1

(***************************************************************************)
(* load_policy: the profile, then its hats, each into the kernel (or to    *)
(* stdout) and into the temporary file.                                    *)
(***************************************************************************)
LoadPolicy ==
    /\ pc = "load"
    /\ \E k, w, hk, hw \in BOOLEAN :
         /\ (kernel_load /\ ~KernelMayAccept) => ~k
         /\ (~kernel_load /\ option # "stdout") => k /\ hk
         /\ (~tmp.exists \/ option = "remove") => w /\ hw
         /\ (~hats \/ option = "remove") => hk /\ hw
         /\ retval' = SerializeResult(k, w, hk /\ hw)
         /\ tmp' = [tmp EXCEPT !.whole = w /\ hw]
         /\ IF ~kernel_load THEN UNCHANGED <<loaded, log>>
            ELSE IF k
            THEN /\ loaded' = [loaded EXCEPT ![cur] =
                                 IF option = "remove" THEN "absent" ELSE "new"]
                 /\ log' = [log EXCEPT ![cur].sent = IF option = "remove" THEN "nothing"
                                                       ELSE IF zpol = "POLICY" THEN "zstd" ELSE "raw"]
            ELSE /\ UNCHANGED loaded
                 /\ log' = [log EXCEPT ![cur].conflict = IF KernelMayAccept THEN @ ELSE loaded[cur]]
    /\ pc' = "install"
    /\ UNCHANGED <<globals, settings, cur, force_complain, mru_skip_cache, cache, result>>

(* __sd_serialize_profile cannot compress: no load, no hats. *)
CompressFails ==
    /\ pc = "load" /\ zpol = "POLICY" /\ option # "remove"
    /\ retval' = 1
    /\ tmp' = [tmp EXCEPT !.whole = FALSE]
    /\ log' = [log EXCEPT ![cur].zfail = TRUE]
    /\ pc' = "install"
    /\ UNCHANGED <<globals, settings, cur, force_complain, mru_skip_cache, cache, loaded, result>>

(* What the new entry looks like; compression may fail and be left out. *)
NewEntries == [form : IF zpol = "NONE" THEN {"plain"} ELSE {"zhigh", "plain"},
               stale : {FALSE}, whole : {tmp.whole}]

(* Mutant: the result of load_policy is not looked at. *)
Install_always ==
    /\ pc = "install"
    /\ IF write_cache /\ ~force_complain /\ tmp.exists
       THEN /\ \E e \in NewEntries : cache' = [cache EXCEPT ![cur] = e]
            /\ log' = [log EXCEPT ![cur].wrote = TRUE]
       ELSE UNCHANGED <<cache, log>>
    /\ Out(retval)
    /\ UNCHANGED <<globals, settings, force_complain, loaded>>

(***************************************************************************)
(* install_cache, install_compressed_cache: the temporary file gets the    *)
(* newest mtime of the policy files and then the entry's name, or a step   *)
(* of that fails, which nobody is told.                                    *)
(***************************************************************************)
Install ==
    /\ pc = "install"
    /\ \/ /\ retval = 0 /\ write_cache /\ ~force_complain /\ tmp.exists
          /\ \E e \in NewEntries : cache' = [cache EXCEPT ![cur] = e]
          /\ log' = [log EXCEPT ![cur].wrote = TRUE]
       \/ UNCHANGED <<cache, log>>
    /\ Out(retval)
    /\ UNCHANGED <<globals, settings, force_complain, loaded>>

Next ==
    \/ Fatal \/ OpenFails \/ SkipDisabled \/ OpenProfile \/ Parse \/ ParseFails
    \/ CachedOk \/ CachedFails \/ StopEarly \/ SetupTmp
    \/ LoadPolicy \/ CompressFails \/ Install

Spec == Init /\ [][Next]_vars

-----------------------------------------------------------------------------
(* A cached binary that is older than a policy file, or of another version, *)
(* is not loaded.                                                           *)
StaleNeverLoaded == \A p \in Profiles : ~log[p].stale

(* A kernel without compressed loads is never sent a compressed policy, not *)
(* even one found compressed in the cache.  What was to be compressed goes  *)
(* uncompressed only if that failed, or after a compressed entry was met:   *)
(* zstd_compress_policy stays PRECOMPRESSED from then on.                   *)
CompressedAsAsked ==
    \A p \in Profiles :
        /\ log[p].sent = "zstd" => Given("zstd")
        /\ log[p].sent = "raw" /\ Given("zstd") =>
               log[p].zfail \/ \E q \in 1 .. p : log[q].found \in {"zlow", "zhigh"}

(***************************************************************************)
(* Whatever the earlier profiles did to the globals, each load is one of   *)
(* current policy, in the form that was asked for and the kernel takes.    *)
(***************************************************************************)
LoadsAreRight == StaleNeverLoaded /\ CompressedAsAsked

(* An entry is installed only after the kernel took the same policy: the    *)
(* next run will load it without a compile (profiles without hats).         *)
InstalledIsLoaded ==
    \A p \in Profiles :
        (log[p].wrote /\ ~hats) => cache[p].whole /\ (kernel_load => loaded[p] = "new")

(* Success is reported for a profile only if the kernel has what was read:  *)
(* neither an older load nor nothing (profiles without hats).               *)
SuccessIsLoaded ==
    \A p \in Profiles :
        (/\ result[p] = "ok" /\ kernel_load /\ ~hats /\ ~info
         /\ link[p] # "disable" /\ option \in {"add", "replace"})
            => loaded[p] \in {"cached", "new"}

(* An add is refused because of what this same run loaded only where a      *)
(* cached binary is loaded and then compiled again to compress its entry.   *)
RefusedForOthers ==
    \A p \in Profiles : log[p].conflict = "cached" =>
        option = "add" /\ Given("zstd") /\ ~Given("skip-bad-cache-rebuild")

(***************************************************************************)
(* What is reported, to the user by the result and to the next run by a    *)
(* cache entry, is what the kernel holds, whichever of the steps fails.    *)
(***************************************************************************)
ReportsAreTrue == InstalledIsLoaded /\ SuccessIsLoaded /\ RefusedForOthers

(* --skip-bad-cache: a bad entry that was looked at is not replaced, even   *)
(* when an entry of another profile has turned write_cache on again.        *)
BadEntryKept ==
    \A p \in Profiles :
        (Given("skip-bad-cache") /\ ~skip_read_cache /\ log[p].found = "bad")
            => ~log[p].wrote

(* A profile forced into complain mode is never loaded from an entry made   *)
(* for enforce mode, and never leaves an entry behind.                      *)
ComplainBypassesCache ==
    \A p \in Profiles :
        (option # "remove" /\ ~Given("preprocess") /\ ~Given("stdin")
           /\ (link[p] = "complain" \/ Given("Complain")))
            => ~log[p].cached /\ ~log[p].wrote

(* Without -W an entry is written only to replace a plain or a less         *)
(* compressed one, this profile's or an earlier one's, by a compressed.     *)
UnaskedWriteIsRecompression ==
    \A p \in Profiles : (log[p].wrote /\ ~Given("write-cache")) =>
        /\ Given("zstd")
        /\ \E q \in 1 .. p : log[q].found \in {"plain", "zlow"}

(***************************************************************************)
(* The cache is used and written only where the options of the run and the *)
(* links of the profile let it be, although write_cache is turned on and   *)
(* off by the entries that are met.                                        *)
(***************************************************************************)
CacheAsAllowed == BadEntryKept /\ ComplainBypassesCache /\ UnaskedWriteIsRecompression
=============================================================================
