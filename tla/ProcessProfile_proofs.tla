----------------------- MODULE ProcessProfile_proofs -----------------------
(***************************************************************************)
(* What process_profile loads, reports and caches, for any number of       *)
(* profiles, and all options, links and cache entries.                     *)
(*                                                                         *)
(* The globals that outlive a profile are tied to what was met so far: the *)
(* compression policy and write_cache are only what the options asked for, *)
(* or what some entry found until now has made of them (Globals).  The     *)
(* rest of the invariant follows the profile in work from step to step     *)
(* (Current); what a profile did is right at every step and stays so       *)
(* (Right), and the profiles to come are untouched (Ahead).                *)
(***************************************************************************)
EXTENDS ProcessProfile, TLAPS

Steps == {"open", "parse", "cached", "compile", "load", "install", "done"}
LogRecord == [found : EntryForms, cached : BOOLEAN, stale : BOOLEAN,
              sent : {"nothing", "raw", "zstd"}, zfail : BOOLEAN, wrote : BOOLEAN,
              conflict : {"none", "absent", "old", "cached", "new"}]

TypeOK ==
    /\ option \in {"add", "replace", "remove", "stdout"} /\ given \in SUBSET AllOptions
    /\ skip_cache \in BOOLEAN /\ skip_read_cache \in BOOLEAN /\ write_cache \in BOOLEAN
    /\ kernel_load \in BOOLEAN /\ cond_clear_cache \in BOOLEAN /\ policy_cache \in BOOLEAN
    /\ zpol \in {"NONE", "POLICY", "PRECOMPRESSED"}
    /\ pc \in Steps /\ cur \in 1 .. NProfiles + 1 /\ (pc # "done" => cur \in Profiles)
    /\ force_complain \in BOOLEAN /\ mru_skip_cache \in BOOLEAN /\ hats \in BOOLEAN
    /\ retval \in {0, 1}
    /\ tmp \in [exists : BOOLEAN, whole : BOOLEAN]
    /\ cache \in [Profiles -> Entry]
    /\ link \in [Profiles -> {"none", "disable", "complain"}]
    /\ loaded \in [Profiles -> {"absent", "old", "cached", "new"}]
    /\ result \in [Profiles -> {"pending", "ok", "error"}]
    /\ log \in [Profiles -> LogRecord]

(* Some profile up to p had an entry of one of these forms. *)
Met(p, forms) == \E q \in 1 .. p : log[q].found \in forms
Compressed == {"zlow", "zhigh"}

(* What the options decide for good. *)
Options ==
    /\ policy_cache => option # "remove"
    /\ Given("skip-bad-cache") => ~cond_clear_cache
    /\ option = "stdout" => ~kernel_load

(* What the globals may have become. *)
Globals ==
    pc # "done" =>
        /\ zpol = "NONE" <=> ~Given("zstd")
        /\ zpol = "PRECOMPRESSED" => Met(cur, Compressed)
        /\ (write_cache /\ ~Given("write-cache")) =>
               Given("zstd") /\ Met(cur, {"plain", "zlow"})

(* No trace of the profiles that have yet to come. *)
Ahead ==
    pc # "done" =>
        /\ result[cur] = "pending" /\ ~log[cur].wrote
        /\ pc = "open" => log[cur] = NoLog /\ tmp = NoTmp
        /\ pc \in {"open", "parse", "cached"} => loaded[cur] \in {"absent", "old"} /\ ~log[cur].cached
        /\ \A p \in Profiles : p > cur =>
               log[p] = NoLog /\ result[p] = "pending" /\ loaded[p] \in {"absent", "old"}

InWork == pc \in {"parse", "cached", "compile", "load", "install"}

(* Where the profile in work is. *)
Current ==
    /\ (pc \in {"parse", "cached"} /\ ~mru_skip_cache) =>
           /\ entry.form \in {"plain", "zlow", "zhigh"} /\ ~entry.stale /\ ~force_complain
           /\ entry.form \in Compressed => Given("zstd")
           /\ log[cur].found = entry.form
    /\ pc = "cached" => ~mru_skip_cache
    /\ tmp.exists => policy_cache
    /\ (InWork /\ (Given("Complain") \/ DirMode("complain"))) => force_complain
    /\ (InWork /\ Given("skip-bad-cache") /\ ~skip_read_cache /\ log[cur].found = "bad")
           => ~write_cache \/ force_complain \/ ~policy_cache
    /\ pc \in {"compile", "load"} =>
           /\ loaded[cur] # "new"
           /\ loaded[cur] = "cached" => Given("zstd") /\ ~Given("skip-bad-cache-rebuild")
    /\ (pc = "install" /\ ~hats /\ retval = 0) =>
           /\ tmp.whole
           /\ (kernel_load /\ option # "remove") => loaded[cur] = "new"

(* The properties, one profile at a time. *)
Loads(p) ==
    /\ ~log[p].stale
    /\ log[p].sent = "zstd" => Given("zstd")
    /\ (log[p].sent = "raw" /\ Given("zstd")) => log[p].zfail \/ Met(p, Compressed)

Reports(p) ==
    /\ (log[p].wrote /\ ~hats) => cache[p].whole /\ (kernel_load => loaded[p] = "new")
    /\ (/\ result[p] = "ok" /\ kernel_load /\ ~hats /\ ~info
        /\ link[p] # "disable" /\ option \in {"add", "replace"}) => loaded[p] \in {"cached", "new"}
    /\ log[p].conflict = "cached" =>
           option = "add" /\ Given("zstd") /\ ~Given("skip-bad-cache-rebuild")

Caches(p) ==
    /\ (Given("skip-bad-cache") /\ ~skip_read_cache /\ log[p].found = "bad") => ~log[p].wrote
    /\ (option # "remove" /\ ~Given("preprocess") /\ ~Given("stdin")
           /\ (link[p] = "complain" \/ Given("Complain"))) => ~log[p].cached /\ ~log[p].wrote
    /\ (log[p].wrote /\ ~Given("write-cache")) =>
           Given("zstd") /\ Met(p, {"plain", "zlow"})

Right(p) == Loads(p) /\ Reports(p) /\ Caches(p)

IInv == /\ TypeOK /\ Options /\ Globals /\ Ahead /\ Current
        /\ \A p \in Profiles : Right(p)

-----------------------------------------------------------------------------
LEMMA InitType == Init => TypeOK
<1> SUFFICES ASSUME Init PROVE TypeOK
  OBVIOUS
<1>1. option \in {"add", "replace", "remove", "stdout"} /\ given \in SUBSET AllOptions
  BY OptionsAssumption DEF Init, ProcessArg
<1>2. /\ skip_cache \in BOOLEAN /\ skip_read_cache \in BOOLEAN
      /\ kernel_load \in BOOLEAN /\ cond_clear_cache \in BOOLEAN
  BY Zenon DEF Init, ProcessArg
<1>3. write_cache \in BOOLEAN /\ policy_cache \in BOOLEAN /\ zpol \in {"NONE", "POLICY", "PRECOMPRESSED"}
  <2>1. zpol \in {"NONE", "POLICY", "PRECOMPRESSED"}
    BY DEF Init, SetupCache
  <2>2. \/ policy_cache \in BOOLEAN /\ write_cache = (Given("write-cache") /\ policy_cache)
        \/ policy_cache = FALSE /\ write_cache = Given("write-cache")
    BY DEF Init, SetupCache
  <2>3. policy_cache \in BOOLEAN
    BY <2>2
  <2>4. write_cache \in BOOLEAN
    <3>1. (Given("write-cache") /\ policy_cache) \in BOOLEAN /\ Given("write-cache") \in BOOLEAN
      BY DEF Given
    <3> QED BY <2>2, <3>1, Zenon
  <2> QED BY <2>1, <2>3, <2>4
<1>4. /\ cache \in [Profiles -> Entry] /\ hats \in BOOLEAN
      /\ link \in [Profiles -> {"none", "disable", "complain"}]
  BY OptionsAssumption DEF Init
<1>5. NoLog \in LogRecord /\ NoTmp \in [exists : BOOLEAN, whole : BOOLEAN]
  BY DEF NoLog, NoTmp, LogRecord, EntryForms
<1>6. cur = 1 /\ cur \in Profiles /\ cur \in 1 .. NProfiles + 1
  BY NProfilesAssumption DEF Init, Profiles
<1>7. loaded \in [Profiles -> {"absent", "old", "cached", "new"}]
  BY DEF Init
<1> QED BY <1>1, <1>2, <1>3, <1>4, <1>5, <1>6, <1>7 DEF Init, TypeOK, Steps

(* process_profile is done with the profile: the type of what Out sets. *)
LEMMA OutType ==
    ASSUME TypeOK, pc # "done", NEW r \in {0, 1}, Out(r)
    PROVE  /\ result' \in [Profiles -> {"pending", "ok", "error"}]
           /\ cur' \in 1 .. NProfiles + 1 /\ pc' \in {"done", "open"} /\ (pc' # "done" => cur' \in Profiles)
           /\ mru_skip_cache' \in BOOLEAN /\ retval' \in {0, 1}
           /\ tmp' \in [exists : BOOLEAN, whole : BOOLEAN]
<1>1. cur \in 1 .. NProfiles /\ cur' = cur + 1 /\ (pc' = "done" \/ (pc' = "open" /\ cur # NProfiles))
  BY DEF Out, TypeOK, Profiles
<1>2. cur' \in 1 .. NProfiles + 1 /\ (pc' # "done" => cur' \in Profiles)
  BY <1>1, NProfilesAssumption DEF Profiles
<1>3. result' \in [Profiles -> {"pending", "ok", "error"}]
  BY DEF Out, TypeOK
<1>4. tmp' \in [exists : BOOLEAN, whole : BOOLEAN]
  BY DEF Out, NoTmp
<1> QED BY <1>1, <1>2, <1>3, <1>4 DEF Out

(* The log of the profile in work gets other values in some of its fields. *)
LEMMA LogType ==
    ASSUME TypeOK, pc # "done", NEW l \in LogRecord, log' = [log EXCEPT ![cur] = l]
    PROVE  log' \in [Profiles -> LogRecord]
BY DEF TypeOK

LEMMA NextType == TypeOK /\ [Next]_vars => TypeOK'
<1> SUFFICES ASSUME TypeOK, [Next]_vars PROVE TypeOK'
  OBVIOUS
<1>0. ASSUME pc # "done"
      PROVE  /\ cur \in Profiles /\ log[cur] \in LogRecord
             /\ loaded[cur] \in {"absent", "old", "cached", "new"}
             /\ entry \in Entry
  BY <1>0 DEF TypeOK, entry
<1>1. CASE Fatal
  <2>1. result' \in [Profiles -> {"pending", "ok", "error"}]
    BY <1>1 DEF Fatal, TypeOK
  <2> QED BY <1>1, <2>1 DEF Fatal, globals, settings, TypeOK, Steps
<1>2. CASE OpenFails
  <2>1. force_complain' \in BOOLEAN
    BY <1>2 DEF OpenFails, Given
  <2>2. Out(1) /\ pc # "done"
    BY <1>2 DEF OpenFails
  <2> QED BY <1>2, <2>1, <2>2, OutType DEF OpenFails, globals, settings, TypeOK, Steps
<1>3. CASE SkipDisabled
  <2>1. force_complain' \in BOOLEAN
    BY <1>3 DEF SkipDisabled, Given
  <2>2. Out(0) /\ pc # "done"
    BY <1>3 DEF SkipDisabled
  <2> QED BY <1>3, <2>1, <2>2, OutType DEF SkipDisabled, globals, settings, TypeOK, Steps
<1>4. CASE OpenProfile
  <2>1. force_complain' \in BOOLEAN
    BY <1>4 DEF OpenProfile, Given, DirMode
  <2>2. log' \in [Profiles -> LogRecord]
    <3>1. CASE log' = [log EXCEPT ![cur].found = entry.form]
      <4>1. [log[cur] EXCEPT !.found = entry.form] \in LogRecord
        BY <1>0, <1>4 DEF OpenProfile, LogRecord, Entry
      <4>2. log' = [log EXCEPT ![cur] = [log[cur] EXCEPT !.found = entry.form]]
        BY <3>1
      <4> QED BY <1>4, <4>1, <4>2, LogType DEF OpenProfile
    <3>2. CASE UNCHANGED log
      BY <3>2 DEF TypeOK
    <3> QED BY <1>4, <3>1, <3>2 DEF OpenProfile
  <2>3. /\ zpol' \in {"NONE", "POLICY", "PRECOMPRESSED"}
        /\ skip_cache' \in BOOLEAN
    BY <1>4 DEF OpenProfile, TypeOK, SetupCachePolicy
  <2>4. mru_skip_cache' \in BOOLEAN
    <3>1. (~SetupCachePolicy(entry).hit \/ entry.stale) \in BOOLEAN
      OBVIOUS
    <3>2. \/ mru_skip_cache' = TRUE
          \/ mru_skip_cache' = (~SetupCachePolicy(entry).hit \/ entry.stale)
      BY <1>4, Zenon DEF OpenProfile
    <3> QED BY <3>1, <3>2, Zenon
  <2>5. write_cache' \in BOOLEAN
    <3>1. \/ write_cache' = FALSE \/ write_cache' = write_cache
          \/ entry.form # "none" /\ write_cache' = SetupCachePolicy(entry).write
      BY <1>4, Zenon DEF OpenProfile
    <3>2. entry.form # "none" => SetupCachePolicy(entry).write \in BOOLEAN
      BY <1>0, <1>4 DEF OpenProfile, SetupCachePolicy, TypeOK, Entry, EntryForms
    <3> QED BY <3>1, <3>2, Zenon DEF TypeOK
  <2>6. /\ UNCHANGED <<settings, skip_read_cache, cur, retval, tmp, cache, loaded, result>>
        /\ pc = "open" /\ pc' = "parse"
    BY <1>4 DEF OpenProfile
  <2> QED BY <2>1, <2>2, <2>3, <2>4, <2>5, <2>6 DEF settings, TypeOK, Steps
<1>5. CASE Parse
  <2>1. skip_cache' \in BOOLEAN
    BY <1>5 DEF Parse, Given
  <2> QED BY <1>5, <2>1 DEF Parse, settings, TypeOK, Steps
<1>6. CASE ParseFails
  <2>2. Out(1) /\ pc # "done"
    BY <1>6 DEF ParseFails
  <2> QED BY <1>6, <2>2, OutType DEF ParseFails, globals, settings, TypeOK, Steps
<1>7. CASE CachedOk
  <2>1. loaded' \in [Profiles -> {"absent", "old", "cached", "new"}]
    BY <1>7 DEF CachedOk, TypeOK
  <2>2. log' \in [Profiles -> LogRecord]
    <3>1. CASE kernel_load
      <4>1. PICK zfail \in BOOLEAN, stale \in BOOLEAN, sent \in {"raw", "zstd"} :
               log' = [log EXCEPT ![cur].cached = TRUE, ![cur].zfail = zfail,
                                  ![cur].stale = stale, ![cur].sent = sent]
        BY <1>7, <3>1 DEF CachedOk
      <4>2. [log[cur] EXCEPT !.cached = TRUE, !.zfail = zfail, !.stale = stale, !.sent = sent] \in LogRecord
        BY <1>0, <1>7 DEF CachedOk, LogRecord
      <4>3. log' = [log EXCEPT ![cur] = [log[cur] EXCEPT !.cached = TRUE, !.zfail = zfail,
                                                         !.stale = stale, !.sent = sent]]
        BY <4>1, <1>0, <1>7 DEF CachedOk, TypeOK
      <4> QED BY <1>7, <4>2, <4>3, LogType DEF CachedOk
    <3>2. CASE ~kernel_load
      BY <1>7, <3>2 DEF CachedOk, TypeOK
    <3> QED BY <3>1, <3>2
  <2>3. pc = "cached" /\ UNCHANGED <<globals, settings, force_complain, cache>>
    BY <1>7 DEF CachedOk
  <2>4. CASE Out(0)
    BY <2>1, <2>2, <2>3, <2>4, OutType DEF globals, settings, TypeOK, Steps
  <2>5. CASE pc' = "compile" /\ UNCHANGED <<cur, mru_skip_cache, retval, tmp, result>>
    BY <2>1, <2>2, <2>3, <2>5 DEF globals, settings, TypeOK, Steps
  <2> QED BY <1>7, <2>4, <2>5 DEF CachedOk
<1>8. CASE CachedFails
  <2>1. log' \in [Profiles -> LogRecord]
    <3>1. PICK c \in {"none", "absent", "old", "cached", "new"} : log' = [log EXCEPT ![cur].conflict = c]
      BY <1>8, <1>0 DEF CachedFails, TypeOK, LogRecord
    <3>2. [log[cur] EXCEPT !.conflict = c] \in LogRecord
      BY <1>0, <1>8 DEF CachedFails, LogRecord
    <3> QED BY <1>8, <3>1, <3>2, LogType DEF CachedFails
  <2>2. pc = "cached" /\ UNCHANGED <<globals, settings, force_complain, cache, loaded>>
    BY <1>8 DEF CachedFails
  <2>3. CASE Out(1)
    BY <2>1, <2>2, <2>3, OutType DEF globals, settings, TypeOK, Steps
  <2>4. CASE pc' = "compile" /\ UNCHANGED <<cur, mru_skip_cache, retval, tmp, result>>
    BY <2>1, <2>2, <2>4 DEF globals, settings, TypeOK, Steps
  <2> QED BY <1>8, <2>3, <2>4 DEF CachedFails
<1>9. CASE StopEarly
  <2>1. (Out(0) \/ Out(1)) /\ pc # "done"
    BY <1>9 DEF StopEarly
  <2> QED BY <1>9, <2>1, OutType DEF StopEarly, globals, settings, TypeOK, Steps
<1>10. CASE SetupTmp
  <2>1. tmp' = tmp \/ tmp' = NoTmp \/ tmp' = [exists |-> TRUE, whole |-> TRUE]
    BY <1>10, Zenon DEF SetupTmp
  <2>2. tmp' \in [exists : BOOLEAN, whole : BOOLEAN]
    <3>1. /\ tmp \in [exists : BOOLEAN, whole : BOOLEAN] /\ NoTmp \in [exists : BOOLEAN, whole : BOOLEAN]
          /\ [exists |-> TRUE, whole |-> TRUE] \in [exists : BOOLEAN, whole : BOOLEAN]
      BY DEF NoTmp, TypeOK
    <3> QED BY <2>1, <3>1, Zenon
  <2>3. write_cache' = write_cache \/ write_cache' = FALSE
    BY <1>10, Zenon DEF SetupTmp
  <2>4. write_cache' \in BOOLEAN
    BY <2>3, Zenon DEF TypeOK
  <2>5. /\ pc = "compile" /\ pc' = "load"
        /\ UNCHANGED <<skip_cache, skip_read_cache, zpol, settings, cur, force_complain,
                       mru_skip_cache, retval, cache, loaded, result, log>>
    BY <1>10, Zenon DEF SetupTmp
  <2> QED BY <2>2, <2>4, <2>5 DEF settings, TypeOK, Steps
<1>11. CASE LoadPolicy
  <2>1. retval' \in {0, 1}
    BY <1>11 DEF LoadPolicy, SerializeResult
  <2>2. tmp' \in [exists : BOOLEAN, whole : BOOLEAN]
    BY <1>11 DEF LoadPolicy, TypeOK
  <2>3. loaded' \in [Profiles -> {"absent", "old", "cached", "new"}]
    BY <1>11 DEF LoadPolicy, TypeOK
  <2>4. log' \in [Profiles -> LogRecord]
    <3>1. CASE UNCHANGED log
      BY <3>1 DEF TypeOK
    <3>2. ASSUME NEW s \in {"nothing", "raw", "zstd"}, log' = [log EXCEPT ![cur].sent = s]
          PROVE  log' \in [Profiles -> LogRecord]
      <4>1. [log[cur] EXCEPT !.sent = s] \in LogRecord
        BY <1>0, <1>11 DEF LoadPolicy, LogRecord
      <4> QED BY <1>11, <3>2, <4>1, LogType DEF LoadPolicy
    <3>3. ASSUME NEW c \in {"none", "absent", "old", "cached", "new"}, log' = [log EXCEPT ![cur].conflict = c]
          PROVE  log' \in [Profiles -> LogRecord]
      <4>1. [log[cur] EXCEPT !.conflict = c] \in LogRecord
        BY <1>0, <1>11 DEF LoadPolicy, LogRecord
      <4> QED BY <1>11, <3>3, <4>1, LogType DEF LoadPolicy
    <3>4. \/ UNCHANGED log
          \/ \E s \in {"nothing", "raw", "zstd"} : log' = [log EXCEPT ![cur].sent = s]
          \/ \E c \in {"none", "absent", "old", "cached", "new"} : log' = [log EXCEPT ![cur].conflict = c]
      BY <1>0, <1>11 DEF LoadPolicy, LogRecord
    <3> QED BY <3>1, <3>2, <3>3, <3>4
  <2>5. /\ UNCHANGED <<globals, settings, cur, force_complain, mru_skip_cache, cache, result>>
        /\ pc = "load" /\ pc' = "install"
    BY <1>11 DEF LoadPolicy
  <2> QED BY <2>1, <2>2, <2>3, <2>4, <2>5 DEF globals, settings, TypeOK, Steps
<1>12. CASE CompressFails
  <2>1. tmp' \in [exists : BOOLEAN, whole : BOOLEAN]
    BY <1>12 DEF CompressFails, TypeOK
  <2>2. log' \in [Profiles -> LogRecord]
    <3>1. [log[cur] EXCEPT !.zfail = TRUE] \in LogRecord
      BY <1>0, <1>12 DEF CompressFails, LogRecord
    <3> QED BY <1>12, <3>1, LogType DEF CompressFails
  <2> QED BY <1>12, <2>1, <2>2 DEF CompressFails, globals, settings, TypeOK, Steps
<1>13. CASE Install
  <2>1. cache' \in [Profiles -> Entry]
    <3>1. \A e \in NewEntries : e \in Entry
      BY DEF NewEntries, TypeOK, Entry, EntryForms
    <3> QED BY <1>13, <3>1 DEF Install, TypeOK
  <2>2. log' \in [Profiles -> LogRecord]
    <3>1. CASE log' = [log EXCEPT ![cur].wrote = TRUE]
      <4>1. [log[cur] EXCEPT !.wrote = TRUE] \in LogRecord
        BY <1>0, <1>13 DEF Install, LogRecord
      <4> QED BY <1>13, <3>1, <4>1, LogType DEF Install
    <3>2. CASE UNCHANGED log
      BY <3>2 DEF TypeOK
    <3> QED BY <1>13, <3>1, <3>2 DEF Install
  <2>3. /\ pc = "install" /\ Out(retval) /\ retval \in {0, 1}
        /\ UNCHANGED <<globals, settings, force_complain, loaded>>
    BY <1>13 DEF Install, TypeOK
  <2>4. /\ result' \in [Profiles -> {"pending", "ok", "error"}]
        /\ cur' \in 1 .. NProfiles + 1 /\ pc' \in {"done", "open"} /\ (pc' # "done" => cur' \in Profiles)
        /\ mru_skip_cache' \in BOOLEAN /\ retval' \in {0, 1}
        /\ tmp' \in [exists : BOOLEAN, whole : BOOLEAN]
    BY <2>3, OutType
  <2> QED BY <2>1, <2>2, <2>3, <2>4 DEF globals, settings, TypeOK, Steps
<1>14. CASE UNCHANGED vars
  BY <1>14 DEF vars, globals, settings, TypeOK
<1> QED BY <1>1, <1>2, <1>3, <1>4, <1>5, <1>6, <1>7, <1>8, <1>9, <1>10, <1>11, <1>12, <1>13, <1>14
        DEF Next

(* Every reachable state is of the right type. *)
THEOREM TypeOKThm == Spec => []TypeOK
BY InitType, NextType, PTL DEF Spec

-----------------------------------------------------------------------------
(* What a step leaves alone: the settings, and everything of the profiles  *)
(* other than the one in work.                                             *)
LEMMA Settings ==
    ASSUME Next
    PROVE  /\ pc # "done"
           /\ option' = option /\ given' = given /\ kernel_load' = kernel_load
           /\ cond_clear_cache' = cond_clear_cache /\ policy_cache' = policy_cache
           /\ link' = link /\ hats' = hats /\ skip_read_cache' = skip_read_cache
<1>1. pc # "done" /\ UNCHANGED <<settings, skip_read_cache>>
  BY Zenon DEF Next, Fatal, OpenFails, SkipDisabled, OpenProfile, Parse, ParseFails, CachedOk,
         CachedFails, StopEarly, SetupTmp, LoadPolicy, CompressFails, Install, globals
<1> QED BY <1>1 DEF settings

LEMMA Others ==
    ASSUME TypeOK, Next, NEW p \in Profiles, p # cur
    PROVE  /\ log'[p] = log[p] /\ loaded'[p] = loaded[p]
           /\ result'[p] = result[p] /\ cache'[p] = cache[p]
<1>1. log'[p] = log[p]
  BY DEF TypeOK, Next, Fatal, OpenFails, SkipDisabled, OpenProfile, Parse, ParseFails, CachedOk,
         CachedFails, StopEarly, SetupTmp, LoadPolicy, CompressFails, Install
<1>2. loaded'[p] = loaded[p]
  BY DEF TypeOK, Next, Fatal, OpenFails, SkipDisabled, OpenProfile, Parse, ParseFails, CachedOk,
         CachedFails, StopEarly, SetupTmp, LoadPolicy, CompressFails, Install
<1>3. result'[p] = result[p]
  BY DEF TypeOK, Next, Fatal, OpenFails, SkipDisabled, OpenProfile, Parse, ParseFails, CachedOk,
         CachedFails, StopEarly, SetupTmp, LoadPolicy, CompressFails, Install, Out
<1>4. cache'[p] = cache[p]
  BY DEF TypeOK, Next, Fatal, OpenFails, SkipDisabled, OpenProfile, Parse, ParseFails, CachedOk,
         CachedFails, StopEarly, SetupTmp, LoadPolicy, CompressFails, Install
<1> QED BY <1>1, <1>2, <1>3, <1>4

(* The log of a cached binary that was loaded. *)
LEMMA CachedLog ==
    ASSUME TypeOK, CachedOk, kernel_load
    PROVE  /\ log'[cur].found = log[cur].found /\ log'[cur].wrote = log[cur].wrote
           /\ log'[cur].conflict = log[cur].conflict
           /\ log'[cur].stale <=> (entry.stale \/ entry.form = "bad")
           /\ log'[cur].sent \in {"raw", "zstd"}
           /\ log'[cur].sent = "zstd" => zpol = "POLICY" \/ entry.form \in Compressed
           /\ log'[cur].sent = "raw" => zpol # "POLICY" \/ log'[cur].zfail
<1>1. log \in [Profiles -> LogRecord] /\ cur \in Profiles /\ log[cur] \in LogRecord
  BY DEF TypeOK, CachedOk
<1>2. PICK zfail \in BOOLEAN :
         log' = [log EXCEPT ![cur].cached = TRUE, ![cur].zfail = zfail,
                           ![cur].stale = entry.stale \/ entry.form = "bad",
                           ![cur].sent =
                               IF (zpol = "POLICY" /\ ~zfail) \/ entry.form \in {"zlow", "zhigh"}
                               THEN "zstd" ELSE "raw"]
  BY DEF CachedOk
<1>3. PICK stale, sent :
        /\ stale = (entry.stale \/ entry.form = "bad")
        /\ sent = IF (zpol = "POLICY" /\ ~zfail) \/ entry.form \in {"zlow", "zhigh"}
                               THEN "zstd" ELSE "raw"
  OBVIOUS
<1>4. stale <=> (entry.stale \/ entry.form = "bad")
  BY <1>3, Zenon
<1>5. log' = [log EXCEPT ![cur].cached = TRUE, ![cur].zfail = zfail,
                         ![cur].stale = stale, ![cur].sent = sent]
  BY <1>2, <1>3, Zenon
<1>6. log'[cur] = [log[cur] EXCEPT !.cached = TRUE, !.zfail = zfail, !.stale = stale, !.sent = sent]
  BY <1>1, <1>5
<1>7. /\ log'[cur].found = log[cur].found /\ log'[cur].wrote = log[cur].wrote
      /\ log'[cur].conflict = log[cur].conflict
      /\ log'[cur].stale = stale /\ log'[cur].sent = sent /\ log'[cur].zfail = zfail
  BY <1>1, <1>6 DEF LogRecord
<1>8. log'[cur].stale <=> (entry.stale \/ entry.form = "bad")
  BY <1>7, <1>4, Zenon
<1>9. /\ sent \in {"raw", "zstd"}
      /\ sent = "zstd" => zpol = "POLICY" \/ entry.form \in Compressed
      /\ sent = "raw" => zpol # "POLICY" \/ zfail
  BY <1>3 DEF Compressed
<1> QED BY <1>7, <1>8, <1>9

LEMMA FoundKept ==
    ASSUME TypeOK, Ahead, Next, NEW p \in Profiles, log[p].found # "none"
    PROVE  log'[p].found = log[p].found
<1>1. CASE p = cur
  <2>1. pc # "open"
    BY <1>1, Settings DEF Ahead, NoLog
  <2>2. log[p] \in LogRecord /\ log \in [Profiles -> LogRecord]
    BY DEF TypeOK
  <2>3. CASE CachedOk
    BY <1>1, <2>3, CachedLog DEF CachedOk
  <2>4. CASE CachedFails \/ LoadPolicy
    BY <1>1, <2>2, <2>4 DEF CachedFails, LoadPolicy, LogRecord
  <2>5. CASE CompressFails \/ Install
    BY <1>1, <2>2, <2>5 DEF CompressFails, Install, LogRecord
  <2>6. \/ log' = log \/ CachedOk \/ CachedFails \/ LoadPolicy \/ CompressFails \/ Install
    BY <2>1, Zenon DEF Next, Fatal, OpenFails, SkipDisabled, OpenProfile, Parse, ParseFails,
                       StopEarly, SetupTmp
  <2> QED BY <2>3, <2>4, <2>5, <2>6
<1> QED BY <1>1, Others

LEMMA MetKept ==
    ASSUME TypeOK, Ahead, Next, NEW p \in 0 .. NProfiles, NEW forms, "none" \notin forms, Met(p, forms)
    PROVE  Met(p, forms)'
<1>1. PICK q \in 1 .. p : log[q].found \in forms
  BY DEF Met
<1>2. q \in Profiles
  BY NProfilesAssumption DEF Profiles
<1> QED BY <1>1, <1>2, FoundKept DEF Met

LEMMA MetCur ==
    ASSUME TypeOK, Ahead, Next, cur' = cur \/ cur' = cur + 1,
           NEW forms, "none" \notin forms, Met(cur, forms)
    PROVE  Met(cur, forms)'
<1>1. PICK q \in 1 .. cur : log[q].found \in forms
  BY DEF Met
<1>2. q \in Profiles /\ q \in 1 .. cur'
  BY Settings, NProfilesAssumption DEF TypeOK, Profiles
<1> QED BY <1>1, <1>2, FoundKept DEF Met

LEMMA OptionsKept == ASSUME Options, Next PROVE Options'
BY Settings DEF Options, Given

(* What holds of a profile stays true while its log does not change. *)
LEMMA LoadsKept ==
    ASSUME TypeOK, Ahead, Next, NEW p \in Profiles, Loads(p),
           log'[p].stale = log[p].stale, log'[p].sent = log[p].sent,
           log[p].zfail => log'[p].zfail
    PROVE  Loads(p)'
<1>1. p \in 0 .. NProfiles /\ "none" \notin Compressed
  BY NProfilesAssumption DEF Profiles, Compressed
<1>2. Met(p, Compressed) => Met(p, Compressed)'
  BY <1>1, MetKept
<1> QED BY <1>2, Settings DEF Loads, Given

LEMMA CachesKept ==
    ASSUME TypeOK, Ahead, Next, NEW p \in Profiles, Caches(p),
           log'[p].found = log[p].found \/ ~log[p].wrote,
           log'[p].wrote = log[p].wrote, log'[p].cached = log[p].cached
    PROVE  Caches(p)'
<1>1. p \in 0 .. NProfiles /\ "none" \notin {"plain", "zlow"}
  BY NProfilesAssumption DEF Profiles
<1>2. Met(p, {"plain", "zlow"}) => Met(p, {"plain", "zlow"})'
  BY <1>1, MetKept
<1> QED BY <1>2, Settings DEF Caches, Given

LEMMA ReportsKept ==
    ASSUME Next, NEW p \in Profiles, Reports(p),
           log'[p].wrote = log[p].wrote, log'[p].conflict = log[p].conflict,
           loaded'[p] = loaded[p], cache'[p] = cache[p],
           result'[p] = "ok" => result[p] = "ok"
    PROVE  Reports(p)'
BY Settings DEF Reports, Given, info

LEMMA OthersRight ==
    ASSUME TypeOK, Ahead, Next, NEW p \in Profiles, p # cur, Right(p)
    PROVE  Right(p)'
BY Others, LoadsKept, CachesKept, ReportsKept DEF Right

(* At the end of a profile the next one finds the globals as they are, and *)
(* nothing else.                                                           *)
LEMMA OutKeeps ==
    ASSUME TypeOK, Globals, Ahead, Current, Next, NEW r \in {0, 1}, Out(r),
           zpol' = zpol, write_cache' = write_cache
    PROVE  Globals' /\ Ahead' /\ Current'
<1>1. cur \in Profiles /\ pc # "done" /\ cur' = cur + 1 /\ pc' \in {"done", "open"} /\ tmp' = NoTmp
  BY Settings DEF Out, TypeOK
<1>2. Current'
  BY <1>1 DEF Current, InWork, NoTmp
<1>3. Globals'
  <2>2. Met(cur, Compressed) => Met(cur, Compressed)'
    BY <1>1, MetCur DEF Compressed
  <2>3. Met(cur, {"plain", "zlow"}) => Met(cur, {"plain", "zlow"})'
    BY <1>1, MetCur
  <2> QED BY <1>1, <2>2, <2>3, Settings DEF Globals, Given
<1>4. Ahead'
  <2>1. SUFFICES ASSUME pc' = "open"
                 PROVE  \A p \in Profiles : p >= cur' =>
                          log'[p] = NoLog /\ result'[p] = "pending" /\ loaded'[p] \in {"absent", "old"}
    <3>1. pc' = "open" => cur' \in Profiles
      BY <1>1, OutType
    <3> QED BY <1>1, <2>1, <3>1, NProfilesAssumption DEF Ahead, NoLog, Profiles
  <2>2. ASSUME NEW p \in Profiles, p >= cur' PROVE p > cur
    BY <1>1, <2>2, NProfilesAssumption DEF Profiles
  <2>3. ASSUME NEW p \in Profiles, p > cur PROVE p # cur
    BY <1>1, <2>3, NProfilesAssumption DEF Profiles
  <2> QED BY <1>1, <2>2, <2>3, Others DEF Ahead
<1> QED BY <1>2, <1>3, <1>4

(* Within a profile the ones ahead stay as they are. *)
LEMMA StepAhead ==
    ASSUME TypeOK, Ahead, Next, cur' = cur, pc' # "open", result'[cur] = "pending",
           ~log'[cur].wrote,
           pc' \in {"parse", "cached"} => loaded'[cur] \in {"absent", "old"} /\ ~log'[cur].cached
    PROVE  Ahead'
<1>1. cur \in Profiles
  BY Settings DEF TypeOK
<1>2. ASSUME NEW p \in Profiles, p > cur PROVE p # cur
  BY <1>1, <1>2, NProfilesAssumption DEF Profiles
<1> QED BY <1>2, Others, Settings DEF Ahead

LEMMA StepGlobals ==
    ASSUME TypeOK, Globals, Ahead, Next, cur' = cur, zpol' = zpol, write_cache' => write_cache
    PROVE  Globals'
<1>3. Met(cur, Compressed) => Met(cur, Compressed)'
  BY MetCur DEF Compressed
<1>4. Met(cur, {"plain", "zlow"}) => Met(cur, {"plain", "zlow"})'
  BY MetCur
<1> QED BY <1>3, <1>4, Settings DEF Globals, Given

-----------------------------------------------------------------------------
(* A step keeps the invariant if it does for the profile in work. *)
LEMMA Keeps ==
    ASSUME IInv, Next, Globals', Ahead', Current', \A p \in Profiles : p = cur => Right(p)'
    PROVE  IInv'
<1>1. TypeOK' /\ Options'
  BY NextType, OptionsKept DEF IInv
<1>2. \A p \in Profiles : Right(p)'
  BY OthersRight DEF IInv
<1> QED BY <1>1, <1>2 DEF IInv

LEMMA RightKept ==
    ASSUME IInv, Next, log' = log, loaded' = loaded, cache' = cache,
           NEW p \in Profiles, p = cur, result'[p] = "ok" => result[p] = "ok"
    PROVE  Right(p)'
BY LoadsKept, CachesKept, ReportsKept DEF Right, IInv

(* What setup_cache_policy makes of an entry. *)
LEMMA CachePolicy ==
    ASSUME TypeOK, NEW e \in Entry, e.form # "none", NEW s, s = SetupCachePolicy(e)
    PROVE  /\ s.hit => e.form \in {"plain", "zlow", "zhigh"} /\ (e.form \in Compressed => Given("zstd") \/ zpol # "NONE")
           /\ s.zpol = zpol \/ (s.zpol = "PRECOMPRESSED" /\ zpol # "NONE" /\ e.form \in Compressed)
           /\ s.write => write_cache \/ (zpol = "POLICY" /\ e.form \in {"plain", "zlow"})
           /\ (e.form = "bad" /\ s.write) => cond_clear_cache
<1> DEFINE recompress == e.form = "zlow" /\ Given("zstd-recompress") /\ Given("zstd")
           precompressed == e.form \in {"zlow", "zhigh"} /\ ~recompress
           write == CASE recompress \/ e.form = "plain" -> write_cache \/ zpol = "POLICY"
                      [] precompressed -> write_cache
                      [] e.form = "bad" -> write_cache /\ cond_clear_cache
<1>1. /\ s.hit <=> (e.form = "plain" \/ recompress \/ (precompressed /\ zpol # "NONE"))
      /\ s.zpol = IF precompressed /\ zpol # "NONE" THEN "PRECOMPRESSED" ELSE zpol
      /\ s.write = write
  BY Zenon DEF SetupCachePolicy
<1>2. e.form \in {"bad", "plain", "zlow", "zhigh"}
  BY DEF Entry, EntryForms
<1>3. CASE recompress \/ e.form = "plain"
  <2>1. write = (write_cache \/ zpol = "POLICY")
    BY <1>3
  <2>2. s.write <=> (write_cache \/ zpol = "POLICY")
    BY <1>1, <2>1, Zenon
  <2> QED BY <1>1, <1>3, <2>2 DEF Compressed
<1>4. CASE precompressed
  <2>1. s.write = write_cache
    BY <1>1, <1>4
  <2> QED BY <1>1, <1>4, <2>1 DEF Compressed
<1>5. CASE e.form = "bad"
  <2>1. write = (write_cache /\ cond_clear_cache)
    BY <1>5
  <2>2. s.write <=> (write_cache /\ cond_clear_cache)
    BY <1>1, <2>1, Zenon
  <2> QED BY <1>1, <1>5, <2>2 DEF Compressed
<1> QED BY <1>2, <1>3, <1>4, <1>5

LEMMA FatalKeeps == ASSUME IInv, Next, Fatal PROVE IInv'
<1>1. Globals' /\ Ahead'
  BY DEF Fatal, Globals, Ahead
<1>2. Current'
  BY Settings DEF IInv, Fatal, Current, InWork
<1>3. cur \in Profiles /\ result'[cur] = "error" /\ log' = log /\ loaded' = loaded /\ cache' = cache
  BY DEF Fatal, TypeOK, IInv
<1> QED BY <1>1, <1>2, <1>3, Keeps, RightKept

LEMMA LeaveKeeps ==
    ASSUME IInv, Next, OpenFails \/ SkipDisabled \/ ParseFails \/ StopEarly
    PROVE  IInv'
<1>1. PICK r \in {0, 1} : Out(r) /\ (r = 1 \/ info \/ link[cur] = "disable")
  BY DEF OpenFails, SkipDisabled, ParseFails, StopEarly, DirMode
<1>2. UNCHANGED globals /\ log' = log /\ loaded' = loaded /\ cache' = cache
  BY Zenon DEF OpenFails, SkipDisabled, ParseFails, StopEarly
<1>3. Globals' /\ Ahead' /\ Current'
  BY <1>1, <1>2, OutKeeps DEF IInv, globals
<1>4. ASSUME NEW p \in Profiles, p = cur PROVE Right(p)'
  <2>1. Loads(p)' /\ Caches(p)'
    BY <1>2, <1>4, LoadsKept, CachesKept DEF IInv, Right
  <2>2. result'[p] = IF r = 0 THEN "ok" ELSE "error"
    BY <1>1, <1>4 DEF Out, IInv, TypeOK
  <2>3. Reports(p)'
    BY <1>1, <1>2, <1>4, <2>2, Settings DEF IInv, Right, Reports, info, Given
  <2> QED BY <2>1, <2>3 DEF Right
<1> QED BY <1>3, <1>4, Keeps

LEMMA ParseKeeps == ASSUME IInv, Next, Parse PROVE IInv'
<1>1. /\ pc = "parse" /\ pc' = (IF ~mru_skip_cache THEN "cached" ELSE "compile")
      /\ cur \in Profiles /\ cur' = cur /\ force_complain' = force_complain /\ mru_skip_cache' = mru_skip_cache
      /\ write_cache' = write_cache /\ zpol' = zpol /\ retval' = retval /\ tmp' = tmp /\ cache' = cache
      /\ loaded' = loaded /\ result' = result /\ log' = log
  BY DEF Parse, IInv, TypeOK
<1>2. Globals'
  BY <1>1, StepGlobals DEF IInv
<1>3. Ahead'
  BY <1>1, StepAhead DEF IInv, Ahead
<1>4. Current'
  BY <1>1, Settings DEF IInv, Current, InWork, Ahead, entry, Given, DirMode
<1> QED BY <1>1, <1>2, <1>3, <1>4, Keeps, RightKept

LEMMA SetupTmpKeeps == ASSUME IInv, Next, SetupTmp PROVE IInv'
<1>1. /\ pc = "compile" /\ pc' = "load"
      /\ cur \in Profiles /\ cur' = cur /\ force_complain' = force_complain /\ mru_skip_cache' = mru_skip_cache
      /\ zpol' = zpol /\ cache' = cache
      /\ loaded' = loaded /\ result' = result /\ log' = log
  BY DEF SetupTmp, IInv, TypeOK
<1>2. /\ write_cache' => write_cache
      /\ tmp' = tmp \/ tmp' = NoTmp \/ policy_cache
  BY Zenon DEF SetupTmp
<1>3. Globals'
  BY <1>1, <1>2, StepGlobals DEF IInv
<1>4. Ahead'
  BY <1>1, StepAhead DEF IInv, Ahead
<1>5. Current'
  <2>1. (tmp.exists => policy_cache)'
    BY <1>2, Settings DEF IInv, Current, NoTmp
  <2> QED BY <1>1, <1>2, <2>1, Settings DEF IInv, Current, InWork, Given, DirMode
<1> QED BY <1>1, <1>3, <1>4, <1>5, Keeps, RightKept

LEMMA OpenKeeps == ASSUME IInv, Next, OpenProfile PROVE IInv'
<1>1. /\ pc = "open" /\ pc' = "parse" /\ cur \in Profiles /\ cur' = cur /\ retval' = retval /\ tmp' = tmp
      /\ cache' = cache /\ loaded' = loaded /\ result' = result
  BY DEF OpenProfile, IInv, TypeOK
<1>2. /\ log[cur] = NoLog /\ tmp = NoTmp /\ loaded[cur] \in {"absent", "old"} /\ result[cur] = "pending"
      /\ entry \in Entry /\ log \in [Profiles -> LogRecord]
  BY <1>1 DEF IInv, Ahead, TypeOK, entry
<1>3. force_complain' <=> (Given("Complain") \/ DirMode("complain"))
  BY Zenon DEF OpenProfile
<1>4. \/ /\ Given("stdin") /\ write_cache' = FALSE /\ mru_skip_cache' = TRUE /\ zpol' = zpol /\ log' = log
      \/ /\ log' = [log EXCEPT ![cur].found = entry.form]
         /\ ~force_complain' /\ policy_cache /\ entry.form # "none" /\ ~skip_read_cache
         /\ mru_skip_cache' = (~SetupCachePolicy(entry).hit \/ entry.stale)
         /\ zpol' = SetupCachePolicy(entry).zpol
         /\ write_cache' = SetupCachePolicy(entry).write
      \/ /\ log' = [log EXCEPT ![cur].found = entry.form]
         /\ option = "remove" \/ force_complain' \/ ~policy_cache \/ entry.form = "none" \/ skip_read_cache
         /\ mru_skip_cache' = TRUE /\ zpol' = zpol /\ write_cache' = write_cache
  BY Zenon DEF OpenProfile
<1>5. \/ log'[cur] = NoLog
      \/ log'[cur] = [NoLog EXCEPT !.found = entry.form]
  BY <1>1, <1>2, <1>4
<1>6. /\ log'[cur].sent = "nothing" /\ ~log'[cur].cached /\ ~log'[cur].wrote /\ ~log'[cur].stale
      /\ log'[cur].conflict = "none" /\ ~log'[cur].zfail
  BY <1>5 DEF NoLog
<1>7. ASSUME log' = [log EXCEPT ![cur].found = entry.form] PROVE log'[cur].found = entry.form
  BY <1>1, <1>2, <1>7 DEF LogRecord
<1>8. Ahead'
  BY <1>1, <1>2, <1>6, StepAhead DEF IInv
<1>9. ASSUME NEW p \in Profiles, p = cur PROVE Right(p)'
  BY <1>1, <1>2, <1>6, <1>9 DEF Right, Loads, Caches, Reports
<1>10. Globals' /\ Current'
  <2>1. CASE Given("stdin") /\ write_cache' = FALSE /\ mru_skip_cache' = TRUE /\ zpol' = zpol /\ log' = log
    <3>1. Globals'
      BY <1>1, <2>1, StepGlobals DEF IInv
    <3>2. Current'
      BY <1>1, <1>2, <1>3, <2>1, Settings DEF Current, NoTmp, NoLog, DirMode, Given
    <3> QED BY <3>1, <3>2
  <2>2. CASE /\ log' = [log EXCEPT ![cur].found = entry.form]
             /\ ~force_complain' /\ policy_cache /\ entry.form # "none" /\ ~skip_read_cache
             /\ mru_skip_cache' = (~SetupCachePolicy(entry).hit \/ entry.stale)
             /\ zpol' = SetupCachePolicy(entry).zpol
             /\ write_cache' = SetupCachePolicy(entry).write
    <3>1. PICK s : s = SetupCachePolicy(entry)
      OBVIOUS
    <3>2. /\ s.hit => entry.form \in {"plain", "zlow", "zhigh"} /\ (entry.form \in Compressed => Given("zstd") \/ zpol # "NONE")
          /\ s.zpol = zpol \/ (s.zpol = "PRECOMPRESSED" /\ zpol # "NONE" /\ entry.form \in Compressed)
          /\ s.write => write_cache \/ (zpol = "POLICY" /\ entry.form \in {"plain", "zlow"})
          /\ (entry.form = "bad" /\ s.write) => cond_clear_cache
      BY <1>2, <2>2, <3>1, CachePolicy DEF IInv
    <3>3. /\ zpol' = s.zpol /\ (write_cache' <=> s.write)
          /\ ~mru_skip_cache' <=> (s.hit /\ ~entry.stale)
      BY <2>2, <3>1, Zenon
    <3>4. /\ cur \in 1 .. cur /\ log'[cur].found = entry.form
      BY <1>1, <1>7, <2>2, NProfilesAssumption DEF Profiles
    <3>5. Globals'
      <4>1. ASSUME NEW forms, entry.form \in forms PROVE Met(cur, forms)'
        BY <1>1, <3>4, <4>1 DEF Met
      <4>2. Met(cur, Compressed) => Met(cur, Compressed)'
        BY <1>1, MetCur DEF Compressed, IInv
      <4>3. Met(cur, {"plain", "zlow"}) => Met(cur, {"plain", "zlow"})'
        BY <1>1, MetCur DEF IInv
      <4>4. entry.form \in Compressed => Met(cur, Compressed)'
        BY <4>1 DEF Compressed
      <4>5. /\ zpol = "NONE" <=> ~Given("zstd")
            /\ zpol = "PRECOMPRESSED" => Met(cur, Compressed)
            /\ (write_cache /\ ~Given("write-cache")) =>
                  Given("zstd") /\ Met(cur, {"plain", "zlow"})
        BY <1>1 DEF IInv, Globals
      <4>6. (zpol = "NONE" <=> ~Given("zstd"))'
        BY <3>2, <3>3, <4>5, Settings DEF Given
      <4>7. (zpol = "PRECOMPRESSED" => Met(cur, Compressed))'
        BY <3>2, <3>3, <4>2, <4>4, <4>5
      <4>8. ((write_cache /\ ~Given("write-cache")) => Given("zstd") /\ Met(cur, {"plain", "zlow"}))'
        BY <3>2, <3>3, <4>1, <4>3, <4>5, Settings DEF Given
      <4> QED BY <4>6, <4>7, <4>8 DEF Globals
    <3>6. Current'
      <4>1. (zpol = "NONE" <=> ~Given("zstd")) /\ (Given("skip-bad-cache") => ~cond_clear_cache)
        BY <1>1 DEF IInv, Globals, Options
      <4>2. entry' = entry
        BY <1>1 DEF entry
      <4> QED BY <1>1, <1>2, <1>3, <2>2, <3>2, <3>3, <3>4, <4>1, <4>2, Settings
              DEF Current, NoTmp, DirMode, Given
    <3> QED BY <3>5, <3>6
  <2>3. CASE /\ log' = [log EXCEPT ![cur].found = entry.form]
             /\ option = "remove" \/ force_complain' \/ ~policy_cache \/ entry.form = "none" \/ skip_read_cache
             /\ mru_skip_cache' = TRUE /\ zpol' = zpol /\ write_cache' = write_cache
    <3>1. Globals'
      BY <1>1, <2>3, StepGlobals DEF IInv
    <3>2. option = "remove" => ~policy_cache
      BY DEF IInv, Options
    <3>3. Current'
      BY <1>1, <1>2, <1>3, <1>7, <2>3, <3>2, Settings DEF Current, NoTmp, DirMode, Given
    <3> QED BY <3>1, <3>3
  <2> QED BY <1>4, <2>1, <2>2, <2>3, Zenon
<1> QED BY <1>8, <1>9, <1>10, Keeps

LEMMA CachedOkKeeps == ASSUME IInv, Next, CachedOk PROVE IInv'
<1>1. /\ pc = "cached" /\ cur \in Profiles /\ cache' = cache /\ force_complain' = force_complain
      /\ UNCHANGED globals
  BY DEF CachedOk, IInv, TypeOK
<1>2. /\ result[cur] = "pending" /\ ~log[cur].wrote /\ loaded[cur] \in {"absent", "old"}
      /\ log \in [Profiles -> LogRecord]
      /\ entry.form \in {"plain", "zlow", "zhigh"} /\ ~entry.stale /\ ~force_complain
      /\ entry.form \in Compressed => Given("zstd")
  BY <1>1 DEF IInv, Ahead, Current, TypeOK
<1>3. /\ (zpol = "NONE" <=> ~Given("zstd")) /\ (zpol = "PRECOMPRESSED" => Met(cur, Compressed))
      /\ zpol \in {"NONE", "POLICY", "PRECOMPRESSED"}
  BY <1>1 DEF IInv, Globals, TypeOK
<1>4. \/ kernel_load /\ loaded' = [loaded EXCEPT ![cur] = "cached"]
      \/ ~kernel_load /\ loaded' = loaded /\ log' = log
  BY Zenon DEF CachedOk
<1>5. loaded'[cur] = IF kernel_load THEN "cached" ELSE loaded[cur]
  BY <1>1, <1>4 DEF IInv, TypeOK
<1>6. /\ log'[cur].wrote = log[cur].wrote /\ log'[cur].conflict = log[cur].conflict
      /\ log'[cur].found = log[cur].found
  BY <1>4, CachedLog DEF IInv
<1>7. ASSUME NEW p \in Profiles, p = cur PROVE Loads(p)' /\ Caches(p)'
  <2>1. CASE ~kernel_load
    BY <1>4, <1>7, <2>1, LoadsKept, CachesKept DEF IInv, Right
  <2>2. CASE kernel_load
    <3>1. Met(p, Compressed) => Met(p, Compressed)'
      <4>1. p \in 0 .. NProfiles /\ "none" \notin Compressed
        BY NProfilesAssumption DEF Profiles, Compressed
      <4> QED BY <4>1, MetKept DEF IInv
    <3>2. Loads(p)'
      BY <1>2, <1>3, <1>7, <2>2, <3>1, CachedLog, Settings DEF IInv, Loads, Given
    <3>3. (option # "remove" /\ ~Given("preprocess") /\ ~Given("stdin")
             /\ (link[p] = "complain" \/ Given("Complain"))) => force_complain
      BY <1>1, <1>7 DEF IInv, Current, InWork, DirMode
    <3>4. Caches(p)'
      BY <1>2, <1>6, <1>7, <3>3, Settings DEF IInv, Right, Caches, Given
    <3> QED BY <3>2, <3>4
  <2> QED BY <2>1, <2>2
<1>8. CASE Out(0)
  <2>1. Globals' /\ Ahead' /\ Current'
    BY <1>1, <1>8, OutKeeps DEF IInv, globals
  <2>2. ASSUME NEW p \in Profiles, p = cur PROVE Right(p)'
    <3>1. Reports(p)'
      BY <1>2, <1>5, <1>6, <2>2, Settings DEF IInv, Right, Reports, info, Given
    <3> QED BY <1>7, <2>2, <3>1 DEF Right
  <2> QED BY <2>1, <2>2, Keeps
<1>9. CASE /\ write_cache /\ zpol = "POLICY" /\ ~Given("skip-bad-cache-rebuild")
           /\ pc' = "compile" /\ UNCHANGED <<cur, mru_skip_cache, retval, tmp, result>>
  <2>1. Globals'
    BY <1>1, <1>9, StepGlobals DEF IInv, globals
  <2>2. Ahead'
    BY <1>2, <1>6, <1>9, StepAhead DEF IInv
  <2>3. Current'
    <3>1. (pc \in {"compile", "load"} =>
             /\ loaded[cur] # "new"
             /\ loaded[cur] = "cached" => Given("zstd") /\ ~Given("skip-bad-cache-rebuild"))'
      BY <1>2, <1>3, <1>5, <1>9, Settings DEF Given
    <3> QED BY <1>1, <1>6, <1>9, <3>1, Settings DEF IInv, Current, InWork, globals, Given, DirMode
  <2>4. ASSUME NEW p \in Profiles, p = cur PROVE Right(p)'
    <3>1. Reports(p)'
      BY <1>2, <1>6, <1>9, <2>4, Settings DEF IInv, Right, Reports, info, Given
    <3> QED BY <1>7, <2>4, <3>1 DEF Right
  <2> QED BY <2>1, <2>2, <2>3, <2>4, Keeps
<1> QED BY <1>8, <1>9, Zenon DEF CachedOk

LEMMA CachedFailsKeeps == ASSUME IInv, Next, CachedFails PROVE IInv'
<1>1. /\ pc = "cached" /\ cur \in Profiles /\ cache' = cache /\ force_complain' = force_complain
      /\ loaded' = loaded /\ UNCHANGED globals
  BY DEF CachedFails, IInv, TypeOK
<1>2. /\ result[cur] = "pending" /\ ~log[cur].wrote /\ loaded[cur] \in {"absent", "old"}
      /\ log \in [Profiles -> LogRecord] /\ log[cur] \in LogRecord
  BY <1>1 DEF IInv, Ahead, TypeOK
<1>3. PICK c : c \in {log[cur].conflict, loaded[cur]} /\ log' = [log EXCEPT ![cur].conflict = c]
  BY <1>1, <1>2 DEF CachedFails
<1>4. log'[cur] = [log[cur] EXCEPT !.conflict = c]
  BY <1>1, <1>2, <1>3
<1>5. /\ log'[cur].wrote = log[cur].wrote /\ log'[cur].found = log[cur].found
      /\ log'[cur].stale = log[cur].stale /\ log'[cur].sent = log[cur].sent
      /\ log'[cur].zfail = log[cur].zfail /\ log'[cur].cached = log[cur].cached
      /\ log'[cur].conflict = c
  BY <1>2, <1>4 DEF LogRecord
<1>6. ASSUME NEW p \in Profiles, p = cur, result'[p] # "ok" PROVE Right(p)'
  <2>1. Loads(p)' /\ Caches(p)'
    BY <1>5, <1>6, LoadsKept, CachesKept DEF IInv, Right
  <2>2. log'[p].conflict = "cached" => log[p].conflict = "cached"
    BY <1>2, <1>3, <1>5, <1>6
  <2>3. Reports(p)'
    BY <1>1, <1>2, <1>5, <1>6, <2>2, Settings DEF IInv, Right, Reports, info, Given
  <2> QED BY <2>1, <2>3 DEF Right
<1>7. CASE Out(1)
  <2>1. Globals' /\ Ahead' /\ Current'
    BY <1>1, <1>7, OutKeeps DEF IInv, globals
  <2>2. result'[cur] = "error"
    BY <1>1, <1>7 DEF Out, IInv, TypeOK
  <2> QED BY <1>6, <2>1, <2>2, Keeps
<1>8. CASE pc' = "compile" /\ UNCHANGED <<cur, mru_skip_cache, retval, tmp, result>>
  <2>1. Globals'
    BY <1>1, <1>8, StepGlobals DEF IInv, globals
  <2>2. Ahead'
    BY <1>2, <1>5, <1>8, StepAhead DEF IInv
  <2>3. Current'
    BY <1>1, <1>2, <1>5, <1>8, Settings DEF IInv, Current, InWork, globals, Given, DirMode
  <2> QED BY <1>2, <1>6, <1>8, <2>1, <2>2, <2>3, Keeps
<1> QED BY <1>7, <1>8, Zenon DEF CachedFails

LEMMA CompressFailsKeeps == ASSUME IInv, Next, CompressFails PROVE IInv'
<1>1. /\ pc = "load" /\ pc' = "install" /\ cur \in Profiles /\ cur' = cur /\ cache' = cache
      /\ force_complain' = force_complain /\ loaded' = loaded /\ result' = result /\ retval' = 1
      /\ tmp' = [tmp EXCEPT !.whole = FALSE] /\ UNCHANGED globals
  BY DEF CompressFails, IInv, TypeOK
<1>2. /\ result[cur] = "pending" /\ ~log[cur].wrote
      /\ log \in [Profiles -> LogRecord] /\ log[cur] \in LogRecord
      /\ tmp \in [exists : BOOLEAN, whole : BOOLEAN]
  BY <1>1 DEF IInv, Ahead, TypeOK
<1>3. log'[cur] = [log[cur] EXCEPT !.zfail = TRUE]
  BY <1>1, <1>2 DEF CompressFails
<1>4. /\ log'[cur].wrote = log[cur].wrote /\ log'[cur].found = log[cur].found
      /\ log'[cur].stale = log[cur].stale /\ log'[cur].sent = log[cur].sent
      /\ log'[cur].zfail = TRUE /\ log'[cur].cached = log[cur].cached
      /\ log'[cur].conflict = log[cur].conflict
  BY <1>2, <1>3 DEF LogRecord
<1>5. ASSUME NEW p \in Profiles, p = cur PROVE Right(p)'
  BY <1>1, <1>4, <1>5, LoadsKept, CachesKept, ReportsKept DEF IInv, Right
<1>6. Globals'
  BY <1>1, StepGlobals DEF IInv, globals
<1>7. Ahead'
  BY <1>1, <1>2, <1>4, StepAhead DEF IInv
<1>8. Current'
  <2>1. tmp'.exists = tmp.exists
    BY <1>1, <1>2
  <2> QED BY <1>1, <1>4, <2>1, Settings DEF IInv, Current, InWork, globals, Given, DirMode
<1> QED BY <1>5, <1>6, <1>7, <1>8, Keeps

LEMMA LoadPolicyKeeps == ASSUME IInv, Next, LoadPolicy PROVE IInv'
<1>1. /\ pc = "load" /\ pc' = "install" /\ cur \in Profiles /\ cur' = cur /\ cache' = cache
      /\ force_complain' = force_complain /\ result' = result /\ UNCHANGED globals
  BY DEF LoadPolicy, IInv, TypeOK
<1>2. /\ result[cur] = "pending" /\ ~log[cur].wrote /\ loaded[cur] # "new"
      /\ loaded[cur] = "cached" => Given("zstd") /\ ~Given("skip-bad-cache-rebuild")
      /\ log \in [Profiles -> LogRecord] /\ log[cur] \in LogRecord
      /\ tmp \in [exists : BOOLEAN, whole : BOOLEAN]
  BY <1>1 DEF IInv, Ahead, Current, TypeOK
<1>3. /\ (zpol = "NONE" <=> ~Given("zstd")) /\ (zpol = "PRECOMPRESSED" => Met(cur, Compressed))
      /\ zpol \in {"NONE", "POLICY", "PRECOMPRESSED"}
  BY <1>1 DEF IInv, Globals, TypeOK
<1>4. PICK k, w, hk, hw \in BOOLEAN :
         /\ (kernel_load /\ ~KernelMayAccept) => ~k
         /\ (~kernel_load /\ option # "stdout") => k /\ hk
         /\ (~tmp.exists \/ option = "remove") => w /\ hw
         /\ (~hats \/ option = "remove") => hk /\ hw
         /\ retval' = SerializeResult(k, w, hk /\ hw)
         /\ tmp' = [tmp EXCEPT !.whole = w /\ hw]
         /\ IF ~kernel_load THEN UNCHANGED <<loaded, log>>
            ELSE IF k
            THEN /\ loaded' = [loaded EXCEPT ![cur] =
                                 IF option = "remove" THEN "absent" ELSE "new"]
                 /\ log' = [log EXCEPT ![cur].sent = IF option = "remove" THEN "nothing"
                                                       ELSE IF zpol = "POLICY" THEN "zstd" ELSE "raw"]
            ELSE /\ UNCHANGED loaded
                 /\ log' = [log EXCEPT ![cur].conflict = IF KernelMayAccept THEN @ ELSE loaded[cur]]
  BY Zenon DEF LoadPolicy
<1>5. \/ ~kernel_load /\ loaded' = loaded /\ log' = log
      \/ /\ kernel_load /\ k
         /\ loaded' = [loaded EXCEPT ![cur] = IF option = "remove" THEN "absent" ELSE "new"]
         /\ \E s \in {"nothing", "zstd", "raw"} :
              /\ log' = [log EXCEPT ![cur].sent = s]
              /\ s = "zstd" => zpol = "POLICY"
              /\ s = "raw" => zpol # "POLICY"
      \/ /\ kernel_load /\ ~k /\ loaded' = loaded
         /\ \E c \in {log[cur].conflict, loaded[cur]} :
              /\ log' = [log EXCEPT ![cur].conflict = c]
              /\ c = "cached" => log[cur].conflict = "cached" \/ (option = "add" /\ loaded[cur] = "cached")
  <2>1. CASE kernel_load /\ k
    BY <1>4, <2>1
  <2>2. CASE kernel_load /\ ~k
    <3>1. PICK c : c = IF KernelMayAccept THEN log[cur].conflict ELSE loaded[cur]
      OBVIOUS
    <3>2. log' = [log EXCEPT ![cur].conflict = c] /\ loaded' = loaded
      BY <1>1, <1>2, <1>4, <2>2, <3>1
    <3>3. c = "cached" => log[cur].conflict = "cached" \/ (option = "add" /\ loaded[cur] = "cached")
      BY <3>1 DEF KernelMayAccept
    <3> QED BY <2>2, <3>1, <3>2, <3>3
  <2>3. CASE ~kernel_load
    BY <1>4, <2>3
  <2> QED BY <2>1, <2>2, <2>3
<1>6. tmp'.exists = tmp.exists /\ (tmp'.whole <=> (w /\ hw))
  <2>1. tmp'.exists = tmp.exists /\ tmp'.whole = (w /\ hw)
    BY <1>2, <1>4
  <2> QED BY <2>1, Zenon
<1>7. (~hats /\ retval' = 0) => tmp'.whole /\ k
  BY <1>4, <1>6 DEF SerializeResult
<1>8. CASE ~kernel_load /\ loaded' = loaded /\ log' = log
  <2>1. Globals'
    BY <1>1, StepGlobals DEF IInv, globals
  <2>2. Ahead'
    BY <1>1, <1>2, <1>8, StepAhead DEF IInv
  <2>3. Current'
    BY <1>1, <1>6, <1>7, <1>8, Settings DEF IInv, Current, InWork, globals, Given, DirMode
  <2> QED BY <1>1, <1>8, <2>1, <2>2, <2>3, RightKept, Keeps
<1>9. ASSUME NEW s \in {"nothing", "zstd", "raw"}, kernel_load, k,
             log' = [log EXCEPT ![cur].sent = s],
             loaded' = [loaded EXCEPT ![cur] = IF option = "remove" THEN "absent" ELSE "new"],
             s = "zstd" => zpol = "POLICY", s = "raw" => zpol # "POLICY"
      PROVE  IInv'
  <2>1. log'[cur] = [log[cur] EXCEPT !.sent = s]
    BY <1>1, <1>2, <1>9
  <2>2. /\ log'[cur].wrote = log[cur].wrote /\ log'[cur].found = log[cur].found
        /\ log'[cur].stale = log[cur].stale /\ log'[cur].sent = s
        /\ log'[cur].zfail = log[cur].zfail /\ log'[cur].cached = log[cur].cached
        /\ log'[cur].conflict = log[cur].conflict
    BY <1>2, <2>1 DEF LogRecord
  <2>3. loaded'[cur] = IF option = "remove" THEN "absent" ELSE "new"
    BY <1>1, <1>9 DEF IInv, TypeOK
  <2>4. Globals'
    BY <1>1, StepGlobals DEF IInv, globals
  <2>5. Ahead'
    BY <1>1, <1>2, <2>2, StepAhead DEF IInv
  <2>6. Current'
    BY <1>1, <1>6, <1>7, <2>2, <2>3, Settings DEF IInv, Current, InWork, globals, Given, DirMode
  <2>7. ASSUME NEW p \in Profiles, p = cur PROVE Right(p)'
    <3>1. Met(p, Compressed) => Met(p, Compressed)'
      <4>1. p \in 0 .. NProfiles /\ "none" \notin Compressed
        BY NProfilesAssumption DEF Profiles, Compressed
      <4> QED BY <4>1, MetKept DEF IInv
    <3>2. Loads(p)'
      BY <1>3, <1>9, <2>2, <2>7, <3>1, Settings DEF IInv, Right, Loads, Given
    <3>3. Caches(p)'
      BY <2>2, <2>7, CachesKept DEF IInv, Right
    <3>4. Reports(p)'
      BY <1>1, <1>2, <2>2, <2>7, Settings DEF IInv, Right, Reports, Given, info
    <3> QED BY <3>2, <3>3, <3>4 DEF Right
  <2> QED BY <2>4, <2>5, <2>6, <2>7, Keeps
<1>10. ASSUME NEW c \in {log[cur].conflict, loaded[cur]}, ~k, loaded' = loaded, kernel_load,
              log' = [log EXCEPT ![cur].conflict = c],
              c = "cached" => log[cur].conflict = "cached" \/ (option = "add" /\ loaded[cur] = "cached")
       PROVE  IInv'
  <2>1. log'[cur] = [log[cur] EXCEPT !.conflict = c]
    BY <1>1, <1>2, <1>10
  <2>2. /\ log'[cur].wrote = log[cur].wrote /\ log'[cur].found = log[cur].found
        /\ log'[cur].stale = log[cur].stale /\ log'[cur].sent = log[cur].sent
        /\ log'[cur].zfail = log[cur].zfail /\ log'[cur].cached = log[cur].cached
        /\ log'[cur].conflict = c
    BY <1>2, <2>1 DEF LogRecord
  <2>3. Globals'
    BY <1>1, StepGlobals DEF IInv, globals
  <2>4. Ahead'
    BY <1>1, <1>2, <2>2, StepAhead DEF IInv
  <2>5. Current'
    BY <1>1, <1>6, <1>7, <1>10, <2>2, Settings DEF IInv, Current, InWork, globals, Given, DirMode
  <2>6. ASSUME NEW p \in Profiles, p = cur PROVE Right(p)'
    <3>1. Loads(p)' /\ Caches(p)'
      BY <2>2, <2>6, LoadsKept, CachesKept DEF IInv, Right
    <3>2. Reports(p)'
      BY <1>1, <1>2, <1>10, <2>2, <2>6, Settings DEF IInv, Right, Reports, Given, info
    <3> QED BY <3>1, <3>2 DEF Right
  <2> QED BY <2>3, <2>4, <2>5, <2>6, Keeps
<1> QED BY <1>5, <1>8, <1>9, <1>10

LEMMA InstallKeeps == ASSUME IInv, Next, Install PROVE IInv'
<1>1. /\ pc = "install" /\ cur \in Profiles /\ loaded' = loaded /\ retval \in {0, 1} /\ Out(retval)
      /\ UNCHANGED globals
  BY DEF Install, IInv, TypeOK
<1>2. /\ log \in [Profiles -> LogRecord] /\ log[cur] \in LogRecord /\ cache \in [Profiles -> Entry]
  BY <1>1 DEF IInv, TypeOK
<1>3. result'[cur] = IF retval = 0 THEN "ok" ELSE "error"
  BY <1>1 DEF Out, IInv, TypeOK
<1>4. Globals' /\ Ahead' /\ Current'
  BY <1>1, OutKeeps DEF IInv, globals
<1>5. (~hats /\ retval = 0) => tmp.whole /\ (kernel_load /\ option # "remove" => loaded[cur] = "new")
  BY <1>1 DEF IInv, Current
<1>6. CASE log' = log /\ cache' = cache
  <2>1. ASSUME NEW p \in Profiles, p = cur PROVE Right(p)'
    <3>1. Loads(p)' /\ Caches(p)'
      BY <1>6, <2>1, LoadsKept, CachesKept DEF IInv, Right
    <3>2. Reports(p)'
      BY <1>1, <1>3, <1>5, <1>6, <2>1, Settings DEF IInv, Right, Reports, Given, info
    <3> QED BY <3>1, <3>2 DEF Right
  <2> QED BY <1>4, <2>1, Keeps
<1>7. CASE /\ retval = 0 /\ write_cache /\ ~force_complain /\ tmp.exists
           /\ \E e \in NewEntries : cache' = [cache EXCEPT ![cur] = e]
           /\ log' = [log EXCEPT ![cur].wrote = TRUE]
  <2>1. log'[cur] = [log[cur] EXCEPT !.wrote = TRUE]
    BY <1>1, <1>2, <1>7
  <2>2. /\ log'[cur].wrote = TRUE /\ log'[cur].found = log[cur].found
        /\ log'[cur].stale = log[cur].stale /\ log'[cur].sent = log[cur].sent
        /\ log'[cur].zfail = log[cur].zfail /\ log'[cur].cached = log[cur].cached
        /\ log'[cur].conflict = log[cur].conflict
    BY <1>2, <2>1 DEF LogRecord
  <2>3. cache'[cur].whole = tmp.whole
    BY <1>1, <1>2, <1>7 DEF NewEntries
  <2>4. policy_cache /\ option # "remove"
    BY <1>7 DEF IInv, Current, Options
  <2>5. ASSUME NEW p \in Profiles, p = cur PROVE Right(p)'
    <3>1. Loads(p)'
      BY <2>2, <2>5, LoadsKept DEF IInv, Right
    <3>2. Reports(p)'
      BY <1>1, <1>3, <1>5, <1>7, <2>2, <2>3, <2>4, <2>5, Settings DEF IInv, Right, Reports, Given, info
    <3>3. Met(p, {"plain", "zlow"}) => Met(p, {"plain", "zlow"})'
      <4>1. p \in 0 .. NProfiles /\ "none" \notin {"plain", "zlow"}
        BY NProfilesAssumption DEF Profiles
      <4> QED BY <4>1, MetKept DEF IInv
    <3>4. /\ (Given("skip-bad-cache") /\ ~skip_read_cache) => log[p].found # "bad"
          /\ ~Given("write-cache") => Given("zstd") /\ Met(p, {"plain", "zlow"})
          /\ ~Given("Complain") /\ ~DirMode("complain")
      BY <1>1, <1>7, <2>4, <2>5 DEF IInv, Current, InWork, Globals
    <3>5. Caches(p)'
      BY <2>2, <2>4, <2>5, <3>3, <3>4, Settings DEF IInv, Right, Caches, Given, DirMode
    <3> QED BY <3>1, <3>2, <3>5 DEF Right
  <2> QED BY <1>4, <2>5, Keeps
<1> QED BY <1>6, <1>7, Zenon DEF Install

-----------------------------------------------------------------------------
LEMMA InitIInv == Init => IInv
<1> SUFFICES ASSUME Init PROVE IInv
  OBVIOUS
<1>1. TypeOK
  BY InitType
<1>2. Options
  <2>1. /\ skip_cache <=> (\/ Given("skip-cache") \/ Given("Complain") \/ Given("names")
                           \/ Given("preprocess") \/ option = "remove")
        /\ kernel_load <=> ~(\/ Given("skip-kernel-load") \/ Given("names")
                             \/ Given("preprocess") \/ option = "stdout")
        /\ cond_clear_cache <=> ~Given("skip-bad-cache")
    BY Zenon DEF Init, ProcessArg
  <2>2. policy_cache => ~skip_cache
    BY Zenon DEF Init, SetupCache
  <2> QED BY <2>1, <2>2 DEF Options
<1>3. Globals
  <2>1. write_cache => Given("write-cache")
    BY Zenon DEF Init, SetupCache
  <2>2. zpol = IF Given("zstd") THEN "POLICY" ELSE "NONE"
    BY DEF Init, SetupCache
  <2> QED BY <2>1, <2>2 DEF Globals
<1>4. cur \in Profiles /\ pc = "open" /\ tmp = NoTmp
  BY <1>1 DEF Init, TypeOK
<1>5. ASSUME NEW p \in Profiles
      PROVE  log[p] = NoLog /\ result[p] = "pending" /\ loaded[p] \in {"absent", "old"}
  BY DEF Init
<1>6. Ahead
  BY <1>4, <1>5 DEF Ahead, NoLog
<1>7. Current
  BY <1>4 DEF Current, InWork, NoTmp
<1>8. ASSUME NEW p \in Profiles PROVE Right(p)
  BY <1>5 DEF Right, Loads, Reports, Caches, NoLog
<1> QED BY <1>1, <1>2, <1>3, <1>6, <1>7, <1>8 DEF IInv

LEMMA NextIInv == IInv /\ [Next]_vars => IInv'
<1> SUFFICES ASSUME IInv, [Next]_vars PROVE IInv'
  OBVIOUS
<1>1. CASE Next
  BY <1>1, FatalKeeps, LeaveKeeps, OpenKeeps, ParseKeeps, CachedOkKeeps, CachedFailsKeeps,
     SetupTmpKeeps, LoadPolicyKeeps, CompressFailsKeeps, InstallKeeps DEF Next
<1>2. CASE UNCHANGED vars
  BY <1>2 DEF vars, globals, settings, IInv, TypeOK, Options, Globals, Ahead, Current, InWork, Right,
     Loads, Reports, Caches, Met, Given, info, entry, DirMode
<1> QED BY <1>1, <1>2

LEMMA Invariant == Spec => []IInv
BY InitIInv, NextIInv, PTL DEF Spec

(* Whatever the earlier profiles did to zstd_compress_policy and           *)
(* write_cache, no stale cached binary is loaded, and the kernel is sent   *)
(* policy in the form that was asked for and that it takes.                *)
THEOREM LoadsAreRightThm == Spec => []LoadsAreRight
<1>1. IInv => LoadsAreRight
  BY DEF IInv, Right, Loads, Met, Compressed, LoadsAreRight, StaleNeverLoaded, CompressedAsAsked
<1> QED BY <1>1, Invariant, PTL

(* An installed entry and a reported success mean that the kernel has the  *)
(* policy, and an add is refused for what this run loaded only where the   *)
(* cached binary is compiled again, whichever step fails.                  *)
THEOREM ReportsAreTrueThm == Spec => []ReportsAreTrue
<1>1. IInv => ReportsAreTrue
  BY DEF IInv, Right, Reports, ReportsAreTrue, InstalledIsLoaded, SuccessIsLoaded, RefusedForOthers
<1> QED BY <1>1, Invariant, PTL

(* A bad entry is kept with --skip-bad-cache, a profile in complain mode   *)
(* bypasses the cache, and an unasked write replaces an entry by a         *)
(* compressed one, however write_cache was turned on and off before.       *)
THEOREM CacheAsAllowedThm == Spec => []CacheAsAllowed
<1>1. IInv => CacheAsAllowed
  BY DEF IInv, Right, Caches, Met, CacheAsAllowed, BadEntryKept, ComplainBypassesCache,
         UnaskedWriteIsRecompression
<1> QED BY <1>1, Invariant, PTL
=============================================================================
