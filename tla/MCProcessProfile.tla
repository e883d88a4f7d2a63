-------------------------- MODULE MCProcessProfile --------------------------
(***************************************************************************)
(* Two profiles, so that the globals the first one leaves behind meet the  *)
(* entry, the link and the failures of the second.                         *)
(***************************************************************************)
EXTENDS ProcessProfile

MCActions == {"add", "replace", "remove", "stdout"}

(* Every option alone, and the combinations that share a global. *)
MCOptionSets ==
    { {o} : o \in AllOptions } \cup
    { {}, {"zstd", "zstd-recompress"},
      {"write-cache", "zstd"}, {"write-cache", "zstd", "zstd-recompress"},
      {"write-cache", "namespace"}, {"write-cache", "skip-read-cache"},
      {"write-cache", "skip-bad-cache"}, {"write-cache", "skip-bad-cache", "zstd"},
      {"write-cache", "skip-kernel-load"}, {"write-cache", "stdin"},
      {"zstd", "skip-bad-cache-rebuild"} }

(* No link, or one: for the first profile or for the second. *)
NoLinks == [p \in Profiles |-> "none"]
MCLinks == {NoLinks, [NoLinks EXCEPT ![1] = "disable"]} \cup
           { [NoLinks EXCEPT ![p] = "complain"] : p \in Profiles }

SomeEntries ==
    [form : {"none"}, stale : {FALSE}, whole : {TRUE}] \cup
    [form : {"bad", "zlow"}, stale : {FALSE}, whole : {TRUE}] \cup
    [form : {"plain", "zhigh"}, stale : BOOLEAN, whole : {TRUE}]

MCEntries == [Profiles -> SomeEntries]

MCHasHats == BOOLEAN
=============================================================================
