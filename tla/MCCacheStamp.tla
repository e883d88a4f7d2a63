---------------------------- MODULE MCCacheStamp ----------------------------
(***************************************************************************)
(* A profile with one or two includes.  The processes, and the includes,   *)
(* are interchangeable.                                                    *)
(***************************************************************************)
EXTENDS CacheStamp, TLC

CONSTANTS profile, include1, include2, p1, p2

OneInclude == {profile, include1}
TwoIncludes == {profile, include1, include2}
OneProc == {p1}
TwoProcs == {p1, p2}

ProcSymmetry == Permutations(TwoProcs)
IncludeSymmetry == Permutations({include1, include2})
=============================================================================
