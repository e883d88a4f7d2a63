------------------------------ MODULE DfaCache ------------------------------
(***************************************************************************)
(* process_profile_rules and the cache of file DFAs (parser_regex.c, with  *)
(* USE_DFA_CACHE): parsers that share the directory of --dfa-cache-loc     *)
(* look a DFA up by a hash of the rules, and store the one they had to     *)
(* compile.                                                                *)
(*                                                                         *)
(* A file rule is a model value; a DFA is what it was made from.  A        *)
(* profile is [block, size]: a tree of blocks and the bytes its DFA and    *)
(* the table of its permissions take.                                      *)
(***************************************************************************)
EXTENDS Integers, Sequences, SequencesExt, FiniteSets

CONSTANTS Parsers,             \* process ids
          Blocks,              \* the blocks of profiles, with all that are in them
          Policies,            \* sequences of profiles, for one parser run
          Globals,             \* what a run may find: see Hashed
          MaxRuns,             \* parser runs, one after the other or at once
          MaxDfaSize,          \* DFA_CACHE_MAX_DFA_SIZE
          MaxPerms,            \* DFA_CACHE_MAX_PERMS
          Fnv(_)               \* the 64 bit hash that names the file; may collide

Profiles == [block : Blocks, size : [dfa : Nat, perms : Nat]]
ASSUME DfaPoliciesAssumption == Policies \subseteq Seq(Profiles) \ {<<>>}
Used == UNION {Range(po) : po \in Policies}

NoFile == 0
NoBlock == [rules |-> <<>>, subblocks |-> <<>>, conds |-> <<>>]

(* collect_file_rule_blocks: the rules of a block, its subblocks and the    *)
(* branches its conditionals took, in this order.                           *)
CollectFileRuleBlocks[b \in Blocks] ==
  b.rules \o FlattenSeq([i \in DOMAIN b.subblocks |-> CollectFileRuleBlocks[b.subblocks[i]]])
          \o FlattenSeq([i \in DOMAIN b.conds |-> CollectFileRuleBlocks[b.conds[i]]])

(* block::gen_policy_re: the file rules in the order they become patterns.  *)
GenPolicyRe[b \in Blocks] ==
  LET after(l, sb) == l \o GenPolicyRe[sb]
  IN  FoldLeft(after, FoldLeft(after, b.rules, b.subblocks), b.conds)

(* The hash takes the rules in the order in which they are compiled.        *)
SameOrder == \A b \in Blocks : CollectFileRuleBlocks[b] = GenPolicyRe[b]

(* hash_profile_file_rules and compute_content_hash take the same fields    *)
(* (the program of an onexec rule shares its member with the target of a    *)
(* link).  SHA-256 stands for what it was computed from.                    *)
Hashed(prof, g) == [rules |-> CollectFileRuleBlocks[prof.block], abi |-> g.abi, control |-> g.control,
                    permstable |-> g.version >= 2]
Key(prof, g) == Fnv(Hashed(prof, g))

(* create_dfablob for the file rules of a profile: no rules, no DFA.        *)
NoDfa == [rules |-> <<>>]
DfaOf(prof, g) == IF GenPolicyRe[prof.block] = <<>> THEN NoDfa
                  ELSE [rules |-> GenPolicyRe[prof.block], abi |-> g.abi, control |-> g.control,
                        version |-> g.version, stacking |-> g.stacking]

(***************************************************************************)
(* Files: contents by inode, with the bytes behind the header in two       *)
(* parts; path: the inode under a key; tmp: the inode of the temporary     *)
(* name of a key and process.                                              *)
(***************************************************************************)
VARIABLES inodes, path, tmp,
          pc, todo, glob, hdr, fd, dfa, cached, runs
vars == <<inodes, path, tmp, pc, todo, glob, hdr, fd, dfa, cached, runs>>
files == <<inodes, path, tmp>>
mine == <<todo, glob, hdr, fd, dfa, cached>>

Keys == {Key(prof, g) : prof \in Used, g \in Globals}
NoHeader == [size |-> [dfa |-> 0, perms |-> 0]]
Empty == [hdr |-> NoHeader, bytes |-> 0, dfa |-> NoDfa, perms |-> NoDfa]

AnyGlobals == CHOOSE g \in Globals : TRUE
Unset == [dfa |-> NoDfa, perms |-> NoDfa]

Init == /\ inodes = <<>> /\ path = [k \in Keys |-> NoFile] /\ tmp = [x \in Keys \X Parsers |-> NoFile]
        /\ pc = [p \in Parsers |-> "idle"] /\ todo = [p \in Parsers |-> <<>>]
        /\ glob = [p \in Parsers |-> AnyGlobals]
        /\ hdr = [p \in Parsers |-> NoHeader] /\ fd = [p \in Parsers |-> NoFile]
        /\ dfa = [p \in Parsers |-> Unset] /\ cached = [p \in Parsers |-> FALSE]
        /\ runs = 0

Prof(p) == todo[p][1]
MyKey(p) == Key(Prof(p), glob[p])
Goto(p, s) == pc' = [pc EXCEPT ![p] = s]
File(p) == inodes[fd[p]]

Start(p) ==
  /\ pc[p] = "idle" /\ runs < MaxRuns
  /\ \E po \in Policies, g \in Globals : todo' = [todo EXCEPT ![p] = po] /\ glob' = [glob EXCEPT ![p] = g]
  /\ Goto(p, "lookup") /\ runs' = runs + 1
  /\ UNCHANGED <<files, hdr, fd, dfa, cached>>

(***************************************************************************)
(* dfa_cache_lookup_disk                                                   *)
(***************************************************************************)
Forget(p) == /\ hdr' = [hdr EXCEPT ![p] = NoHeader] /\ fd' = [fd EXCEPT ![p] = NoFile]
             /\ dfa' = [dfa EXCEPT ![p] = Unset] /\ cached' = [cached EXCEPT ![p] = FALSE]
Miss(p) == Goto(p, "xmatch") /\ Forget(p) /\ UNCHANGED <<files, todo, glob, runs>>
Open(p) ==
  /\ pc[p] = "lookup"
  /\ IF path[MyKey(p)] = NoFile THEN Miss(p)
     ELSE /\ fd' = [fd EXCEPT ![p] = path[MyKey(p)]] /\ Goto(p, "header")
          /\ UNCHANGED <<files, todo, glob, hdr, dfa, cached, runs>>
ReadHeader(p) ==
  /\ pc[p] = "header"
  /\ IF \/ File(p).hdr = NoHeader
        \/ File(p).hdr.hash # Hashed(Prof(p), glob[p])
        \/ File(p).hdr.size.dfa \notin 1 .. MaxDfaSize
        \/ File(p).hdr.size.perms > MaxPerms
        \/ File(p).hdr.size.dfa > File(p).bytes
     THEN Miss(p)
     ELSE /\ hdr' = [hdr EXCEPT ![p] = File(p).hdr] /\ Goto(p, "body")
          /\ UNCHANGED <<files, todo, glob, fd, dfa, cached, runs>>
(* The two parts are read one after the other; a short read is a miss.      *)
ReadDfa(p) ==
  /\ pc[p] = "body"
  /\ IF File(p).bytes < hdr[p].size.dfa THEN Miss(p)
     ELSE /\ dfa' = [dfa EXCEPT ![p].dfa = File(p).dfa] /\ Goto(p, "perms")
          /\ UNCHANGED <<files, todo, glob, hdr, fd, cached, runs>>
ReadPerms(p) ==
  /\ pc[p] = "perms"
  /\ IF File(p).bytes < hdr[p].size.dfa + hdr[p].size.perms THEN Miss(p)
     ELSE /\ dfa' = [dfa EXCEPT ![p].perms = File(p).perms] /\ Goto(p, "xmatch")
          /\ cached' = [cached EXCEPT ![p] = TRUE]
          /\ UNCHANGED <<files, todo, glob, hdr, fd, runs>>

(***************************************************************************)
(* process_profile_rules after the lookup.  The attachment and the rules   *)
(* become patterns even after a hit; the file rules are compiled after a   *)
(* miss only.  Each part may fail, which ends the profile.                 *)
(***************************************************************************)
Left(p, l) == /\ todo' = [todo EXCEPT ![p] = l] /\ Goto(p, IF l = <<>> THEN "idle" ELSE "lookup")
              /\ glob' = [glob EXCEPT ![p] = IF l = <<>> THEN AnyGlobals ELSE @]
              /\ Forget(p) /\ UNCHANGED <<files, runs>>
NextProfile(p) == Left(p, Tail(todo[p]))
Patterns(p) ==
  /\ pc[p] = "xmatch"
  /\ \/ NextProfile(p)
     \/ Goto(p, IF cached[p] THEN "policydb" ELSE "compile") /\ UNCHANGED <<files, mine, runs>>
ProcessProfileRegex(p) ==
  /\ pc[p] = "compile"
  /\ \/ NextProfile(p)
     \/ LET d == DfaOf(Prof(p), glob[p])
        IN  /\ dfa' = [dfa EXCEPT ![p] = [dfa |-> d, perms |-> d]]
            /\ Goto(p, IF d = NoDfa THEN "policydb" ELSE "store")
            /\ UNCHANGED <<files, todo, glob, hdr, fd, cached, runs>>
ProcessProfilePolicydb(p) == pc[p] = "policydb" /\ NextProfile(p)

(***************************************************************************)
(* dfa_cache_store_disk: a failure leaves the cache as it was.             *)
(***************************************************************************)
MyTmp(p) == <<MyKey(p), p>>
GiveUp(p) == Goto(p, "policydb") /\ UNCHANGED <<files, mine, runs>>
(* Mutant: the entry is written in place. *)
OpenTmp_direct(p) ==
  LET old == path[MyKey(p)]
      i == IF old = NoFile THEN Len(inodes) + 1 ELSE old
  IN  /\ pc[p] = "store"
      /\ \/ GiveUp(p)
         \/ /\ inodes' = IF old = NoFile THEN Append(inodes, Empty) ELSE [inodes EXCEPT ![i] = Empty]
            /\ tmp' = [tmp EXCEPT ![MyTmp(p)] = i] /\ path' = [path EXCEPT ![MyKey(p)] = i]
            /\ fd' = [fd EXCEPT ![p] = i] /\ Goto(p, "write")
            /\ UNCHANGED <<todo, glob, hdr, dfa, cached, runs>>
(* open with O_CREAT | O_TRUNC: a file left by a dead parser with this pid  *)
(* is used again.                                                           *)
OpenTmp(p) ==
  LET old == tmp[MyTmp(p)]
      i == IF old = NoFile THEN Len(inodes) + 1 ELSE old
  IN  /\ pc[p] = "store"
      /\ \/ GiveUp(p)
         \/ /\ inodes' = IF old = NoFile THEN Append(inodes, Empty) ELSE [inodes EXCEPT ![i] = Empty]
            /\ tmp' = [tmp EXCEPT ![MyTmp(p)] = i]
            /\ fd' = [fd EXCEPT ![p] = i] /\ Goto(p, "write")
            /\ UNCHANGED <<path, todo, glob, hdr, dfa, cached, runs>>
Unlink(p) == /\ tmp' = [tmp EXCEPT ![MyTmp(p)] = NoFile] /\ Goto(p, "policydb")
             /\ UNCHANGED <<inodes, path, mine, runs>>
(* The header and the two parts are written through one buffer, which goes  *)
(* to the file whenever it is full: some of them may be there before the    *)
(* last.  The result of fclose is not looked at, so what it could not write *)
(* is missing from the file that is renamed.                                *)
Header(p) == [hash |-> Hashed(Prof(p), glob[p]), size |-> Prof(p).size]
Contents(p, n) == [hdr |-> Header(p), bytes |-> n, dfa |-> dfa[p].dfa, perms |-> dfa[p].perms]
Total(p) == Prof(p).size.dfa + Prof(p).size.perms
Put(p, c, s) == /\ inodes' = [inodes EXCEPT ![fd[p]] = c] /\ Goto(p, s)
                /\ UNCHANGED <<path, tmp, mine, runs>>
Write(p) == /\ pc[p] = "write"
            /\ Unlink(p) \/ \E n \in 0 .. Total(p) : Put(p, Contents(p, n), "close")
Close(p) == /\ pc[p] = "close"
            /\ \/ Unlink(p)
               \/ Put(p, Contents(p, Total(p)), "rename")
               \/ Goto(p, "rename") /\ UNCHANGED <<files, mine, runs>>
Rename(p) ==
  /\ pc[p] = "rename"
  /\ \/ Unlink(p)
     \/ /\ path' = [path EXCEPT ![MyKey(p)] = tmp[MyTmp(p)]]
        /\ tmp' = [tmp EXCEPT ![MyTmp(p)] = NoFile]
        /\ Goto(p, "policydb") /\ UNCHANGED <<inodes, mine, runs>>

(* A parser may be killed between any two steps; before it has opened its   *)
(* temporary file, and after the rename, that leaves nothing behind and is  *)
(* the end of the run.                                                      *)
Kill(p) == pc[p] \in {"write", "close", "rename"} /\ Left(p, <<>>)
AllDone == /\ runs = MaxRuns /\ \A p \in Parsers : pc[p] = "idle"
           /\ UNCHANGED vars

Next == \/ \E p \in Parsers : \/ Start(p) \/ Open(p) \/ ReadHeader(p) \/ ReadDfa(p) \/ ReadPerms(p)
                              \/ Patterns(p) \/ ProcessProfileRegex(p) \/ ProcessProfilePolicydb(p)
                              \/ OpenTmp(p) \/ Write(p) \/ Close(p) \/ Rename(p) \/ Kill(p)
        \/ AllDone
Spec == Init /\ [][Next]_vars

(* Whatever other parsers store, tear or leave behind, and whatever keys    *)
(* collide, a profile that is processed has the DFA of its own rules and of *)
(* the features and options of this run, with the permissions that belong   *)
(* to it (process_profile_rules).  Two features that the DFA depends on are *)
(* in neither hash and may differ: stacking, and which of the usable        *)
(* versions of permstable32 the kernel has.                                 *)
Unhashed == {"stacking", "version"}
SameDfa(d, own) == /\ DOMAIN d = DOMAIN own
                   /\ \A f \in DOMAIN own \ Unhashed : d[f] = own[f]
                   /\ d # NoDfa => (d.version >= 2 <=> own.version >= 2)
CachedDfaIsOwn ==
  \A p \in Parsers : pc[p] = "policydb" =>
    /\ SameDfa(dfa[p].dfa, DfaOf(Prof(p), glob[p]))
    /\ dfa[p].perms = dfa[p].dfa
=============================================================================
