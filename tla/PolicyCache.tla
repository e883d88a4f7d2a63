---------------------------- MODULE PolicyCache ----------------------------
(***************************************************************************)
(* Policy caches of libapparmor (policy_cache.c): several programs open,   *)
(* create, fill, purge and load from the cache directories of one location *)
(* while read-only locations are stacked below.  A cache directory is      *)
(* named <<id, n>>, id the hash of the features; an inode is               *)
(*   [feat, ents, live, writers]: the text of .features, the entries by    *)
(*   name, whether the directory still has its name, and the programs      *)
(*   that hold the present .features open for writing.                     *)
(* The directories of a cache are merged into an overlay (private.c) and   *)
(* the policies found in it are loaded through apparmorfs                  *)
(* (kernel_interface.c).                                                   *)
(***************************************************************************)
EXTENDS Features

CONSTANTS Procs, Setups,       \* programs; the features directory each sees, whether it may create
                               \* a cache (max_caches > 0) and whether its path is relative
          Hash(_),             \* PMurHash32 of a features text
          Ids, MaxN, MaxIno,   \* hashes, highest n, directories ever made
          Names, Policies,     \* names of entries, their contents
          Overlays,            \* MAX_POLICY_CACHE_OVERLAY_DIRS, 4 in the code
          RoDirs,              \* what the read-only location may hold
          MaxFaults, MaxWrites \* purges and crashes, entries written

CONSTANTS Chunk,    \* CHUNK, 32 in the code
          Grows     \* what comparing the addresses of size and max_size gives in the build
ASSUME BoundsAssumption == MaxN \in Nat
ASSUME ChunkAssumption == Chunk \in Nat /\ Chunk > 1 /\ Grows \in BOOLEAN

VARIABLES loc, ino, proc, budget,
          raced      \* history: colliding programs met, or a purge met a program
vars == <<loc, ino, proc, budget, raced>>

(***************************************************************************)
(* Loading policy through apparmorfs (kernel_interface.c).  A policy is a  *)
(* sequence of bytes in which a profile starts with its name (a positive   *)
(* number), the first of HeaderSize bytes; all other bytes are 0.          *)
(***************************************************************************)
HeaderSize == 2        \* sizeof(header_version)

(* aa_kernel_interface_new: what the kernel can do, from its feature set.   *)
AaKernelInterfaceNew(text) ==
  [setload |-> AaFeaturesSupports(text, <<"p", "/", "s">>),
   compression |-> AaFeaturesSupports(text, <<"p", "/", "c">>),
   extended |-> AaFeaturesSupports(text, <<"p", "/", "e">>)]

(* Mutant: the loop stops before the last place a header can be at. *)
NextProfileBuffer_short(buf, from, size) ==
  LET hits == {i \in from .. from + size - 2 * HeaderSize - 1 : At(buf, i) \in Nat \ {0}}
  IN  IF hits = {} THEN 0 ELSE Min(hits)

(* next_profile_buffer: the first header from position from on, 0 if none.  *)
(* The loop counts size, the bytes left from the header before, down to     *)
(* HeaderSize, so it compares at every place up to the last byte of the     *)
(* buffer, where memcmp may read behind it: a header that only begins in    *)
(* the buffer is taken for none (what lies behind is not the rest of one).  *)
(* The bound is unsigned and would wrap for a buffer shorter than a header, *)
(* which IsPolicy excludes.                                                 *)
NextProfileBuffer(buf, from, size) ==
  LET hits == {i \in from .. Min({from + size - HeaderSize - 1, Len(buf)}) : buf[i] # 0}
  IN  IF hits = {} THEN 0 ELSE Min(hits)

(* write_policy_buffer for a kernel without set_load: the pieces written,   *)
(* each from a header b to the next one; size is what is left of the buffer. *)
PieceState == [buf : Seq(Nat), b : Nat \ {0}, size : Int, out : Seq(Seq(Nat))]
NextPiece(s) == NextProfileBuffer(s.buf, s.b + HeaderSize, s.size)
Written(s, bsize) == Append(s.out, SubSeq(s.buf, s.b, s.b + bsize - 1))
PiecesFrom[s \in PieceState] ==
  LET next == NextPiece(s)
      bsize == next - s.b
  IN  IF next = 0 THEN Written(s, s.size)
      ELSE PiecesFrom[[s EXCEPT !.b = next, !.size = @ - bsize, !.out = Written(s, bsize)]]
Pieces(buf) == PiecesFrom[[buf |-> buf, b |-> 1, size |-> Len(buf), out |-> <<>>]]

ProfilesIn(buf) == {buf[i] : i \in {j \in DOMAIN buf : buf[j] # 0}}
FirstProfile(buf) == IF buf = <<>> \/ buf[1] = 0 THEN {} ELSE {buf[1]}

(* write_policy_fd_to_iface: the buffer grows to a chunk that doubles each  *)
(* time it is full; how many of len bytes are held when the file ends.      *)
ReadState == [len : Nat, size : Nat, asize : Nat, chunk : Nat]
Asize(s) == IF s.asize = s.size THEN s.chunk ELSE s.asize
Rsize(s) == Min({s.len - s.size, Asize(s) - s.size})
ReadFrom[s \in ReadState] ==
  IF Rsize(s) <= 0 THEN s.size
  ELSE ReadFrom[[s EXCEPT !.size = @ + Rsize(s), !.asize = Asize(s), !.chunk = IF s.asize = s.size THEN 2 * @ ELSE @]]
FirstChunk == 2        \* 1 << 14 in the code
ReadAll(len) == ReadFrom[[len |-> len, size |-> 0, asize |-> 0, chunk |-> FirstChunk]]

(* write_policy_buffer_to_iface: what the kernel has loaded afterwards and  *)
(* the answer, for every way the kernel takes the single writes.            *)
WriteToIface(ki, pol) ==
  LET buf == SubSeq(pol.bytes, 1, ReadAll(Len(pol.bytes)))
      all == [loaded |-> ProfilesIn(buf), ok |-> TRUE]
      none == [loaded |-> {}, ok |-> FALSE]
      ps == Pieces(buf)
  IN  IF ~ki.extended /\ pol.compressed /\ ~ki.compression THEN {none}
      ELSE IF ki.setload THEN {all, none}
      ELSE {[loaded |-> UNION {FirstProfile(ps[i]) : i \in 1 .. k}, ok |-> k = Len(ps)] : k \in 0 .. Len(ps)}

(***************************************************************************)
(* Walks over directories (private.c): the merge of sorted directories     *)
(* into one overlay, in which the first directory wins.  o is              *)
(* [items, max, alloc, bad]: the array, max_size, the elements really      *)
(* allocated, and whether a write went past them.                          *)
(***************************************************************************)
EmptyOverlay == [items |-> <<>>, max |-> 0, alloc |-> 0, bad |-> FALSE]

(* insert: compares the addresses of its counters, not the counters, before *)
(* it reallocates; max_size grows in any case.  The shift writes the        *)
(* element behind the last one.                                             *)
Insert(o, pos, remaining, item) ==
  LET chunk == Max({remaining, Chunk})
      alloc == IF Grows THEN o.max + chunk ELSE o.alloc
      size == Len(o.items) + 1
  IN  [items |-> InsertAt(o.items, pos + 1, item), max |-> o.max + chunk, alloc |-> alloc,
       bad |-> o.bad \/ size >= alloc]

(* merge: one turn of its loops; y runs over the overlay, z over the sorted *)
(* list of directory dir.                                                   *)
OverlayType == [items : Seq([dir : Nat, name : Nat]), max : Nat, alloc : Nat, bad : BOOLEAN]
MergeState == {s \in [o : OverlayType, list : Seq(Nat), dir : Nat, y : Nat, z : Nat] :
                 s.y <= Len(s.o.items) /\ s.z <= Len(s.list)}
MetAt(s) == s.y < Len(s.o.items) /\ s.o.items[s.y + 1].name <= s.list[s.z + 1]
ItemAt(s) == [dir |-> s.dir, name |-> s.list[s.z + 1]]
(* Mutant: an item with the same name does not stop the insertion. *)
MergeStep_twice(s) ==
  IF ~(MetAt(s) /\ s.o.items[s.y + 1].name < s.list[s.z + 1])
  THEN [s EXCEPT !.o = Insert(@, s.y, Len(s.list) - s.z, ItemAt(s)), !.y = @ + 1, !.z = @ + 1]
  ELSE [s EXCEPT !.y = @ + 1]
MergeStep(s) ==
  IF ~MetAt(s) THEN [s EXCEPT !.o = Insert(@, s.y, Len(s.list) - s.z, ItemAt(s)), !.y = @ + 1, !.z = @ + 1]
  ELSE IF s.o.items[s.y + 1].name = s.list[s.z + 1] THEN [s EXCEPT !.y = @ + 1, !.z = @ + 1]
  ELSE [s EXCEPT !.y = @ + 1]
MergeFrom[s \in MergeState] == IF s.z = Len(s.list) THEN s.o ELSE MergeFrom[MergeStep(s)]
Merge(o, list, dir) == MergeFrom[[o |-> o, list |-> list, dir |-> dir, y |-> 0, z |-> 0]]

(* readdirfd with alphasort: the names of a directory in order.             *)
NameSets == {names \in SUBSET Nat : IsFiniteSet(names)}
Ascending(list) == \A i, j \in DOMAIN list : i < j => list[i] < list[j]
ReadDirFd(names) == CHOOSE list \in [1 .. Cardinality(names) -> names] : Ascending(list)

(* The overlay of the directories, whose names are given as sets: the first *)
(* i of them are in o.                                                      *)
OverlayStates == [o : OverlayType, dirs : Seq(NameSets), i : Nat]
OverlayFrom[s \in OverlayStates] ==
  IF s.i >= Len(s.dirs) THEN s.o
  ELSE OverlayFrom[[s EXCEPT !.o = Merge(@, ReadDirFd(s.dirs[s.i + 1]), s.i + 1), !.i = @ + 1]]
OverlayOf(dirs) == OverlayFrom[[o |-> EmptyOverlay, dirs |-> dirs, i |-> 0]]

(* _aa_is_blacklisted: dot files, README and the suffixes of package and    *)
(* editor leftovers; the callers treat both non-zero answers alike here.    *)
IsBlacklisted(kind) == kind \in {"dot", "readme", "silent", "suffix"}

(***************************************************************************)
(* The programs and the cache directories                                  *)
(***************************************************************************)
Dirs == Ids \X (0 .. MaxN)
NoFile == <<"none">>
NoEnts == [n \in {} |-> 0]
NewInode == [feat |-> NoFile, ents |-> NoEnts, live |-> TRUE, writers |-> {}]
DotFeatures == 0               \* .features sorts before every entry

ASSUME NamesAssumption == Names \subseteq Nat \ {DotFeatures}
(* A policy starts with a header; headers are whole and do not overlap.     *)
IsPolicy(pol) == /\ pol.bytes \in Seq(Nat)
                 /\ pol.bytes # <<>> /\ pol.bytes[1] # 0
                 /\ \A i \in DOMAIN pol.bytes : pol.bytes[i] # 0 => i + HeaderSize - 1 <= Len(pol.bytes)
                 /\ \A i, j \in DOMAIN pol.bytes : i < j /\ pol.bytes[i] # 0 /\ pol.bytes[j] # 0 => j - i >= HeaderSize
ASSUME PoliciesAssumption == \A c \in Policies : IsPolicy(c)
(* What an entry can be: a policy, an empty file that hides the name in the *)
(* directories below (a whiteout), or what the load skips for what it is or *)
(* for its name.                                                            *)
Kinds == {"file", "empty", "link", "dir", "dot", "readme", "silent", "suffix"}
(* What has been put into a read-only location is of its features.          *)
ASSUME RoDirsAssumption ==
  \A r \in RoDirs : /\ r.feat \in Seq(STRING) \ {NoFile}
                    /\ DOMAIN r.ents \subseteq Nat \ {DotFeatures} /\ IsFiniteSet(DOMAIN r.ents)
                    /\ \A n \in DOMAIN r.ents : r.ents[n].by = r.feat /\ r.ents[n].kind \in Kinds /\ IsPolicy(r.ents[n].pol)

(* A program: where it is, the directory it looks for, its open directories *)
(* and its load.  want and clean only record what a load should find.       *)
NewProc(m) == [pc |-> "features", mode |-> m, at |-> "rw", text |-> NoFile, target |-> <<>>, best |-> -1,
               left |-> {}, fds |-> <<>>, todo |-> {}, ok |-> TRUE, items |-> <<>>, loaded |-> {},
               want |-> {}, clean |-> TRUE]

Init ==
  /\ \E r \in RoDirs :
       /\ ino = <<[feat |-> r.feat, ents |-> r.ents, live |-> TRUE, writers |-> {}]>>
       /\ loc = [rw |-> [d \in Dirs |-> 0], ro |-> [d \in Dirs |-> IF d = r.dir THEN 1 ELSE 0]]
  /\ \E m \in Setups : proc = [p \in Procs |-> NewProc(m[p])]
  /\ raced = FALSE
  /\ budget = [faults |-> MaxFaults, writes |-> MaxWrites]

Set(p, r) == proc' = [proc EXCEPT ![p] = r]
(* aa_policy_cache_unref at the end or after an error                       *)
End(p, how) == Set(p, [NewProc(proc[p].mode) EXCEPT !.pc = how])
(* A failed look for a read-only directory leaves the cache as it is.       *)
Fail(p) == IF proc[p].pc \in {"look", "scan", "open"} /\ proc[p].at = "ro"
           THEN Set(p, [proc[p] EXCEPT !.pc = "ready", !.left = {}, !.best = -1])
           ELSE End(p, "failed")
Same == UNCHANGED <<loc, ino, budget, raced>>

(* aa_features_new_from_kernel, then aa_policy_cache_new                    *)
Kernels == {m[p].kern : m \in Setups, p \in Procs}
FeaturesNewFromKernel == [k \in Kernels |-> AaFeaturesNew([dir |-> TRUE, kids |-> k])]
(* A kernel shows some features, in one of the hashes.                      *)
ASSUME TextsAssumption ==
  \A k \in Kernels : LET b == FeaturesNewFromKernel[k]
                      IN  b.ok => b.text \in Seq(STRING) \ {<<>>, NoFile} /\ Hash(b.text) \in Ids
LoadFeatures(p) ==
  LET b == FeaturesNewFromKernel[proc[p].mode.kern]
  IN  /\ proc[p].pc = "features" /\ Same
      /\ IF b.ok THEN Set(p, [proc[p] EXCEPT !.pc = "look", !.text = b.text]) ELSE Fail(p)

(* aa_features_check of an inode, 0 for a directory that is not there       *)
FeaturesCheck(i, text) ==
  LET file == ino[i].feat
  IN  IF i = 0 \/ (i # 0 /\ file = NoFile) THEN "ENOENT"
      ELSE IF ~LoadFeaturesFile(NewBuffer, file).ok THEN "ENOBUFS"
      ELSE IF AaFeaturesIsEqual(file, text) THEN "ok" ELSE "EEXIST"

(***************************************************************************)
(* cache_dir_from_path_and_features                                        *)
(***************************************************************************)
Here(p) == loc[proc[p].at]
Rw(p) == proc[p].fds[1]
InOpening == {"scan", "open", "mkdir", "check", "clear", "unlink", "truncate", "write"}
(* A program whose features have the same hash meets p: it is about to use  *)
(* a directory of this hash too, or uses one that has lost its .features.   *)
Opener(p) == proc[p].pc \in InOpening /\ proc[p].at = "rw"
Lost(p) == proc[p].fds # <<>> /\ ino[Rw(p)].live /\ ino[Rw(p)].feat = NoFile
Collide(p, q) == /\ proc[q].text # proc[p].text /\ Hash(proc[q].text) = Hash(proc[p].text)
                 /\ Opener(q) \/ Lost(q)
Look(p) ==
  LET d == <<Hash(proc[p].text), 0>>
      r == FeaturesCheck(Here(p)[d], proc[p].text)
  IN  /\ proc[p].pc = "look" /\ UNCHANGED <<loc, ino, budget>>
      /\ raced' = (raced \/ (proc[p].at = "rw" /\ \E q \in Procs : Collide(p, q)))
      /\ IF r \in {"ok", "ENOENT"} THEN Set(p, [proc[p] EXCEPT !.pc = "open", !.target = d])
         ELSE IF r = "EEXIST"
         THEN Set(p, [proc[p] EXCEPT !.pc = "scan", !.best = -1,
                                     !.left = {e \in Dirs : e[1] = d[1] /\ Here(p)[e] # 0}])
         ELSE Fail(p)

(* cache_miss_cb: the name is looked up below the directory that is being   *)
(* read, where a relative path leads nowhere.                               *)
MissCheck(p, d) == IF proc[p].mode.rel THEN "ENOENT" ELSE FeaturesCheck(Here(p)[d], proc[p].text)
CacheMiss(p) ==
  /\ proc[p].pc = "scan" /\ Same
  /\ \E d \in proc[p].left :
       LET r == MissCheck(p, d)
       IN  IF r \in {"ok", "ENOENT"} THEN Set(p, [proc[p] EXCEPT !.pc = "open", !.target = d, !.left = {}])
           ELSE IF r = "EEXIST"
           THEN Set(p, [proc[p] EXCEPT !.left = @ \ {d}, !.best = Max({@, d[2]})])
           ELSE Fail(p)
NoMatch(p) ==
  /\ proc[p].pc = "scan" /\ proc[p].left = {} /\ proc[p].best < MaxN /\ Same
  /\ Set(p, [proc[p] EXCEPT !.pc = "open", !.target = <<Hash(proc[p].text), proc[p].best + 1>>])

(***************************************************************************)
(* open_or_create_cache_dir and init_cache_features                        *)
(***************************************************************************)
OpenDir(p) ==
  LET i == Here(p)[proc[p].target]
      rw == proc[p].at = "rw"
  IN  /\ proc[p].pc = "open" /\ Same
      /\ IF i # 0 THEN Set(p, [proc[p] EXCEPT !.pc = IF rw THEN "check" ELSE "ready", !.fds = Append(@, i)])
         ELSE IF rw /\ proc[p].mode.create THEN Set(p, [proc[p] EXCEPT !.pc = "mkdir"])
         ELSE Fail(p)
MkDir(p) ==
  /\ proc[p].pc = "mkdir"
  /\ Set(p, [proc[p] EXCEPT !.pc = "open"])
  /\ IF Here(p)[proc[p].target] # 0 THEN UNCHANGED <<loc, ino>>
     ELSE /\ Len(ino) < MaxIno
          /\ ino' = Append(ino, NewInode)
          /\ loc' = [loc EXCEPT !.rw[proc[p].target] = Len(ino) + 1]
  /\ UNCHANGED <<budget, raced>>

(* Mutant: any .features will do. *)
InitCacheFeatures_unchecked(p) ==
  /\ proc[p].pc = "check" /\ Same
  /\ Set(p, [proc[p] EXCEPT !.pc = IF ino[Rw(p)].feat = NoFile THEN "clear" ELSE "ready"])
(* Mutant: features that do not match are looked at again. *)
InitCacheFeatures_retry(p) ==
  LET r == FeaturesCheck(Rw(p), proc[p].text)
  IN  /\ proc[p].pc = "check" /\ Same
      /\ Set(p, [proc[p] EXCEPT !.pc = IF r = "ok" THEN "ready" ELSE IF r = "ENOENT" THEN "clear" ELSE "look",
                                !.fds = IF r = "EEXIST" THEN <<>> ELSE @])
InitCacheFeatures(p) ==
  LET r == FeaturesCheck(Rw(p), proc[p].text)
  IN  /\ proc[p].pc = "check" /\ Same
      /\ IF r = "ok" THEN Set(p, [proc[p] EXCEPT !.pc = "ready"])
         ELSE IF r = "ENOENT" /\ proc[p].mode.create THEN Set(p, [proc[p] EXCEPT !.pc = "clear"])
         ELSE Fail(p)

(* create_cache: aa_policy_cache_remove walks over what it has read before; *)
(* a file that is gone meanwhile is an error, reported after the walk.      *)
NamesIn(i) == DOMAIN ino[i].ents \union (IF ino[i].feat = NoFile THEN {} ELSE {DotFeatures})
ReadCache(p) ==
  /\ proc[p].pc = "clear" /\ Same
  /\ Set(p, [proc[p] EXCEPT !.pc = "unlink", !.todo = NamesIn(Rw(p)), !.ok = TRUE])
(* the directory shrinks between the two reads of readdirfd                 *)
ReadCacheFails(p) ==
  /\ proc[p].pc = "clear" /\ Same
  /\ \E q \in Procs \ {p} : proc[q].pc = "unlink" /\ Rw(q) = Rw(p)
  /\ Fail(p)
Without(i, n) == IF n = DotFeatures THEN [i EXCEPT !.feat = NoFile, !.writers = {}]
                 ELSE [i EXCEPT !.ents = [m \in DOMAIN @ \ {n} |-> @[m]]]
(* A change of directory i is seen by the loads that are under way.         *)
Disturb(procs, i) == [q \in Procs |-> IF i \in Range(procs[q].fds) THEN [procs[q] EXCEPT !.clean = FALSE]
                                       ELSE procs[q]]
ClearCache(p) ==
  LET n == Min(proc[p].todo)
  IN  /\ proc[p].pc = "unlink" /\ proc[p].todo # {}
      /\ proc' = Disturb([proc EXCEPT ![p].todo = @ \ {n}, ![p].ok = @ /\ n \in NamesIn(Rw(p))], Rw(p))
      /\ ino' = [ino EXCEPT ![Rw(p)] = Without(@, n)]
      /\ UNCHANGED <<loc, budget, raced>>
CacheCleared(p) ==
  /\ proc[p].pc = "unlink" /\ proc[p].todo = {} /\ Same
  /\ IF proc[p].ok THEN Set(p, [proc[p] EXCEPT !.pc = "truncate"]) ELSE Fail(p)

(* aa_features_write_to_file: open with O_TRUNC, then write                 *)
Truncate(p) ==
  /\ proc[p].pc = "truncate"
  /\ IF ino[Rw(p)].live
     THEN /\ ino' = [ino EXCEPT ![Rw(p)].feat = <<>>, ![Rw(p)].writers = @ \union {p}]
          /\ Set(p, [proc[p] EXCEPT !.pc = "write"])
     ELSE Fail(p) /\ UNCHANGED ino
  /\ UNCHANGED <<loc, budget, raced>>
Overwrite(old, text) == text \o SubSeq(old, Len(text) + 1, Len(old))
WriteFeatures(p) ==
  /\ proc[p].pc = "write"
  /\ ino' = IF p \in ino[Rw(p)].writers
            THEN [ino EXCEPT ![Rw(p)].feat = Overwrite(@, proc[p].text), ![Rw(p)].writers = @ \ {p}]
            ELSE ino
  /\ Set(p, [proc[p] EXCEPT !.pc = "ready"])
  /\ UNCHANGED <<loc, budget, raced>>
WriteFeaturesFails(p) == proc[p].pc = "write" /\ Fail(p) /\ Same

(***************************************************************************)
(* Use of an open cache                                                    *)
(***************************************************************************)
AddRoDir(p) ==
  /\ proc[p].pc = "ready" /\ Len(proc[p].fds) < Overlays /\ Same
  /\ Set(p, [proc[p] EXCEPT !.pc = "look", !.at = "ro"])

(* A compiled profile is renamed into the first directory, or a whiteout is *)
(* put there.                                                               *)
WriteEntry(p) ==
  /\ proc[p].pc = "ready" /\ budget.writes > 0 /\ ino[Rw(p)].live
  /\ \E n \in Names, c \in Policies, kind \in {"file", "empty"} :
       ino' = [ino EXCEPT ![Rw(p)].ents =
                 [m \in DOMAIN @ \union {n} |-> IF m = n THEN [kind |-> kind, pol |-> c, by |-> proc[p].text]
                                                ELSE @[m]]]
  /\ budget' = [budget EXCEPT !.writes = @ - 1]
  /\ proc' = Disturb(proc, Rw(p)) /\ UNCHANGED <<loc, raced>>

(* aa_policy_cache_open: the first directory with the name, 0 if none has it *)
CacheOpen(p, n) ==
  LET has == {k \in DOMAIN proc[p].fds : n \in NamesIn(proc[p].fds[k])}
  IN  IF has = {} THEN 0 ELSE proc[p].fds[Min(has)]

(* replace_all_cb: links, empty files, directories and ignored names are    *)
(* skipped.                                                                 *)
Loads(i, n) == n # DotFeatures /\ LET k == ino[i].ents[n].kind
                                  IN  ~IsBlacklisted(k) /\ k \notin {"link", "empty", "dir"}
Ki(p) == AaKernelInterfaceNew(proc[p].text)
Overlay_(p) == OverlayOf([k \in DOMAIN proc[p].fds |-> NamesIn(proc[p].fds[k])])
Visible(p) == UNION {NamesIn(proc[p].fds[k]) : k \in DOMAIN proc[p].fds}
(* The profiles of the policies that can be opened: what a load should give *)
HoldsPolicy(i, n) == n # DotFeatures /\ ino[i].ents[n].kind = "file"
Wanted(p) == UNION {LET i == CacheOpen(p, n)
                    IN  IF HoldsPolicy(i, n) THEN ProfilesIn(ino[i].ents[n].pol.bytes) ELSE {} : n \in Visible(p)}
(* aa_policy_cache_replace_all; a write past the overlay ends the program.  *)
ReplaceAllPolicy(p) ==
  LET o == Overlay_(p)
  IN  /\ proc[p].pc = "ready" /\ Same
      /\ IF o.bad THEN End(p, "overrun")
         ELSE Set(p, [proc[p] EXCEPT !.pc = "replace", !.items = o.items, !.ok = TRUE, !.loaded = {},
                                     !.want = Wanted(p), !.clean = TRUE])
(* One entry; after an error the rest is only freed.                        *)
ReplaceOne(p) ==
  LET item == Head(proc[p].items)
      i == proc[p].fds[item.dir]
      rest == [proc[p] EXCEPT !.items = Tail(@)]
  IN  /\ proc[p].pc = "replace" /\ proc[p].items # <<>> /\ Same
      /\ IF ~proc[p].ok THEN Set(p, rest)
         ELSE IF item.name \notin NamesIn(i) THEN Set(p, [rest EXCEPT !.ok = FALSE])
         ELSE IF ~Loads(i, item.name) THEN Set(p, rest)
         ELSE \E r \in WriteToIface(Ki(p), ino[i].ents[item.name].pol) :
                Set(p, [rest EXCEPT !.ok = r.ok, !.loaded = @ \union r.loaded])
ReplaceDone(p) ==
  /\ proc[p].pc = "replace" /\ proc[p].items = <<>> /\ Same
  /\ Set(p, [proc[p] EXCEPT !.pc = "replaced"])
Unref(p) == proc[p].pc \in {"ready", "replaced"} /\ Same /\ End(p, "done")

Crash(p) ==
  /\ proc[p].pc \notin {"done", "failed", "dead", "overrun"} /\ budget.faults > 0
  /\ End(p, "dead")
  /\ budget' = [budget EXCEPT !.faults = @ - 1] /\ UNCHANGED <<loc, ino, raced>>

(* clear_cache_cb on the location (--purge-cache): the files of a directory *)
(* and then the directory itself, if it is still empty.                     *)
PurgeFiles(d) ==
  LET i == loc.rw[d]
  IN  /\ i # 0 /\ budget.faults > 0 /\ NamesIn(i) # {}
      /\ ino' = [ino EXCEPT ![i] = [@ EXCEPT !.feat = NoFile, !.ents = NoEnts, !.writers = {}]]
      /\ proc' = Disturb(proc, i)
      /\ raced' = (raced \/ \E p \in Procs : i \in Range(proc[p].fds))
      /\ budget' = [budget EXCEPT !.faults = @ - 1] /\ UNCHANGED loc
PurgeDir(d) ==
  LET i == loc.rw[d]
  IN  /\ i # 0 /\ budget.faults > 0 /\ NamesIn(i) = {}
      /\ ino' = [ino EXCEPT ![i].live = FALSE]
      /\ loc' = [loc EXCEPT !.rw[d] = 0]
      /\ budget' = [budget EXCEPT !.faults = @ - 1] /\ UNCHANGED <<proc, raced>>

Opening(p) == LoadFeatures(p) \/ Look(p) \/ CacheMiss(p) \/ NoMatch(p) \/ OpenDir(p) \/ MkDir(p)
              \/ InitCacheFeatures(p) \/ ReadCache(p) \/ ReadCacheFails(p) \/ ClearCache(p)
              \/ CacheCleared(p) \/ Truncate(p) \/ WriteFeatures(p) \/ WriteFeaturesFails(p)
Using(p) == AddRoDir(p) \/ WriteEntry(p) \/ ReplaceAllPolicy(p) \/ ReplaceOne(p) \/ ReplaceDone(p) \/ Unref(p)
Next == \/ \E p \in Procs : Opening(p) \/ Using(p) \/ Crash(p)
        \/ \E d \in Dirs : PurgeFiles(d) \/ PurgeDir(d)
Spec == Init /\ [][Next]_vars /\ \A p \in Procs : WF_vars(Opening(p))

(***************************************************************************)
(* Properties                                                              *)
(***************************************************************************)
(* A features text is all of what the kernel shows, never a part of it, and *)
(* is refused only when it does not fit (features_snprintf,                 *)
(* load_features_file).                                                     *)
FeaturesWhole ==
  \A p \in Procs : proc[p].pc = "look" /\ proc[p].at = "rw" => proc[p].text = RenderDir[proc[p].mode.kern]

(* A path is found exactly if the kernel shows it, as long as no name ends  *)
(* with another one (walk_one).                                             *)
Paths == {<<"p", "/", "s">>, <<"p", "/", "c">>, <<"p">>, <<"s">>, <<"m", "/", "p">>, <<"m", "/", "p", "/", "s">>}
SupportsIsTree ==
  \A p \in Procs : proc[p].pc = "look" /\ proc[p].at = "rw" =>
    \A path \in Paths : AaFeaturesSupports(proc[p].text, path) <=> HasPath[proc[p].mode.kern, Components(path, MaxComponents)]

(* The library knows exactly the features that the kernel shows.            *)
FeaturesRight == FeaturesWhole /\ SupportsIsTree

(* A directory with a whole .features holds entries of these features only, *)
(* unless programs whose features have the same hash open their cache at    *)
(* the same time, one of them looks while another uses a directory that     *)
(* lost its .features, or a purge empties one that is in use                *)
(* (init_cache_features looks and create_cache clears and writes without a  *)
(* lock).                                                                   *)
CacheMatches ==
  raced \/ \A i \in DOMAIN ino : ino[i].feat \notin {NoFile, <<>>} =>
    \A n \in DOMAIN ino[i].ents : ino[i].ents[n].by = ino[i].feat

(* The overlay array is never written past its end (insert), so that        *)
(* aa_policy_cache_replace_all replaces the policies of a cache whatever    *)
(* the build.  It compares the addresses of size and max_size: where the    *)
(* outcome is FALSE nothing is ever allocated.                              *)
OverlayInBounds == \A p \in Procs : proc[p].pc # "overrun"

(* What an undisturbed load has still to do is in order and has each name   *)
(* once, in the directory in which aa_policy_cache_open finds it, however   *)
(* the names of the directories interleave (insert, merge).                 *)
OverlayRight ==
  \A p \in Procs : proc[p].pc = "replace" /\ proc[p].ok /\ proc[p].clean =>
    LET items == proc[p].items
    IN  /\ \A i, j \in DOMAIN items : i < j => items[i].name < items[j].name
        /\ \A i \in DOMAIN items :
             items[i].name # DotFeatures => proc[p].fds[items[i].dir] = CacheOpen(p, items[i].name)

(* A load of all that nobody disturbs and that succeeds loads what          *)
(* aa_policy_cache_open would find under every name, in whole policies      *)
(* (replace_all_cb, next_profile_buffer).                                   *)
LoadedIsVisible ==
  \A p \in Procs : proc[p].pc = "replaced" /\ proc[p].ok /\ proc[p].clean => proc[p].loaded = proc[p].want

(* Whatever the others do, opening the cache comes to an end.               *)
Opened(p) == proc[p].pc \in {"ready", "replace", "replaced", "done", "failed", "dead", "overrun"}
OpeningEnds == \A p \in Procs : []<>Opened(p)
=============================================================================
