-------------------------- MODULE DfaCache_proofs --------------------------
(***************************************************************************)
(* The DFA a profile is processed with is its own, for every number of     *)
(* parsers and runs, all policies, and every hash that names the files:    *)
(* the proof uses nothing about Fnv, so all keys may collide.              *)
(***************************************************************************)
EXTENDS DfaCache, TLAPS, SequenceTheorems

(* What a file may hold behind a header: the DFA of a profile whose rules  *)
(* and options the header names, whatever of it was written.               *)
Stored(prof, g, n) == [hdr |-> [hash |-> Hashed(prof, g), size |-> prof.size], bytes |-> n, dfa |-> DfaOf(prof, g), perms |-> DfaOf(prof, g)]
FileType == {Empty} \union {Stored(prof, g, n) : prof \in Used, g \in Globals, n \in Nat}
Tmps == Keys \X Parsers

Reading == {"header", "body", "perms"}
Writing == {"write", "close", "rename"}
Places == {"idle", "lookup", "xmatch", "compile", "store", "policydb"} \union Reading \union Writing

Shape == /\ inodes \in Seq(FileType)
         /\ DOMAIN path = Keys /\ DOMAIN tmp = Tmps
         /\ DOMAIN pc = Parsers /\ DOMAIN todo = Parsers /\ DOMAIN glob = Parsers
         /\ DOMAIN fd = Parsers /\ DOMAIN dfa = Parsers /\ DOMAIN cached = Parsers

(* No two temporary names have the same file, and a file that parsers may  *)
(* look up has no temporary name.                                          *)
Private == /\ \A k \in Keys : path[k] \in 0 .. Len(inodes)
           /\ \A x \in Tmps : tmp[x] \in 0 .. Len(inodes)
           /\ \A k \in Keys, x \in Tmps : tmp[x] # NoFile => tmp[x] # path[k]
           /\ \A x, y \in Tmps : tmp[x] # NoFile /\ tmp[x] = tmp[y] => x = y

Own(p) == DfaOf(Prof(p), glob[p])

(* Where a parser is: the file it reads has no temporary name, so it stays *)
(* as it is; the one it writes is its own.                                 *)
AtWork(p) == /\ pc[p] \in Places /\ todo[p] \in Seq(Used) /\ DOMAIN dfa[p] = {"dfa", "perms"}
             /\ pc[p] # "idle" => todo[p] # <<>> /\ glob[p] \in Globals
             /\ pc[p] \in Reading => fd[p] \in 1 .. Len(inodes) /\ \A x \in Tmps : tmp[x] # fd[p]
             /\ pc[p] \in {"body", "perms"} => File(p) # Empty /\ File(p).hdr.hash = Hashed(Prof(p), glob[p])
             /\ pc[p] = "perms" => dfa[p].dfa = File(p).dfa
             /\ pc[p] = "xmatch" /\ cached[p] => SameDfa(dfa[p].dfa, Own(p)) /\ dfa[p].perms = dfa[p].dfa
             /\ pc[p] \in {"store"} \union Writing => dfa[p].dfa = Own(p) /\ dfa[p].perms = Own(p)
             /\ pc[p] \in Writing => fd[p] = tmp[MyTmp(p)] /\ fd[p] # NoFile
             /\ pc[p] = "policydb" => SameDfa(dfa[p].dfa, Own(p)) /\ dfa[p].perms = dfa[p].dfa

IInv == Shape /\ Private /\ \A p \in Parsers : AtWork(p)
-----------------------------------------------------------------------------
(* Profiles and options that hash alike have the same DFA. *)
LEMMA SameHash ==
    ASSUME SameOrder, Used \subseteq Profiles,
           NEW prof \in Used, NEW g, NEW prof2 \in Used, NEW g2, Hashed(prof, g) = Hashed(prof2, g2)
    PROVE  SameDfa(DfaOf(prof, g), DfaOf(prof2, g2))
<1> DEFINE r1 == GenPolicyRe[prof.block]
           r2 == GenPolicyRe[prof2.block]
<1>1. prof.block \in Blocks /\ prof2.block \in Blocks
  BY DEF Profiles
<1>2. r1 = CollectFileRuleBlocks[prof.block] /\ r2 = CollectFileRuleBlocks[prof2.block]
  BY <1>1 DEF SameOrder
<1>3. r1 = r2 /\ g.abi = g2.abi /\ g.control = g2.control
  BY <1>2 DEF Hashed
<1>4. (g.version >= 2) <=> (g2.version >= 2)
  <2>1. Hashed(prof, g).permstable = (g.version >= 2) /\ Hashed(prof2, g2).permstable = (g2.version >= 2)
    BY DEF Hashed
  <2> QED BY <2>1, Zenon
<1> HIDE DEF r1, r2
<1>5. CASE r1 = <<>>
  <2>1. DfaOf(prof, g) = NoDfa /\ DfaOf(prof2, g2) = NoDfa
    BY <1>3, <1>5 DEF DfaOf, r1, r2
  <2> QED BY <2>1 DEF SameDfa
<1>6. CASE r1 # <<>>
  <2>1. /\ DfaOf(prof, g) = [rules |-> r1, abi |-> g.abi, control |-> g.control, version |-> g.version, stacking |-> g.stacking]
        /\ DfaOf(prof2, g2) = [rules |-> r1, abi |-> g.abi, control |-> g.control, version |-> g2.version, stacking |-> g2.stacking]
    BY <1>3, <1>6 DEF DfaOf, r1, r2
  <2> QED BY <1>4, <2>1 DEF SameDfa, Unhashed
<1> QED BY <1>5, <1>6

LEMMA UsedProfiles == Used \subseteq Profiles /\ \A po \in Policies : po \in Seq(Used) /\ po # <<>>
<1>1. ASSUME NEW po \in Policies PROVE po \in Seq(Profiles) /\ po # <<>> /\ po \in Seq(Used)
  <2>1. po \in Seq(Profiles) /\ po # <<>>
    BY DfaPoliciesAssumption
  <2>2. \A i \in 1 .. Len(po) : po[i] \in Used
    BY <2>1 DEF Used, Range
  <2> QED BY <2>1, <2>2
<1>2. ASSUME NEW u \in Used PROVE u \in Profiles
  <2>1. PICK po \in Policies : u \in {po[i] : i \in DOMAIN po}
    BY DEF Used, Range
  <2>2. PICK i \in DOMAIN po : u = po[i]
    BY <2>1
  <2> QED BY <1>1, <2>2, LenProperties, ElementOfSeq
<1> QED BY <1>1, <1>2

(* The key of a profile in work *)
LEMMA KeyIn ==
    ASSUME NEW p \in Parsers, AtWork(p), pc[p] # "idle"
    PROVE  Prof(p) \in Used /\ glob[p] \in Globals /\ MyKey(p) \in Keys /\ MyTmp(p) \in Tmps
<1>1. todo[p] \in Seq(Used) /\ todo[p] # <<>> /\ glob[p] \in Globals
  BY DEF AtWork
<1>2. Prof(p) \in Used
  BY <1>1 DEF Prof
<1>3. MyKey(p) \in Keys
  BY <1>1, <1>2 DEF Keys, MyKey
<1> QED BY <1>1, <1>2, <1>3 DEF MyTmp, Tmps

(* A parser keeps its place while another one takes a step. *)
Same(q) == /\ pc'[q] = pc[q] /\ todo'[q] = todo[q] /\ glob'[q] = glob[q]
           /\ fd'[q] = fd[q] /\ dfa'[q] = dfa[q] /\ cached'[q] = cached[q]

LEMMA OthersKeep ==
    ASSUME NEW q \in Parsers, AtWork(q), Same(q),
           pc[q] \in Reading => /\ inodes'[fd[q]] = inodes[fd[q]] /\ fd[q] \in 1 .. Len(inodes')
                                /\ \A x \in Tmps : tmp'[x] # fd[q],
           pc[q] \in Writing => tmp'[MyTmp(q)] = tmp[MyTmp(q)]
    PROVE  AtWork(q)'
<1>1. /\ Own(q)' = Own(q) /\ MyTmp(q)' = MyTmp(q) /\ Prof(q)' = Prof(q)
      /\ Hashed(Prof(q), glob[q])' = Hashed(Prof(q), glob[q])
      /\ pc[q] \in Reading => File(q)' = File(q)
  BY DEF Same, Own, MyTmp, MyKey, Prof, File
<1> QED BY <1>1 DEF AtWork, Same, Reading

(* A step that leaves the files alone *)
LEMMA FilesSame ==
    ASSUME IInv, UNCHANGED files, NEW p \in Parsers, \A q \in Parsers \ {p} : Same(q), Shape', AtWork(p)'
    PROVE  IInv'
<1>1. inodes' = inodes /\ path' = path /\ tmp' = tmp
  BY DEF files
<1>2. Private'
  BY <1>1 DEF IInv, Private
<1>3. ASSUME NEW q \in Parsers \ {p} PROVE AtWork(q)'
  <2>1. AtWork(q) /\ Same(q)
    BY DEF IInv
  <2>2. pc[q] \in Reading => fd[q] \in 1 .. Len(inodes) /\ \A x \in Tmps : tmp[x] # fd[q]
    BY <2>1 DEF AtWork
  <2> QED BY <1>1, <2>1, <2>2, OthersKeep
<1> QED BY <1>2, <1>3 DEF IInv

LEMMA MissKeeps == ASSUME IInv, NEW p \in Parsers, pc[p] # "idle", Miss(p) PROVE IInv'
<1>1. /\ UNCHANGED files /\ todo' = todo /\ glob' = glob /\ pc' = [pc EXCEPT ![p] = "xmatch"]
      /\ fd' = [fd EXCEPT ![p] = NoFile] /\ dfa' = [dfa EXCEPT ![p] = Unset] /\ cached' = [cached EXCEPT ![p] = FALSE]
  BY DEF Miss, Forget, Goto
<1>2. Shape'
  BY <1>1 DEF IInv, Shape, files
<1>3. \A q \in Parsers \ {p} : Same(q)
  BY <1>1 DEF IInv, Shape, Same
<1>4. pc'[p] = "xmatch" /\ dfa'[p] = Unset /\ cached'[p] = FALSE
  BY <1>1 DEF IInv, Shape
<1>5. AtWork(p)'
  BY <1>1, <1>4 DEF IInv, AtWork, Places, Reading, Writing, Unset
<1> QED BY <1>1, <1>2, <1>3, <1>5, FilesSame

LEMMA LeftKeeps == ASSUME IInv, NEW p \in Parsers, pc[p] # "idle", NEW l \in Seq(Used), Left(p, l) PROVE IInv'
<1> DEFINE s == IF l = <<>> THEN "idle" ELSE "lookup"
           g == IF l = <<>> THEN AnyGlobals ELSE glob[p]
<1>1. /\ UNCHANGED files /\ todo' = [todo EXCEPT ![p] = l] /\ glob' = [glob EXCEPT ![p] = g] /\ pc' = [pc EXCEPT ![p] = s]
      /\ fd' = [fd EXCEPT ![p] = NoFile] /\ dfa' = [dfa EXCEPT ![p] = Unset] /\ cached' = [cached EXCEPT ![p] = FALSE]
  BY DEF Left, Forget, Goto
<1>2. Shape'
  BY <1>1 DEF IInv, Shape, files
<1>3. \A q \in Parsers \ {p} : Same(q)
  BY <1>1 DEF IInv, Shape, Same
<1>4. pc'[p] = s /\ todo'[p] = l /\ glob'[p] = g /\ dfa'[p] = Unset
  BY <1>1 DEF IInv, Shape
<1>5. AtWork(p)'
  BY <1>4 DEF IInv, AtWork, Places, Reading, Writing, Unset
<1> QED BY <1>1, <1>2, <1>3, <1>5, FilesSame

LEMMA NextProfileKeeps == ASSUME IInv, NEW p \in Parsers, pc[p] # "idle", NextProfile(p) PROVE IInv'
<1>1. todo[p] \in Seq(Used) /\ todo[p] # <<>>
  BY DEF IInv, AtWork
<1>2. Tail(todo[p]) \in Seq(Used)
  BY <1>1, HeadTailProperties
<1> QED BY <1>2, LeftKeeps DEF NextProfile

LEMMA StartKeeps == ASSUME IInv, NEW p \in Parsers, Start(p) PROVE IInv'
<1>1. PICK po \in Policies, g \in Globals : todo' = [todo EXCEPT ![p] = po] /\ glob' = [glob EXCEPT ![p] = g]
  BY DEF Start
<1>2. UNCHANGED <<files, fd, dfa, cached>> /\ pc' = [pc EXCEPT ![p] = "lookup"]
  BY DEF Start, Goto
<1>3. Shape'
  BY <1>1, <1>2 DEF IInv, Shape, files
<1>4. \A q \in Parsers \ {p} : Same(q)
  BY <1>1, <1>2 DEF IInv, Shape, Same
<1>5. pc'[p] = "lookup" /\ todo'[p] = po /\ glob'[p] = g /\ dfa'[p] = dfa[p]
  BY <1>1, <1>2 DEF IInv, Shape
<1>6. AtWork(p)'
  BY <1>5, UsedProfiles DEF IInv, AtWork, Places, Reading, Writing
<1> QED BY <1>2, <1>3, <1>4, <1>6, FilesSame

LEMMA OpenKeeps == ASSUME IInv, NEW p \in Parsers, Open(p) PROVE IInv'
<1> DEFINE k == MyKey(p)
<1>1. pc[p] = "lookup" /\ AtWork(p)
  BY DEF Open, IInv
<1>2. k \in Keys
  BY <1>1, KeyIn
<1>3. CASE path[k] = NoFile
  BY <1>1, <1>3, MissKeeps DEF Open
<1>4. CASE path[k] # NoFile
  <2>1. /\ UNCHANGED <<files, todo, glob, dfa, cached>>
        /\ fd' = [fd EXCEPT ![p] = path[k]] /\ pc' = [pc EXCEPT ![p] = "header"]
    BY <1>4 DEF Open, Goto
  <2>2. path[k] \in 1 .. Len(inodes) /\ \A x \in Tmps : tmp[x] # path[k]
    <3>1. path[k] \in 0 .. Len(inodes) /\ path[k] # 0 /\ \A x \in Tmps : tmp[x] # 0 => tmp[x] # path[k]
      BY <1>2, <1>4 DEF IInv, Private, NoFile
    <3> HIDE DEF k
    <3>2. path[k] \in 1 .. Len(inodes)
      BY <3>1
    <3> QED BY <3>1, <3>2, Zenon
  <2>3. Shape'
    BY <2>1 DEF IInv, Shape, files
  <2>4. \A q \in Parsers \ {p} : Same(q)
    BY <2>1 DEF IInv, Shape, Same
  <2>5. pc'[p] = "header" /\ fd'[p] = path[k]
    BY <2>1 DEF IInv, Shape
  <2> HIDE DEF k
  <2>6. AtWork(p)'
    BY <1>1, <2>1, <2>2, <2>5 DEF AtWork, Places, Reading, Writing, files
  <2> QED BY <2>1, <2>3, <2>4, <2>6, FilesSame
<1> QED BY <1>3, <1>4
LEMMA ReadHeaderKeeps == ASSUME IInv, NEW p \in Parsers, ReadHeader(p) PROVE IInv'
<1>1. pc[p] = "header" /\ AtWork(p)
  BY DEF ReadHeader, IInv
<1>2. CASE Miss(p)
  BY <1>1, <1>2, MissKeeps
<1>3. CASE ~Miss(p)
  <2>1. /\ UNCHANGED <<files, todo, glob, fd, dfa, cached>> /\ pc' = [pc EXCEPT ![p] = "body"]
        /\ File(p).hdr # NoHeader /\ File(p).hdr.hash = Hashed(Prof(p), glob[p])
    BY <1>3 DEF ReadHeader, Goto
  <2>2. File(p) # Empty
    BY <2>1 DEF Empty
  <2>3. Shape'
    BY <2>1 DEF IInv, Shape, files
  <2>4. \A q \in Parsers \ {p} : Same(q)
    BY <2>1 DEF IInv, Shape, Same
  <2>5. pc'[p] = "body"
    BY <2>1 DEF IInv, Shape
  <2>6. File(p)' = File(p) /\ Hashed(Prof(p), glob[p])' = Hashed(Prof(p), glob[p]) /\ inodes' = inodes /\ tmp' = tmp
    BY <2>1 DEF File, Prof, files
  <2>7. AtWork(p)'
    BY <1>1, <2>1, <2>2, <2>5, <2>6 DEF AtWork, Places, Reading, Writing
  <2> QED BY <2>1, <2>3, <2>4, <2>7, FilesSame
<1> QED BY <1>2, <1>3

LEMMA ReadDfaKeeps == ASSUME IInv, NEW p \in Parsers, ReadDfa(p) PROVE IInv'
<1>1. pc[p] = "body" /\ AtWork(p)
  BY DEF ReadDfa, IInv
<1>2. CASE Miss(p)
  BY <1>1, <1>2, MissKeeps
<1>3. CASE ~Miss(p)
  <2>1. /\ UNCHANGED <<files, todo, glob, fd, cached>> /\ pc' = [pc EXCEPT ![p] = "perms"]
        /\ dfa' = [dfa EXCEPT ![p].dfa = File(p).dfa]
    BY <1>3 DEF ReadDfa, Goto
  <2>2. DOMAIN dfa = Parsers /\ DOMAIN dfa[p] = {"dfa", "perms"}
    BY <1>1 DEF IInv, Shape, AtWork
  <2>3. Shape'
    BY <2>1 DEF IInv, Shape, files
  <2>4. \A q \in Parsers \ {p} : Same(q)
    BY <2>1 DEF IInv, Shape, Same
  <2>5. pc'[p] = "perms" /\ dfa'[p].dfa = File(p).dfa /\ DOMAIN dfa'[p] = {"dfa", "perms"}
    BY <2>1, <2>2 DEF IInv, Shape
  <2>6. File(p)' = File(p) /\ Hashed(Prof(p), glob[p])' = Hashed(Prof(p), glob[p]) /\ inodes' = inodes /\ tmp' = tmp
    BY <2>1 DEF File, Prof, files
  <2>7. AtWork(p)'
    BY <1>1, <2>1, <2>5, <2>6 DEF AtWork, Places, Reading, Writing
  <2> QED BY <2>1, <2>3, <2>4, <2>7, FilesSame
<1> QED BY <1>2, <1>3

(* The permissions come from the file the DFA came from, which held both   *)
(* under the same header.                                                  *)
LEMMA ReadPermsKeeps == ASSUME SameOrder, IInv, NEW p \in Parsers, ReadPerms(p) PROVE IInv'
<1>1. pc[p] = "perms" /\ AtWork(p)
  BY DEF ReadPerms, IInv
<1>2. CASE Miss(p)
  BY <1>1, <1>2, MissKeeps
<1>3. CASE ~Miss(p)
  <2>1. /\ UNCHANGED <<files, todo, glob, fd>> /\ pc' = [pc EXCEPT ![p] = "xmatch"]
        /\ dfa' = [dfa EXCEPT ![p].perms = File(p).perms] /\ cached' = [cached EXCEPT ![p] = TRUE]
    BY <1>3 DEF ReadPerms, Goto
  <2>2. DOMAIN dfa = Parsers /\ DOMAIN dfa[p] = {"dfa", "perms"}
    BY <1>1 DEF IInv, Shape, AtWork
  <2>3. Shape'
    BY <2>1 DEF IInv, Shape, files
  <2>4. \A q \in Parsers \ {p} : Same(q)
    BY <2>1 DEF IInv, Shape, Same
  <2>5. pc'[p] = "xmatch" /\ dfa'[p].dfa = dfa[p].dfa /\ dfa'[p].perms = File(p).perms /\ DOMAIN dfa'[p] = {"dfa", "perms"}
    BY <2>1, <2>2 DEF IInv, Shape
  <2>6. /\ fd[p] \in 1 .. Len(inodes) /\ File(p) # Empty /\ File(p).hdr.hash = Hashed(Prof(p), glob[p])
        /\ dfa[p].dfa = File(p).dfa
    BY <1>1 DEF AtWork, Reading
  <2>7. File(p) \in FileType
    BY <2>6, ElementOfSeq DEF IInv, Shape, File
  <2>8. PICK prof \in Used, g \in Globals, n \in Nat : File(p) = Stored(prof, g, n)
    BY <2>6, <2>7 DEF FileType
  <2>9. File(p).hdr.hash = Hashed(prof, g) /\ File(p).dfa = DfaOf(prof, g) /\ File(p).perms = DfaOf(prof, g)
    BY <2>8 DEF Stored
  <2>10. SameDfa(DfaOf(prof, g), Own(p))
    BY <1>1, <2>6, <2>9, KeyIn, SameHash, UsedProfiles DEF Own
  <2>11. Own(p)' = Own(p)
    BY <2>1 DEF Own, Prof
  <2>12. SameDfa(dfa'[p].dfa, Own(p)') /\ dfa'[p].perms = dfa'[p].dfa
    BY <2>5, <2>6, <2>9, <2>10, <2>11
  <2>13. AtWork(p)'
    BY <1>1, <2>1, <2>5, <2>12 DEF AtWork, Places, Reading, Writing
  <2> QED BY <2>1, <2>3, <2>4, <2>13, FilesSame
<1> QED BY <1>2, <1>3

(* A parser that goes on with what it has *)
LEMMA GoesTo ==
    ASSUME IInv, NEW p \in Parsers, pc[p] # "idle", NEW s \in Places, s \notin Reading, pc' = [pc EXCEPT ![p] = s],
           UNCHANGED <<files, todo, glob, fd, cached>>, DOMAIN dfa' = Parsers, \A q \in Parsers \ {p} : dfa'[q] = dfa[q],
           DOMAIN dfa'[p] = {"dfa", "perms"},
           s = "xmatch" => ~cached[p],
           s \in {"store"} \union Writing => dfa'[p].dfa = Own(p) /\ dfa'[p].perms = Own(p),
           s \in Writing => pc[p] \in Writing,
           s = "policydb" => SameDfa(dfa'[p].dfa, Own(p)) /\ dfa'[p].perms = dfa'[p].dfa
    PROVE  IInv'
<1>1. Shape'
  BY DEF IInv, Shape, files
<1>2. \A q \in Parsers \ {p} : Same(q)
  BY DEF IInv, Shape, Same
<1>3. pc'[p] = s /\ AtWork(p)
  BY DEF IInv, Shape
<1>4. Own(p)' = Own(p) /\ MyTmp(p)' = MyTmp(p) /\ tmp' = tmp
  BY DEF Own, MyTmp, MyKey, Prof, files
<1>5. AtWork(p)'
  BY <1>3, <1>4 DEF AtWork, Reading
<1> QED BY <1>1, <1>2, <1>5, FilesSame

LEMMA SameRefl == ASSUME NEW d PROVE SameDfa(d, d)
BY DEF SameDfa

LEMMA CompileKeeps ==
    ASSUME IInv, NEW p \in Parsers, Patterns(p) \/ ProcessProfileRegex(p) \/ ProcessProfilePolicydb(p)
    PROVE  IInv'
<1>1. AtWork(p) /\ pc[p] \in {"xmatch", "compile", "policydb"} /\ DOMAIN dfa = Parsers
  BY DEF Patterns, ProcessProfileRegex, ProcessProfilePolicydb, IInv, Shape
<1>2. CASE NextProfile(p)
  BY <1>1, <1>2, NextProfileKeeps
<1>3. CASE Patterns(p) /\ ~NextProfile(p)
  <2> DEFINE s == IF cached[p] THEN "policydb" ELSE "compile"
  <2>1. pc[p] = "xmatch" /\ pc' = [pc EXCEPT ![p] = s] /\ UNCHANGED <<files, todo, glob, fd, dfa, cached>>
    BY <1>3 DEF Patterns, Goto, mine
  <2>2. s \in Places /\ s \notin Reading /\ s \notin Writing /\ s \notin {"xmatch", "store"} /\ (s = "policydb" => cached[p])
    BY DEF Places, Reading, Writing
  <2> HIDE DEF s
  <2>3. s = "policydb" => SameDfa(dfa[p].dfa, Own(p)) /\ dfa[p].perms = dfa[p].dfa
    BY <1>1, <2>1, <2>2 DEF AtWork
  <2>4. DOMAIN dfa[p] = {"dfa", "perms"}
    BY <1>1 DEF AtWork
  <2> QED BY <1>1, <2>1, <2>2, <2>3, <2>4, GoesTo
<1>4. CASE ProcessProfileRegex(p) /\ ~NextProfile(p)
  <2> DEFINE d == Own(p)
             s == IF d = NoDfa THEN "policydb" ELSE "store"
  <2>1. /\ pc[p] = "compile" /\ pc' = [pc EXCEPT ![p] = s] /\ UNCHANGED <<files, todo, glob, fd, cached>>
        /\ dfa' = [dfa EXCEPT ![p] = [dfa |-> d, perms |-> d]]
    BY <1>4 DEF ProcessProfileRegex, Goto, Own
  <2>2. s \in Places /\ s \notin Reading /\ s \notin Writing /\ s # "xmatch"
    BY DEF Places, Reading, Writing
  <2>3. DOMAIN dfa' = Parsers /\ \A q \in Parsers \ {p} : dfa'[q] = dfa[q]
    BY <1>1, <2>1
  <2>4. dfa'[p] = [dfa |-> d, perms |-> d]
    BY <1>1, <2>1
  <2>5. DOMAIN dfa'[p] = {"dfa", "perms"} /\ dfa'[p].dfa = d /\ dfa'[p].perms = d
    BY <2>4
  <2>6. SameDfa(dfa'[p].dfa, Own(p))
    BY <2>5, SameRefl
  <2> HIDE DEF s, d
  <2> QED BY <1>1, <2>1, <2>2, <2>3, <2>5, <2>6, GoesTo DEF d
<1> QED BY <1>2, <1>3, <1>4 DEF ProcessProfilePolicydb
(***************************************************************************)
(* A step that stores: of the files, it may touch the one under the name   *)
(* it writes to, or a new one.                                             *)
(***************************************************************************)
TmpPrivate == /\ \A x \in Tmps : tmp[x] \in 0 .. Len(inodes)
              /\ \A x, y \in Tmps : tmp[x] # NoFile /\ tmp[x] = tmp[y] => x = y

LEMMA StoreStep ==
    ASSUME IInv, NEW p \in Parsers, pc[p] \in {"store"} \union Writing, NEW i \in 0 .. Len(inodes'),
           \A x \in Tmps : tmp'[x] = IF x = MyTmp(p) THEN i ELSE tmp[x],
           Len(inodes') \in Nat, Len(inodes') >= Len(inodes), NEW f,
           \A j \in 1 .. Len(inodes) : j # f => inodes'[j] = inodes[j],
           f = tmp[MyTmp(p)] \/ f \notin 1 .. Len(inodes),
           i = NoFile \/ i = tmp[MyTmp(p)] \/ i \notin 0 .. Len(inodes),
           \A q \in Parsers \ {p} : Same(q)
    PROVE  /\ \A q \in Parsers \ {p} : AtWork(q)'
           /\ TmpPrivate'
           /\ \A k \in Keys, x \in Tmps : tmp'[x] # NoFile => tmp'[x] # path[k]
<1> DEFINE me == MyTmp(p)
<1>1. me \in Tmps
  BY KeyIn DEF IInv, Writing
<1>2. Len(inodes) \in Nat
  BY LenProperties DEF IInv, Shape
<1> HIDE DEF me
<1>3. /\ \A k \in Keys : path[k] \in 0 .. Len(inodes)
      /\ \A x \in Tmps : tmp[x] \in 0 .. Len(inodes)
      /\ \A k \in Keys, x \in Tmps : tmp[x] # NoFile => tmp[x] # path[k]
      /\ \A x, y \in Tmps : tmp[x] # NoFile /\ tmp[x] = tmp[y] => x = y
  BY DEF IInv, Private
<1>4. \A x \in Tmps : tmp'[x] = IF x = me THEN i ELSE tmp[x]
  BY DEF me
<1>5. i = NoFile \/ i = tmp[me] \/ i \notin 0 .. Len(inodes)
  BY DEF me
<1>6. \A x \in Tmps : tmp'[x] \in 0 .. Len(inodes')
  BY <1>2, <1>3, <1>4
<1>7. \A x, y \in Tmps : tmp'[x] # NoFile /\ tmp'[x] = tmp'[y] => x = y
  BY <1>1, <1>3, <1>4, <1>5
<1>8. \A k \in Keys, x \in Tmps : tmp'[x] # NoFile => tmp'[x] # path[k]
  BY <1>1, <1>3, <1>4, <1>5
<1>9. ASSUME NEW q \in Parsers \ {p} PROVE AtWork(q)'
  <2>1. AtWork(q) /\ Same(q)
    BY DEF IInv
  <2>2. ASSUME pc[q] \in Reading
        PROVE  inodes'[fd[q]] = inodes[fd[q]] /\ fd[q] \in 1 .. Len(inodes') /\ \A x \in Tmps : tmp'[x] # fd[q]
    <3>1. fd[q] \in 1 .. Len(inodes) /\ \A x \in Tmps : tmp[x] # fd[q]
      BY <2>1, <2>2 DEF AtWork
    <3>2. fd[q] # f
      BY <1>1, <3>1 DEF me
    <3>3. inodes'[fd[q]] = inodes[fd[q]]
      BY <3>1, <3>2
    <3>4. fd[q] # i
      BY <1>1, <1>2, <1>5, <3>1 DEF NoFile
    <3>5. fd[q] \in 1 .. Len(inodes')
      BY <1>2, <3>1
    <3> QED BY <1>4, <3>1, <3>3, <3>4, <3>5
  <2>3. ASSUME pc[q] \in Writing PROVE tmp'[MyTmp(q)] = tmp[MyTmp(q)]
    <3>1. MyTmp(q) \in Tmps
      BY <2>1, <2>3, KeyIn DEF Writing
    <3>2. MyTmp(q) # me
      BY DEF MyTmp, me
    <3> QED BY <1>4, <3>1, <3>2
  <2> QED BY <2>1, <2>2, <2>3, OthersKeep
<1> QED BY <1>6, <1>7, <1>8, <1>9 DEF TmpPrivate

LEMMA UnlinkKeeps == ASSUME IInv, NEW p \in Parsers, pc[p] \in Writing, Unlink(p) PROVE IInv'
<1>1. /\ tmp' = [tmp EXCEPT ![MyTmp(p)] = NoFile] /\ pc' = [pc EXCEPT ![p] = "policydb"]
      /\ UNCHANGED <<inodes, path, todo, glob, fd, dfa, cached>>
  BY DEF Unlink, Goto, mine
<1>2. AtWork(p) /\ MyTmp(p) \in Tmps
  BY KeyIn DEF IInv, Writing
<1>3. Shape'
  BY <1>1 DEF IInv, Shape
<1>4. \A q \in Parsers \ {p} : Same(q)
  BY <1>1 DEF IInv, Shape, Same
<1>5. \A x \in Tmps : tmp'[x] = IF x = MyTmp(p) THEN NoFile ELSE tmp[x]
  BY <1>1 DEF IInv, Shape
<1>6. Len(inodes') \in Nat /\ Len(inodes') >= Len(inodes) /\ NoFile \in 0 .. Len(inodes')
  <2>1. Len(inodes) \in Nat
    BY LenProperties DEF IInv, Shape
  <2> QED BY <1>1, <2>1 DEF NoFile
<1>7. \A j \in 1 .. Len(inodes) : j # tmp[MyTmp(p)] => inodes'[j] = inodes[j]
  BY <1>1
<1>8. /\ \A q \in Parsers \ {p} : AtWork(q)'
      /\ TmpPrivate'
      /\ \A k \in Keys, x \in Tmps : tmp'[x] # NoFile => tmp'[x] # path[k]
  BY <1>4, <1>5, <1>6, <1>7, StoreStep
<1>9. Private'
  BY <1>1, <1>8 DEF IInv, Private, TmpPrivate
<1>10. pc'[p] = "policydb" /\ Own(p)' = Own(p)
  BY <1>1 DEF IInv, Shape, Own, Prof
<1>11. SameDfa(dfa[p].dfa, Own(p)) /\ dfa[p].perms = dfa[p].dfa
  BY <1>2, SameRefl DEF AtWork
<1>12. AtWork(p)'
  BY <1>1, <1>2, <1>10, <1>11 DEF AtWork, Places, Reading, Writing
<1> QED BY <1>3, <1>8, <1>9, <1>12 DEF IInv

LEMMA PutKeeps ==
    ASSUME IInv, NEW p \in Parsers, pc[p] \in Writing, NEW n \in Nat, NEW s \in {"close", "rename"}, Put(p, Contents(p, n), s)
    PROVE  IInv'
<1> DEFINE c == Contents(p, n)
           f == fd[p]
<1>1. /\ inodes' = [inodes EXCEPT ![f] = c] /\ pc' = [pc EXCEPT ![p] = s]
      /\ UNCHANGED <<path, tmp, todo, glob, fd, dfa, cached>>
  BY DEF Put, Goto, mine
<1>2. AtWork(p) /\ MyTmp(p) \in Tmps /\ Prof(p) \in Used /\ glob[p] \in Globals
  BY KeyIn DEF IInv, Writing
<1>3. f = tmp[MyTmp(p)] /\ f # 0 /\ dfa[p].dfa = Own(p) /\ dfa[p].perms = Own(p)
  BY <1>2 DEF AtWork, NoFile
<1>4. inodes \in Seq(FileType) /\ Len(inodes) \in Nat
  BY LenProperties DEF IInv, Shape
<1>5. f \in 1 .. Len(inodes)
  <2>1. f \in 0 .. Len(inodes)
    BY <1>2, <1>3 DEF IInv, Private
  <2> HIDE DEF f
  <2> QED BY <1>3, <1>4, <2>1
<1>6. c \in FileType
  <2>1. c = Stored(Prof(p), glob[p], n)
    BY <1>3 DEF Contents, Header, Stored, Own
  <2> QED BY <1>2, <2>1 DEF FileType
<1> HIDE DEF c, f
<1>7. inodes' \in Seq(FileType) /\ Len(inodes') = Len(inodes) /\ \A j \in 1 .. Len(inodes) : j # f => inodes'[j] = inodes[j]
  BY <1>1, <1>4, <1>5, <1>6, ExceptSeq
<1>8. Shape'
  BY <1>1, <1>7 DEF IInv, Shape
<1>9. \A q \in Parsers \ {p} : Same(q)
  BY <1>1 DEF IInv, Shape, Same
<1>10. /\ \A x \in Tmps : tmp'[x] = IF x = MyTmp(p) THEN f ELSE tmp[x]
       /\ f \in 0 .. Len(inodes') /\ Len(inodes') \in Nat /\ Len(inodes') >= Len(inodes)
  BY <1>1, <1>3, <1>4, <1>5, <1>7
<1>11. /\ \A q \in Parsers \ {p} : AtWork(q)'
       /\ TmpPrivate'
       /\ \A k \in Keys, x \in Tmps : tmp'[x] # NoFile => tmp'[x] # path[k]
  BY <1>3, <1>7, <1>9, <1>10, StoreStep
<1>12. Private'
  BY <1>1, <1>7, <1>11 DEF IInv, Private, TmpPrivate
<1>13. pc'[p] = s /\ Own(p)' = Own(p) /\ MyTmp(p)' = MyTmp(p)
  BY <1>1 DEF IInv, Shape, Own, Prof, MyTmp, MyKey
<1>14. AtWork(p)'
  BY <1>1, <1>2, <1>13 DEF AtWork, Places, Reading, Writing
<1> QED BY <1>8, <1>11, <1>12, <1>14 DEF IInv
LEMMA GiveUpKeeps == ASSUME IInv, NEW p \in Parsers, pc[p] = "store", GiveUp(p) PROVE IInv'
<1>1. pc' = [pc EXCEPT ![p] = "policydb"] /\ UNCHANGED <<files, todo, glob, fd, dfa, cached>>
  BY DEF GiveUp, Goto, mine
<1>2. AtWork(p) /\ DOMAIN dfa = Parsers
  BY DEF IInv, Shape
<1>3. DOMAIN dfa[p] = {"dfa", "perms"} /\ SameDfa(dfa[p].dfa, Own(p)) /\ dfa[p].perms = dfa[p].dfa
  BY <1>2, SameRefl DEF AtWork
<1> QED BY <1>1, <1>2, <1>3, GoesTo DEF Places, Reading, Writing

LEMMA OpenTmpKeeps == ASSUME IInv, NEW p \in Parsers, OpenTmp(p) PROVE IInv'
<1> DEFINE old == tmp[MyTmp(p)]
           i == IF old = NoFile THEN Len(inodes) + 1 ELSE old
<1>1. pc[p] = "store" /\ AtWork(p)
  BY DEF OpenTmp, IInv
<1>2. CASE GiveUp(p)
  BY <1>1, <1>2, GiveUpKeeps
<1>3. CASE ~GiveUp(p)
  <2>1. /\ inodes' = IF old = NoFile THEN Append(inodes, Empty) ELSE [inodes EXCEPT ![i] = Empty]
        /\ tmp' = [tmp EXCEPT ![MyTmp(p)] = i]
        /\ fd' = [fd EXCEPT ![p] = i] /\ pc' = [pc EXCEPT ![p] = "write"]
        /\ UNCHANGED <<path, todo, glob, dfa, cached>>
    BY <1>3 DEF OpenTmp, Goto
  <2>2. MyTmp(p) \in Tmps
    BY <1>1, KeyIn
  <2>3. inodes \in Seq(FileType) /\ Len(inodes) \in Nat /\ Empty \in FileType
    BY LenProperties DEF IInv, Shape, FileType
  <2>4. old \in 0 .. Len(inodes)
    BY <2>2 DEF IInv, Private
  <2>5. Shape' /\ \A q \in Parsers \ {p} : Same(q)
    <3>1. inodes' \in Seq(FileType)
      <4>1. CASE old = NoFile
        BY <2>1, <2>3, <4>1, AppendProperties
      <4>2. CASE old # NoFile
        <5>1. i \in 1 .. Len(inodes)
          <6>1. i = old /\ old # 0
            BY <4>2 DEF NoFile
          <6> HIDE DEF i, old
          <6> QED BY <2>3, <2>4, <6>1
        <5>2. inodes' = [inodes EXCEPT ![i] = Empty]
          BY <2>1, <4>2
        <5> HIDE DEF i, old
        <5> QED BY <2>3, <5>1, <5>2, ExceptSeq
      <4> QED BY <4>1, <4>2
    <3> HIDE DEF i, old
    <3> QED BY <2>1, <3>1 DEF IInv, Shape, Same
  <2>6. \A x \in Tmps : tmp'[x] = IF x = MyTmp(p) THEN i ELSE tmp[x]
    <3> HIDE DEF i, old
    <3> QED BY <2>1 DEF IInv, Shape
  <2>7. /\ Len(inodes') \in Nat /\ Len(inodes') >= Len(inodes) /\ i \in 1 .. Len(inodes')
        /\ \A j \in 1 .. Len(inodes) : j # i => inodes'[j] = inodes[j]
        /\ i = old \/ i \notin 0 .. Len(inodes)
    <3>1. CASE old = NoFile
      <4>1. inodes' = Append(inodes, Empty) /\ i = Len(inodes) + 1
        BY <2>1, <3>1
      <4>2. Len(inodes') = Len(inodes) + 1 /\ \A j \in 1 .. Len(inodes) : inodes'[j] = inodes[j]
        BY <2>3, <4>1, AppendProperties
      <4> HIDE DEF i, old
      <4> QED BY <2>3, <4>1, <4>2
    <3>2. CASE old # NoFile
      <4>1. inodes' = [inodes EXCEPT ![i] = Empty] /\ i = old /\ old # 0
        BY <2>1, <3>2 DEF NoFile
      <4> HIDE DEF i, old
      <4>2. i \in 1 .. Len(inodes)
        BY <2>3, <2>4, <4>1
      <4>3. Len(inodes') = Len(inodes) /\ \A j \in 1 .. Len(inodes) : j # i => inodes'[j] = inodes[j]
        BY <2>3, <4>1, <4>2, ExceptSeq
      <4> QED BY <2>3, <4>1, <4>2, <4>3
    <3> QED BY <3>1, <3>2
  <2>8. i \in 0 .. Len(inodes') /\ (i = old \/ i \notin 1 .. Len(inodes))
    <3> HIDE DEF i, old
    <3> QED BY <2>3, <2>7
  <2>9. i = tmp[MyTmp(p)] \/ i \notin 0 .. Len(inodes)
    BY <2>7
  <2>10. i = tmp[MyTmp(p)] \/ i \notin 1 .. Len(inodes)
    BY <2>8
  <2> HIDE DEF i, old
  <2>11. /\ \A q \in Parsers \ {p} : AtWork(q)'
         /\ TmpPrivate'
         /\ \A k \in Keys, x \in Tmps : tmp'[x] # NoFile => tmp'[x] # path[k]
    BY <1>1, <2>5, <2>6, <2>7, <2>8, <2>9, <2>10, StoreStep
  <2>12. Private'
    <3>1. \A k \in Keys : path'[k] \in 0 .. Len(inodes')
      BY <2>1, <2>3, <2>7 DEF IInv, Private
    <3> QED BY <2>1, <2>11, <3>1 DEF Private, TmpPrivate
  <2>13. pc'[p] = "write" /\ fd'[p] = i /\ Own(p)' = Own(p) /\ MyTmp(p)' = MyTmp(p) /\ i # NoFile
    <3>1. i # NoFile
      BY <2>3, <2>7 DEF NoFile
    <3> QED BY <2>1, <3>1 DEF IInv, Shape, Own, Prof, MyTmp, MyKey
  <2>14. AtWork(p)'
    BY <1>1, <2>1, <2>2, <2>6, <2>13 DEF AtWork, Places, Reading, Writing
  <2> QED BY <2>5, <2>11, <2>12, <2>14 DEF IInv
<1> QED BY <1>2, <1>3

LEMMA RenameKeeps == ASSUME IInv, NEW p \in Parsers, Rename(p) PROVE IInv'
<1> DEFINE k0 == MyKey(p)
           me == MyTmp(p)
           f == tmp[me]
<1>1. pc[p] = "rename" /\ AtWork(p)
  BY DEF Rename, IInv
<1>2. CASE Unlink(p)
  BY <1>1, <1>2, UnlinkKeeps DEF Writing
<1>3. CASE ~Unlink(p)
  <2>1. /\ path' = [path EXCEPT ![k0] = f] /\ tmp' = [tmp EXCEPT ![me] = NoFile] /\ pc' = [pc EXCEPT ![p] = "policydb"]
        /\ UNCHANGED <<inodes, todo, glob, fd, dfa, cached>>
    BY <1>3 DEF Rename, Goto, mine
  <2>2. me \in Tmps /\ k0 \in Keys
    BY <1>1, KeyIn
  <2>3. Shape' /\ \A q \in Parsers \ {p} : Same(q)
    <3> HIDE DEF me, k0, f
    <3> QED BY <2>1 DEF IInv, Shape, Same
  <2>4. \A x \in Tmps : tmp'[x] = IF x = me THEN NoFile ELSE tmp[x]
    <3> HIDE DEF me, k0, f
    <3> QED BY <2>1 DEF IInv, Shape
  <2>5. Len(inodes') \in Nat /\ Len(inodes') >= Len(inodes) /\ NoFile \in 0 .. Len(inodes')
    <3>1. Len(inodes) \in Nat
      BY LenProperties DEF IInv, Shape
    <3> QED BY <2>1, <3>1 DEF NoFile
  <2>6. \A j \in 1 .. Len(inodes) : j # tmp[MyTmp(p)] => inodes'[j] = inodes[j]
    BY <2>1
  <2>7. /\ \A q \in Parsers \ {p} : AtWork(q)'
        /\ TmpPrivate'
        /\ \A k \in Keys, x \in Tmps : tmp'[x] # NoFile => tmp'[x] # path[k]
    BY <1>1, <2>3, <2>4, <2>5, <2>6, StoreStep DEF Writing
  <2>8. f \in 0 .. Len(inodes) /\ \A x \in Tmps : tmp[x] # NoFile /\ tmp[x] = f => x = me
    BY <2>2 DEF IInv, Private
  <2>9. \A k \in Keys : path'[k] = IF k = k0 THEN f ELSE path[k]
    <3> HIDE DEF me, k0, f
    <3> QED BY <2>1 DEF IInv, Shape
  <2>10. \A k \in Keys : path'[k] \in 0 .. Len(inodes')
    <3>1. \A k \in Keys : path[k] \in 0 .. Len(inodes)
      BY DEF IInv, Private
    <3> HIDE DEF me, k0, f
    <3> QED BY <2>1, <2>8, <2>9, <3>1
  <2>11. \A k \in Keys, x \in Tmps : tmp'[x] # NoFile => tmp'[x] # path'[k]
    <3> HIDE DEF me, k0, f
    <3> QED BY <2>4, <2>7, <2>8, <2>9
  <2>12. Private'
    BY <2>7, <2>10, <2>11 DEF Private, TmpPrivate
  <2>13. pc'[p] = "policydb" /\ Own(p)' = Own(p)
    <3> HIDE DEF me, k0, f
    <3> QED BY <2>1 DEF IInv, Shape, Own, Prof
  <2>14. SameDfa(dfa[p].dfa, Own(p)) /\ dfa[p].perms = dfa[p].dfa
    BY <1>1, SameRefl DEF AtWork, Writing
  <2>15. AtWork(p)'
    BY <1>1, <2>1, <2>13, <2>14 DEF AtWork, Places, Reading, Writing
  <2> QED BY <2>3, <2>7, <2>12, <2>15 DEF IInv
<1> QED BY <1>2, <1>3

LEMMA WriteKeeps == ASSUME IInv, NEW p \in Parsers, Write(p) \/ Close(p) PROVE IInv'
<1>1. AtWork(p) /\ pc[p] \in {"write", "close"} /\ pc[p] \in Writing
  BY DEF Write, Close, IInv, Writing
<1>2. CASE Unlink(p)
  BY <1>1, <1>2, UnlinkKeeps
<1>3. ASSUME NEW n \in 0 .. Total(p), Put(p, Contents(p, n), "close") PROVE IInv'
  <2>1. n \in Nat
    OBVIOUS
  <2> QED BY <1>1, <1>3, <2>1, PutKeeps
<1>4. CASE Put(p, Contents(p, Total(p)), "rename")
  <2>1. Prof(p) \in Profiles
    BY <1>1, KeyIn, UsedProfiles DEF Writing
  <2>2. Total(p) \in Nat
    BY <2>1 DEF Total, Profiles
  <2> QED BY <1>1, <1>4, <2>2, PutKeeps
<1>5. CASE Close(p) /\ Goto(p, "rename") /\ UNCHANGED <<files, mine, runs>>
  <2>1. pc' = [pc EXCEPT ![p] = "rename"] /\ UNCHANGED <<files, todo, glob, fd, dfa, cached>>
    BY <1>5 DEF Goto, mine
  <2>2. /\ DOMAIN dfa = Parsers /\ DOMAIN dfa[p] = {"dfa", "perms"}
        /\ dfa[p].dfa = Own(p) /\ dfa[p].perms = Own(p)
    BY <1>1 DEF IInv, Shape, AtWork
  <2> QED BY <1>1, <2>1, <2>2, GoesTo DEF Places, Reading, Writing
<1> QED BY <1>2, <1>3, <1>4, <1>5 DEF Write, Close

LEMMA DfaNext == ASSUME SameOrder, IInv, [Next]_vars PROVE IInv'
<1>1. ASSUME NEW p \in Parsers, Kill(p) PROVE IInv'
  <2>1. <<>> \in Seq(Used) /\ pc[p] # "idle"
    BY <1>1 DEF Kill
  <2> QED BY <1>1, <2>1, LeftKeeps DEF Kill
<1>2. CASE UNCHANGED vars
  <2>1. UNCHANGED <<inodes, path, tmp, pc, todo, glob, fd, dfa, cached>>
    BY <1>2 DEF vars
  <2>2. Shape' /\ Private'
    BY <2>1 DEF IInv, Shape, Private
  <2>3. ASSUME NEW q \in Parsers PROVE AtWork(q)'
    <3>1. AtWork(q) /\ Same(q)
      BY <2>1 DEF IInv, Same
    <3>2. pc[q] \in Reading => fd[q] \in 1 .. Len(inodes) /\ \A x \in Tmps : tmp[x] # fd[q]
      BY <3>1 DEF AtWork
    <3> QED BY <2>1, <3>1, <3>2, OthersKeep
  <2> QED BY <2>2, <2>3 DEF IInv
<1>3. CASE AllDone
  BY <1>2, <1>3 DEF AllDone
<1>4. ASSUME NEW p \in Parsers,
             \/ Start(p) \/ Open(p) \/ ReadHeader(p) \/ ReadDfa(p) \/ ReadPerms(p)
             \/ Patterns(p) \/ ProcessProfileRegex(p) \/ ProcessProfilePolicydb(p)
             \/ OpenTmp(p) \/ Write(p) \/ Close(p) \/ Rename(p) \/ Kill(p)
      PROVE  IInv'
  BY <1>1, <1>4, StartKeeps, OpenKeeps, ReadHeaderKeeps, ReadDfaKeeps, ReadPermsKeeps, CompileKeeps, OpenTmpKeeps, WriteKeeps, RenameKeeps
<1> QED BY <1>2, <1>3, <1>4 DEF Next

LEMMA DfaStart == Init => IInv
<1> SUFFICES ASSUME Init PROVE IInv
  OBVIOUS
<1>1. inodes = <<>> /\ inodes \in Seq(FileType) /\ Len(inodes) = 0
  BY DEF Init
<1>2. Shape
  BY <1>1 DEF Init, Shape, Tmps
<1>3. Private
  BY <1>1 DEF Init, Private, Tmps, NoFile
<1>4. ASSUME NEW p \in Parsers PROVE AtWork(p)
  <2>1. pc[p] = "idle" /\ todo[p] = <<>> /\ dfa[p] = Unset
    BY DEF Init
  <2> QED BY <2>1 DEF AtWork, Places, Reading, Writing, Unset
<1> QED BY <1>2, <1>3, <1>4 DEF IInv

(* Whatever other parsers store, tear or leave behind in the directory,    *)
(* however runs are killed, and whatever keys collide, a profile is        *)
(* processed with the DFA of its own rules, features and options and with  *)
(* the permissions that belong to it (process_profile_rules,               *)
(* dfa_cache_lookup_disk, dfa_cache_store_disk), if the hash takes the     *)
(* rules in the order in which they are compiled.                          *)
THEOREM CachedDfaIsOwnThm ==
    ASSUME SameOrder
    PROVE  Spec => []CachedDfaIsOwn
<1>1. IInv => CachedDfaIsOwn
  BY DEF IInv, AtWork, CachedDfaIsOwn, Own
<1> QED BY <1>1, DfaStart, DfaNext, PTL DEF Spec
=============================================================================
