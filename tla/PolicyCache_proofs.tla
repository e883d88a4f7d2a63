------------------------- MODULE PolicyCache_proofs -------------------------
(***************************************************************************)
(* Proofs about the policy caches, for any number of programs, features,   *)
(* colliding hashes, directories, names and policies: a cache directory    *)
(* with a whole .features holds entries of these features only; the        *)
(* overlay that a load walks over has each name once, where                *)
(* aa_policy_cache_open finds it; and an undisturbed load that succeeds    *)
(* has loaded what can be opened under every name.                         *)
(***************************************************************************)
EXTENDS PolicyCache, TLAPS, FiniteSetTheorems

(***************************************************************************)
(* Loops.  A loop over states S stops in Stop with the value base[s] and   *)
(* goes on to next[s] otherwise, and left[s] counts down.  Such a loop has *)
(* a value in every state (LoopExists), and what every turn keeps holds of *)
(* the value (LoopKeeps): both by taking a state with the least count that *)
(* has none.                                                               *)
(***************************************************************************)
LEMMA LeastOf ==
    ASSUME NEW T \in SUBSET Nat, T # {}
    PROVE  \E n \in T : \A k \in T : n <= k
<1>1. PICK n \in T : \A k \in T : ~(<<k, n>> \in OpToRel(<, Nat))
  BY WFMin, NatLessThanWellFounded
<1>2. ASSUME NEW k \in T PROVE n <= k
  <2>1. k < n => <<k, n>> \in {ss \in Nat \X Nat : ss[1] < ss[2]} OBVIOUS
  <2>2. ~(k < n) BY <1>1, <2>1 DEF OpToRel
  <2> QED BY <2>2
<1> QED BY <1>2

(* Where the measure is least among the elements of T *)
LEMMA LeastMeasure ==
    ASSUME NEW S, NEW m \in [S -> Nat], NEW T \in SUBSET S, T # {}
    PROVE  \E x \in T : \A y \in T : m[x] <= m[y]
<1> DEFINE M == {m[x] : x \in T}
<1>1. M \in SUBSET Nat /\ M # {} OBVIOUS
<1> HIDE DEF M
<1>2. PICK n \in M : \A k \in M : n <= k BY <1>1, LeastOf
<1> QED BY <1>2 DEF M

IsLoop(S, m, Stop, next) ==
  /\ m \in [S -> Nat] /\ Stop \in SUBSET S /\ next \in [S \ Stop -> S]
  /\ \A x \in S \ Stop : m[next[x]] < m[x]

Runs(g, D, Stop, base, next) == g = [x \in D |-> IF x \in Stop THEN base[x] ELSE g[next[x]]]
Below(S, m, n) == {x \in S : m[x] < n}

LEMMA RunsIs ==
    ASSUME NEW g, NEW D, NEW Stop, NEW base, NEW next, Runs(g, D, Stop, base, next)
    PROVE  DOMAIN g = D /\ \A x \in D : g[x] = IF x \in Stop THEN base[x] ELSE g[next[x]]
<1> DEFINE F == [x \in D |-> IF x \in Stop THEN base[x] ELSE g[next[x]]]
<1>1. g = F BY DEF Runs
<1>2. DOMAIN F = D /\ \A x \in D : F[x] = IF x \in Stop THEN base[x] ELSE g[next[x]] OBVIOUS
<1> HIDE DEF F
<1> QED BY <1>1, <1>2

LEMMA RunsAgree ==
    ASSUME NEW S, NEW m, NEW Stop, NEW base, NEW next, IsLoop(S, m, Stop, next),
           NEW j \in Nat, NEW k \in Nat, j <= k, NEW g, NEW h,
           Runs(g, Below(S, m, j), Stop, base, next), Runs(h, Below(S, m, k), Stop, base, next),
           NEW x \in Below(S, m, j)
    PROVE  g[x] = h[x]
<1> DEFINE T == {y \in Below(S, m, j) : g[y] # h[y]}
<1> SUFFICES ASSUME T # {} PROVE FALSE BY Zenon
<1>1. T \in SUBSET S /\ m \in [S -> Nat] BY DEF Below, IsLoop
<1>2. PICK y \in T : \A z \in T : m[y] <= m[z] BY <1>1, LeastMeasure
<1>3. y \in Below(S, m, j) /\ y \in Below(S, m, k) /\ g[y] # h[y] /\ y \in S /\ m[y] \in Nat /\ m[y] < j BY <1>1 DEF Below
<1>4. y \notin Stop BY <1>3, RunsIs
<1>5. next[y] \in S /\ m[next[y]] \in Nat /\ m[next[y]] < m[y] BY <1>3, <1>4 DEF IsLoop
<1>6. next[y] \in Below(S, m, j) BY <1>5, <1>3 DEF Below
<1>7. g[y] = g[next[y]] /\ h[y] = h[next[y]] BY <1>3, <1>4, RunsIs
<1>8. next[y] \in T BY <1>3, <1>6, <1>7
<1> QED BY <1>2, <1>5, <1>8, <1>3

LEMMA RunsExist ==
    ASSUME NEW S, NEW m, NEW Stop, NEW base, NEW next, IsLoop(S, m, Stop, next), NEW k \in Nat
    PROVE  \E g : Runs(g, Below(S, m, k), Stop, base, next)
<1> DEFINE T == {n \in Nat : ~ \E g : Runs(g, Below(S, m, n), Stop, base, next)}
<1> SUFFICES ASSUME T # {} PROVE FALSE BY Zenon
<1>1. PICK n \in T : \A i \in T : n <= i BY LeastOf
<1>2. n \in Nat /\ ~ \E g : Runs(g, Below(S, m, n), Stop, base, next) BY <1>1
<1>3. n # 0
  <2> SUFFICES ASSUME n = 0 PROVE FALSE OBVIOUS
  <2>1. Below(S, m, 0) = {} BY DEF Below, IsLoop
  <2> DEFINE e == [x \in {} |-> 0]
  <2>2. e = [x \in {} |-> IF x \in Stop THEN base[x] ELSE e[next[x]]] OBVIOUS
  <2> HIDE DEF e
  <2>3. Runs(e, {}, Stop, base, next) BY <2>2 DEF Runs
  <2> QED BY <1>2, <2>1, <2>3
<1>4. n - 1 \in Nat /\ n - 1 < n /\ n - 1 \notin T BY <1>1, <1>2, <1>3
<1>5. PICK g : Runs(g, Below(S, m, n - 1), Stop, base, next) BY <1>4
<1> DEFINE D == Below(S, m, n)
           h == [x \in D |-> IF x \in Stop THEN base[x] ELSE g[next[x]]]
<1>6. ASSUME NEW x \in D, x \notin Stop PROVE g[next[x]] = h[next[x]]
  <2>1. x \in S /\ m[x] \in Nat /\ m[x] < n BY <1>6 DEF Below, IsLoop
  <2>2. next[x] \in S /\ m[next[x]] \in Nat /\ m[next[x]] < m[x] BY <2>1, <1>6 DEF IsLoop
  <2>3. next[x] \in Below(S, m, n - 1) /\ next[x] \in D BY <2>1, <2>2, <1>2 DEF Below
  <2>4. h[next[x]] = IF next[x] \in Stop THEN base[next[x]] ELSE g[next[next[x]]] BY <2>3
  <2> HIDE DEF h
  <2> QED BY <2>3, <2>4, <1>5, RunsIs
<1>7. h = [x \in D |-> IF x \in Stop THEN base[x] ELSE h[next[x]]]
  <2> DEFINE hh == [x \in D |-> IF x \in Stop THEN base[x] ELSE h[next[x]]]
  <2>1. DOMAIN h = D /\ \A x \in D : h[x] = IF x \in Stop THEN base[x] ELSE g[next[x]] OBVIOUS
  <2>2. \A x \in D : h[x] = IF x \in Stop THEN base[x] ELSE h[next[x]]
    <3> HIDE DEF h
    <3> QED BY <2>1, <1>6
  <2>3. h = [x \in D |-> h[x]] OBVIOUS
  <2> HIDE DEF h
  <2> QED BY <2>2, <2>3
<1> HIDE DEF h
<1>8. Runs(h, D, Stop, base, next) BY <1>7 DEF Runs
<1> QED BY <1>2, <1>8

(* A loop that counts a measure down is what it says. *)
LEMMA LoopExists ==
    ASSUME NEW S, NEW m, NEW Stop, NEW base, NEW next, IsLoop(S, m, Stop, next)
    PROVE  \E f : Runs(f, S, Stop, base, next)
<1> DEFINE G(x) == CHOOSE g : Runs(g, Below(S, m, m[x] + 1), Stop, base, next)
           h == [x \in S |-> G(x)[x]]
<1>1. \A x \in S : m[x] \in Nat /\ m[x] + 1 \in Nat /\ x \in Below(S, m, m[x] + 1) BY DEF IsLoop, Below
<1>2. \A x \in S : Runs(G(x), Below(S, m, m[x] + 1), Stop, base, next) BY <1>1, RunsExist
<1>3. ASSUME NEW x \in S PROVE h[x] = IF x \in Stop THEN base[x] ELSE h[next[x]]
  <2>1. h[x] = G(x)[x] OBVIOUS
  <2> HIDE DEF G
  <2>2. G(x)[x] = IF x \in Stop THEN base[x] ELSE G(x)[next[x]] BY <1>1, <1>2, RunsIs
  <2>3. ASSUME x \notin Stop PROVE h[next[x]] = G(x)[next[x]]
    <3>1. next[x] \in S /\ m[next[x]] \in Nat /\ m[next[x]] < m[x] /\ m[x] \in Nat BY <2>3 DEF IsLoop
    <3>2. h[next[x]] = G(next[x])[next[x]] BY <3>1
    <3> DEFINE j == m[next[x]] + 1
               k == m[x] + 1
    <3>3. j \in Nat /\ k \in Nat /\ j <= k BY <3>1
    <3>4. next[x] \in Below(S, m, j) BY <1>1, <3>1
    <3>5. Runs(G(next[x]), Below(S, m, j), Stop, base, next) /\ Runs(G(x), Below(S, m, k), Stop, base, next) BY <1>2, <3>1
    <3> HIDE DEF j, k
    <3>6. G(next[x])[next[x]] = G(x)[next[x]] BY <3>3, <3>4, <3>5, RunsAgree
    <3> QED BY <3>2, <3>6
  <2> HIDE DEF h
  <2> QED BY <2>1, <2>2, <2>3
<1>4. h = [x \in S |-> h[x]] OBVIOUS
<1> HIDE DEF h
<1>5. h = [x \in S |-> IF x \in Stop THEN base[x] ELSE h[next[x]]] BY <1>3, <1>4
<1>6. Runs(h, S, Stop, base, next) BY <1>5 DEF Runs
<1> QED BY <1>6

(* I holds all along the loop and gives a result in W. *)
Along(I, W, S, Stop, base, next) ==
  I \in SUBSET S /\ (\A x \in I \ Stop : next[x] \in I) /\ \A x \in I \cap Stop : base[x] \in W
(* What holds along a loop holds of its result. *)
LEMMA LoopKeeps ==
    ASSUME NEW S, NEW m, NEW Stop, NEW base, NEW next, IsLoop(S, m, Stop, next),
           NEW f, Runs(f, S, Stop, base, next),
           NEW I, NEW W, Along(I, W, S, Stop, base, next)
    PROVE  \A x \in I : f[x] \in W
<1> DEFINE T == {x \in I : f[x] \notin W}
<1> SUFFICES ASSUME T # {} PROVE FALSE BY Zenon
<1>1. T \in SUBSET S /\ m \in [S -> Nat] BY DEF IsLoop, Along
<1>2. PICK x \in T : \A y \in T : m[x] <= m[y] BY <1>1, LeastMeasure
<1>3. x \in I /\ x \in S /\ f[x] \notin W BY <1>2 DEF Along
<1>4. f[x] = IF x \in Stop THEN base[x] ELSE f[next[x]] BY <1>3, RunsIs
<1>5. x \notin Stop BY <1>3, <1>4 DEF Along
<1>6. next[x] \in T BY <1>3, <1>4, <1>5 DEF Along
<1>7. m[next[x]] < m[x] /\ m[next[x]] \in Nat /\ m[x] \in Nat BY <1>3, <1>5 DEF IsLoop
<1> QED BY <1>2, <1>6, <1>7
-----------------------------------------------------------------------------
(***************************************************************************)
(* The overlay of the directories (private.c).                             *)
(***************************************************************************)
Items == [dir : Nat, name : Nat]

(* r is s with e at position i *)
Inserted(r, V, s, i, e) ==
  /\ r \in Seq(V) /\ Len(r) = Len(s) + 1
  /\ \A j \in 1 .. Len(s) + 1 : r[j] = IF j < i THEN s[j] ELSE IF j = i THEN e ELSE s[j - 1]
LEMMA InsertAtIs ==
    ASSUME NEW V, NEW s \in Seq(V), NEW i \in 1 .. Len(s) + 1, NEW e \in V
    PROVE  Inserted(InsertAt(s, i, e), V, s, i, e)
<1> DEFINE a == SubSeq(s, 1, i - 1)
           b == SubSeq(s, i, Len(s))
           r == a \o <<e>> \o b
<1>1. Len(s) \in Nat /\ i \in Nat /\ i >= 1 /\ i - 1 <= Len(s) OBVIOUS
<1>2. a \in Seq(V) /\ Len(a) = i - 1 /\ \A j \in 1 .. i - 1 : a[j] = s[j] BY <1>1
<1>3. b \in Seq(V) /\ Len(b) = Len(s) - i + 1 /\ \A j \in 1 .. Len(s) - i + 1 : b[j] = s[i + j - 1] BY <1>1
<1> HIDE DEF a, b
<1> DEFINE ae == a \o <<e>>
<1>4. ae \in Seq(V) /\ Len(ae) = i /\ (\A j \in 1 .. i - 1 : ae[j] = s[j]) /\ ae[i] = e BY <1>2, <1>1
<1> HIDE DEF ae
<1>5. ae \o b \in Seq(V) /\ Len(ae \o b) = Len(s) + 1 BY <1>1, <1>3, <1>4
<1>6. ASSUME NEW j \in 1 .. Len(s) + 1 PROVE (ae \o b)[j] = IF j < i THEN s[j] ELSE IF j = i THEN e ELSE s[j - 1]
  <2>1. CASE j <= i
    <3>1. (ae \o b)[j] = ae[j] BY <2>1, <1>3, <1>4
    <3> QED BY <3>1, <2>1, <1>4
  <2>2. CASE j > i
    <3>1. (ae \o b)[j] = b[j - i] BY <2>2, <1>3, <1>4, <1>5
    <3>2. j - i \in 1 .. Len(s) - i + 1 BY <2>2, <1>1
    <3> QED BY <3>1, <3>2, <2>2, <1>3, <1>1
  <2>3. j <= i \/ j > i OBVIOUS
  <2> QED BY <2>1, <2>2, <2>3, Zenon
<1> QED BY <1>5, <1>6 DEF ae, a, b, InsertAt, Inserted

LEMMA InsertAtRange ==
    ASSUME NEW V, NEW s \in Seq(V), NEW i \in 1 .. Len(s) + 1, NEW e \in V
    PROVE  Range(InsertAt(s, i, e)) = Range(s) \union {e}
<1> DEFINE r == InsertAt(s, i, e)
<1>1. r \in Seq(V) /\ Len(r) = Len(s) + 1
      /\ \A j \in 1 .. Len(s) + 1 : r[j] = IF j < i THEN s[j] ELSE IF j = i THEN e ELSE s[j - 1] BY InsertAtIs DEF Inserted
<1> HIDE DEF r
<1>2. DOMAIN r = 1 .. Len(s) + 1 /\ DOMAIN s = 1 .. Len(s) /\ Len(s) \in Nat BY <1>1
<1>3. ASSUME NEW j \in DOMAIN r PROVE r[j] \in Range(s) \union {e}
  <2>1. \/ j < i /\ j \in DOMAIN s /\ r[j] = s[j]
        \/ j = i /\ r[j] = e
        \/ j > i /\ j - 1 \in DOMAIN s /\ r[j] = s[j - 1] BY <1>1, <1>2
  <2> QED BY <2>1 DEF Range
<1>4. ASSUME NEW j \in DOMAIN s PROVE s[j] \in Range(r)
  <2>1. CASE j < i
    <3>1. j \in DOMAIN r /\ r[j] = s[j] BY <2>1, <1>1, <1>2
    <3> QED BY <3>1 DEF Range
  <2>2. CASE j >= i
    <3>1. j + 1 \in DOMAIN r /\ r[j + 1] = s[j] BY <2>2, <1>1, <1>2
    <3> QED BY <3>1 DEF Range
  <2> QED BY <2>1, <2>2, <1>2
<1>5. e \in Range(r)
  <2>1. i \in DOMAIN r /\ r[i] = e BY <1>1, <1>2
  <2> QED BY <2>1 DEF Range
<1> QED BY <1>3, <1>4, <1>5 DEF r, Range

ByName(items) == \A i, j \in DOMAIN items : i < j => items[i].name < items[j].name

LEMMA InsertByName ==
    ASSUME NEW s \in Seq(Items), ByName(s), NEW y \in 0 .. Len(s), NEW e \in Items,
           \A i \in 1 .. y : s[i].name < e.name, \A i \in y + 1 .. Len(s) : e.name < s[i].name
    PROVE  ByName(InsertAt(s, y + 1, e))
<1> DEFINE r == InsertAt(s, y + 1, e)
<1>1. r \in Seq(Items) /\ Len(r) = Len(s) + 1
      /\ \A j \in 1 .. Len(s) + 1 : r[j] = IF j < y + 1 THEN s[j] ELSE IF j = y + 1 THEN e ELSE s[j - 1]
  <2>1. PICK i \in 1 .. Len(s) + 1 : i = y + 1 OBVIOUS
  <2>2. Inserted(r, Items, s, i, e) BY <2>1, InsertAtIs
  <2> QED BY <2>1, <2>2 DEF Inserted
<1> HIDE DEF r
<1> SUFFICES ASSUME NEW i \in DOMAIN r, NEW j \in DOMAIN r, i < j PROVE r[i].name < r[j].name BY DEF ByName, r
<1>2. i \in 1 .. Len(s) + 1 /\ j \in 1 .. Len(s) + 1 /\ Len(s) \in Nat /\ DOMAIN s = 1 .. Len(s) BY <1>1
<1>3. CASE j <= y
  <2>1. r[i] = s[i] /\ r[j] = s[j] BY <1>1, <1>2, <1>3
  <2> QED BY <2>1, <1>2, <1>3 DEF ByName
<1>4. CASE j = y + 1
  <2>1. r[i] = s[i] /\ r[j] = e /\ i \in 1 .. y BY <1>1, <1>2, <1>4
  <2> QED BY <2>1
<1>5. CASE j > y + 1 /\ i <= y
  <2>1. r[i] = s[i] /\ r[j] = s[j - 1] BY <1>1, <1>2, <1>5
  <2> QED BY <2>1, <1>2, <1>5 DEF ByName
<1>6. CASE j > y + 1 /\ i = y + 1
  <2>1. r[i] = e /\ r[j] = s[j - 1] /\ j - 1 \in y + 1 .. Len(s) BY <1>1, <1>2, <1>6
  <2> QED BY <2>1
<1>7. CASE i > y + 1
  <2>1. r[i] = s[i - 1] /\ r[j] = s[j - 1] BY <1>1, <1>2, <1>7
  <2> QED BY <2>1, <1>2, <1>7 DEF ByName
<1> QED BY <1>2, <1>3, <1>4, <1>5, <1>6, <1>7

LEMMA MaxTwo == ASSUME NEW a \in Int, NEW b \in Int PROVE Max({a, b}) \in {a, b} /\ Max({a, b}) >= a /\ Max({a, b}) >= b
<1>1. \E x \in {a, b} : \A y \in {a, b} : x >= y
  <2>1. CASE a >= b BY <2>1
  <2>2. CASE b >= a BY <2>2
  <2> QED BY <2>1, <2>2
<1> DEFINE P(x) == x \in {a, b} /\ \A y \in {a, b} : x >= y
<1>2. \E x : P(x) BY <1>1
<1>3. P(CHOOSE x : P(x)) BY <1>2
<1>4. Max({a, b}) = CHOOSE x : P(x) BY DEF Max
<1> QED BY <1>3, <1>4

LEMMA MinTwo == ASSUME NEW a \in Int, NEW b \in Int PROVE Min({a, b}) \in {a, b} /\ Min({a, b}) <= a /\ Min({a, b}) <= b
<1>1. \E x \in {a, b} : \A y \in {a, b} : x <= y
  <2>1. CASE a >= b BY <2>1
  <2>2. CASE b >= a BY <2>2
  <2> QED BY <2>1, <2>2
<1> DEFINE P(x) == x \in {a, b} /\ \A y \in {a, b} : x <= y
<1>2. \E x : P(x) BY <1>1
<1>3. P(CHOOSE x : P(x)) BY <1>2
<1>4. Min({a, b}) = CHOOSE x : P(x) BY DEF Min
<1> QED BY <1>3, <1>4

LEMMA InsertIs ==
    ASSUME NEW o \in OverlayType, NEW pos \in 0 .. Len(o.items), NEW remaining \in Nat, NEW item \in Items
    PROVE  /\ Insert(o, pos, remaining, item) \in OverlayType
           /\ Insert(o, pos, remaining, item).items = InsertAt(o.items, pos + 1, item)
           /\ Len(Insert(o, pos, remaining, item).items) = Len(o.items) + 1
<1> DEFINE chunk == Max({remaining, Chunk})
           r == InsertAt(o.items, pos + 1, item)
           alloc == IF Grows THEN o.max + chunk ELSE o.alloc
           bad == o.bad \/ Len(o.items) + 1 >= alloc
           new == [items |-> r, max |-> o.max + chunk, alloc |-> alloc, bad |-> bad]
<1>1. o.items \in Seq(Items) /\ o.max \in Nat /\ o.alloc \in Nat /\ o.bad \in BOOLEAN BY DEF OverlayType, Items
<1>2. chunk \in Nat
  <2>1. Chunk \in Int /\ remaining \in Int /\ Chunk \in Nat BY ChunkAssumption
  <2>2. chunk \in {remaining, Chunk} BY <2>1, MaxTwo
  <2> QED BY <2>1, <2>2
<1> HIDE DEF chunk
<1>3. r \in Seq(Items) /\ Len(r) = Len(o.items) + 1
  <2>1. PICK i \in 1 .. Len(o.items) + 1 : i = pos + 1 BY <1>1
  <2>2. Inserted(r, Items, o.items, i, item) BY <1>1, <2>1, InsertAtIs
  <2> QED BY <2>2 DEF Inserted
<1> HIDE DEF r
<1>4. alloc \in Nat /\ bad \in BOOLEAN BY <1>1, <1>2
<1>5. Insert(o, pos, remaining, item) = new BY DEF Insert, chunk, r
<1>6. new \in OverlayType BY <1>1, <1>2, <1>3, <1>4 DEF OverlayType, Items
<1>7. new.items = r OBVIOUS
<1> HIDE DEF new, bad
<1> QED BY <1>3, <1>5, <1>6, <1>7 DEF r

MergeStop == {s \in MergeState : s.z = Len(s.list)}
MergeBase == [s \in MergeStop |-> s.o]
MergeNext == [s \in MergeState \ MergeStop |-> MergeStep(s)]
MergeLeft == [s \in MergeState |-> (Len(s.list) - s.z) + (Len(s.o.items) - s.y)]

(* What one turn of merge does *)
LEMMA MergeStepIs ==
    ASSUME NEW s \in MergeState, s.z # Len(s.list)
    PROVE  /\ MergeStep(s) \in MergeState /\ ItemAt(s) \in Items
           /\ MergeStep(s).list = s.list /\ MergeStep(s).dir = s.dir /\ MergeStep(s).y = s.y + 1
           /\ MetAt(s) => /\ MergeStep(s).o = s.o
                          /\ MergeStep(s).z = IF s.o.items[s.y + 1].name = s.list[s.z + 1] THEN s.z + 1 ELSE s.z
           /\ ~MetAt(s) => /\ MergeStep(s).o = Insert(s.o, s.y, Len(s.list) - s.z, ItemAt(s))
                           /\ MergeStep(s).z = s.z + 1
                           /\ Len(MergeStep(s).o.items) = Len(s.o.items) + 1
<1> DEFINE t == MergeStep(s)
<1>1. /\ s = [o |-> s.o, list |-> s.list, dir |-> s.dir, y |-> s.y, z |-> s.z]
      /\ s.o \in OverlayType /\ s.list \in Seq(Nat) /\ s.dir \in Nat /\ s.y \in Nat /\ s.z \in Nat
      /\ s.y <= Len(s.o.items) /\ s.z <= Len(s.list) BY DEF MergeState
<1>2. Len(s.list) \in Nat /\ Len(s.o.items) \in Nat BY <1>1 DEF OverlayType
<1>3. s.list[s.z + 1] \in Nat BY <1>1, <1>2
<1>4. ItemAt(s) \in Items /\ ItemAt(s).name = s.list[s.z + 1] BY <1>1, <1>3 DEF ItemAt, Items
<1>5. CASE MetAt(s)
  <2> DEFINE z == IF s.o.items[s.y + 1].name = s.list[s.z + 1] THEN s.z + 1 ELSE s.z
  <2>1. t = [o |-> s.o, list |-> s.list, dir |-> s.dir, y |-> s.y + 1, z |-> z]
    BY <1>1, <1>5 DEF MergeStep
  <2>2. z \in Nat /\ z <= Len(s.list) BY <1>1, <1>2
  <2>3. s.y + 1 <= Len(s.o.items) BY <1>1, <1>2, <1>5 DEF MetAt
  <2> HIDE DEF z, t
  <2>4. t \in MergeState BY <2>1, <2>2, <2>3, <1>1 DEF MergeState
  <2> QED BY <1>4, <1>5, <2>1, <2>4 DEF z, t
<1>6. CASE ~MetAt(s)
  <2> DEFINE o == Insert(s.o, s.y, Len(s.list) - s.z, ItemAt(s))
  <2>1. t = [o |-> o, list |-> s.list, dir |-> s.dir, y |-> s.y + 1, z |-> s.z + 1]
    BY <1>1, <1>6 DEF MergeStep
  <2>2. s.z + 1 <= Len(s.list) BY <1>1, <1>2
  <2>3. s.y \in 0 .. Len(s.o.items) /\ Len(s.list) - s.z \in Nat BY <1>1, <1>2
  <2>4. o \in OverlayType /\ Len(o.items) = Len(s.o.items) + 1 BY <2>3, <1>1, <1>4, InsertIs
  <2> HIDE DEF o, t
  <2>5. s.y + 1 <= Len(o.items) BY <2>4, <1>1, <1>2
  <2>6. t \in MergeState BY <2>1, <2>2, <2>4, <2>5, <1>1 DEF MergeState
  <2> QED BY <1>4, <1>6, <2>1, <2>4, <2>6 DEF o, t
<1> QED BY <1>5, <1>6

Counts(s) == /\ Len(s.list) \in Nat /\ Len(s.o.items) \in Nat /\ s.y \in Nat /\ s.z \in Nat
             /\ s.y <= Len(s.o.items) /\ s.z <= Len(s.list)
LEMMA Sums == ASSUME NEW a \in Nat, NEW b \in Nat, NEW c \in Nat, NEW d \in Nat, b <= a, d <= c
             PROVE  /\ (a - b) + (c - d) \in Nat
                    /\ (a - b) + (c - (d + 1)) < (a - b) + (c - d)
                    /\ (a - (b + 1)) + (c - (d + 1)) < (a - b) + (c - d)
                    /\ (a - (b + 1)) + ((c + 1) - (d + 1)) < (a - b) + (c - d)
OBVIOUS
LEMMA MergeLoop == IsLoop(MergeState, MergeLeft, MergeStop, MergeNext)
<1>1. ASSUME NEW s \in MergeState PROVE Counts(s)
  BY DEF MergeState, OverlayType, Counts
<1>2. MergeLeft \in [MergeState -> Nat]
  <2>1. ASSUME NEW s \in MergeState PROVE (Len(s.list) - s.z) + (Len(s.o.items) - s.y) \in Nat BY <1>1, Sums DEF Counts
  <2> QED BY <2>1 DEF MergeLeft
<1>3. ASSUME NEW s \in MergeState \ MergeStop PROVE MergeNext[s] \in MergeState /\ MergeLeft[MergeNext[s]] < MergeLeft[s]
  <2>1. s \in MergeState /\ s.z # Len(s.list) BY <1>3 DEF MergeStop
  <2> DEFINE t == MergeStep(s)
  <2>2. MergeNext[s] = t BY <1>3 DEF MergeNext
  <2>3. t \in MergeState BY <2>1, MergeStepIs
  <2>4. MergeLeft[t] = (Len(t.list) - t.z) + (Len(t.o.items) - t.y) /\ MergeLeft[s] = (Len(s.list) - s.z) + (Len(s.o.items) - s.y)
    BY <2>1, <2>3 DEF MergeLeft
  <2>5. /\ t.list = s.list /\ t.y = s.y + 1
        /\ \/ t.o = s.o /\ (t.z = s.z \/ t.z = s.z + 1)
           \/ Len(t.o.items) = Len(s.o.items) + 1 /\ t.z = s.z + 1
    BY <2>1, MergeStepIs
  <2> HIDE DEF t
  <2>6. MergeLeft[t] < MergeLeft[s] 
    <3>1. Counts(s) /\ Counts(t) BY <2>1, <2>3, <1>1
    <3> DEFINE a == Len(s.list)
               c == Len(s.o.items)
    <3>2. a \in Nat /\ c \in Nat /\ s.z \in Nat /\ s.y \in Nat /\ s.z <= a /\ s.y <= c BY <3>1 DEF Counts
    <3>3. MergeLeft[s] = (a - s.z) + (c - s.y) BY <2>4
    <3>4. \/ MergeLeft[t] = (a - s.z) + (c - (s.y + 1))
          \/ MergeLeft[t] = (a - (s.z + 1)) + (c - (s.y + 1))
          \/ MergeLeft[t] = (a - (s.z + 1)) + ((c + 1) - (s.y + 1)) BY <2>4, <2>5
    <3> HIDE DEF a, c
    <3> QED BY <3>2, <3>3, <3>4, Sums
  <2> QED BY <2>2, <2>3, <2>6
<1>4. MergeNext \in [MergeState \ MergeStop -> MergeState] BY <1>3 DEF MergeNext
<1> QED BY <1>2, <1>3, <1>4 DEF IsLoop, MergeStop

LEMMA MergeRuns == Runs(MergeFrom, MergeState, MergeStop, MergeBase, MergeNext)
<1> DEFINE F(g) == [s \in MergeState |-> IF s.z = Len(s.list) THEN s.o ELSE g[MergeStep(s)]]
<1>1. ASSUME NEW g PROVE [s \in MergeState |-> IF s \in MergeStop THEN MergeBase[s] ELSE g[MergeNext[s]]] = F(g)
  <2>1. ASSUME NEW s \in MergeState
        PROVE  (IF s \in MergeStop THEN MergeBase[s] ELSE g[MergeNext[s]]) = IF s.z = Len(s.list) THEN s.o ELSE g[MergeStep(s)]
    <3>1. s \in MergeStop <=> s.z = Len(s.list) BY DEF MergeStop
    <3>2. s \in MergeStop => MergeBase[s] = s.o BY DEF MergeBase
    <3>3. s \notin MergeStop => MergeNext[s] = MergeStep(s) BY DEF MergeNext
    <3> QED BY <3>1, <3>2, <3>3
  <2> QED BY <2>1
<1> HIDE DEF F
<1>2. \A g : Runs(g, MergeState, MergeStop, MergeBase, MergeNext) <=> g = F(g) BY <1>1 DEF Runs
<1>3. \E g : g = F(g) BY <1>2, MergeLoop, LoopExists
<1>4. MergeFrom = CHOOSE g : g = F(g) BY DEF MergeFrom, F
<1>5. MergeFrom = F(MergeFrom) BY <1>3, <1>4
<1> QED BY <1>2, <1>5

NamesOf(items) == {it.name : it \in Range(items)}
(* The items of o and the first z names of list that o does not have        *)
MergedTo(o, list, dir, z) ==
  Range(o.items) \union {[dir |-> dir, name |-> list[k]] : k \in {j \in 1 .. z : list[j] \notin NamesOf(o.items)}}
(* The loop of merge: what lies before y is smaller than what comes next.   *)
Merging(o, list, dir, s) ==
  /\ s \in MergeState /\ s.list = list /\ s.dir = dir
  /\ ByName(s.o.items) /\ Range(s.o.items) = MergedTo(o, list, dir, s.z)
  /\ s.z < Len(list) => \A i \in 1 .. s.y : s.o.items[i].name < list[s.z + 1]

LEMMA MergeStepKeeps ==
    ASSUME NEW o \in OverlayType, NEW list \in Seq(Nat), Ascending(list), NEW dir \in Nat,
           NEW s, Merging(o, list, dir, s), s.z # Len(list)
    PROVE  Merging(o, list, dir, MergeStep(s))
<1> DEFINE t == MergeStep(s)
           n == list[s.z + 1]
           items == s.o.items
<1>1. /\ s \in MergeState /\ s.list = list /\ s.dir = dir /\ ByName(items) /\ Range(items) = MergedTo(o, list, dir, s.z)
  BY DEF Merging
<1>2. /\ s.o \in OverlayType /\ items \in Seq(Items) /\ s.y \in Nat /\ s.z \in Nat /\ Len(list) \in Nat /\ Len(items) \in Nat
      /\ s.y <= Len(items) /\ s.z < Len(list) /\ DOMAIN items = 1 .. Len(items) /\ DOMAIN list = 1 .. Len(list)
  <2>1. s.o \in OverlayType /\ s.y \in Nat /\ s.z \in Nat /\ s.y <= Len(items) /\ s.z <= Len(list) BY <1>1 DEF MergeState
  <2>2. items \in Seq(Items) BY <2>1 DEF OverlayType, Items
  <2> QED BY <2>1, <2>2
<1>3. \A i \in 1 .. s.y : items[i].name < n BY <1>2 DEF Merging
<1>4. n \in Nat /\ s.z + 1 \in 1 .. Len(list) BY <1>2
<1>5. /\ t \in MergeState /\ ItemAt(s) \in Items /\ t.list = list /\ t.dir = dir /\ t.y = s.y + 1
      /\ MetAt(s) => t.o = s.o /\ t.z = IF items[s.y + 1].name = n THEN s.z + 1 ELSE s.z
      /\ ~MetAt(s) => /\ t.o = Insert(s.o, s.y, Len(list) - s.z, ItemAt(s)) /\ t.z = s.z + 1
    BY <1>1, MergeStepIs
<1>6. ItemAt(s) = [dir |-> dir, name |-> n] BY <1>1 DEF ItemAt
<1>7. ASSUME NEW i \in DOMAIN items PROVE items[i] \in Items /\ items[i].name \in Nat
  <2>1. items[i] \in Items BY <1>2
  <2> QED BY <2>1 DEF Items
<1>8. \A k \in 1 .. s.z : list[k] < n BY <1>2, <1>4 DEF Ascending
<1>9. t.z < Len(list) /\ t.z = s.z + 1 => n < list[t.z + 1] /\ list[t.z + 1] \in Nat BY <1>2, <1>4 DEF Ascending
<1> HIDE DEF t, n, items
<1>10. CASE MetAt(s) /\ items[s.y + 1].name # n
  <2>1. t.o = s.o /\ t.z = s.z BY <1>5, <1>10
  <2>2. s.y + 1 \in DOMAIN items /\ items[s.y + 1].name < n
    <3>1. s.y < Len(items) /\ items[s.y + 1].name <= n BY <1>1, <1>10 DEF MetAt, items, n
    <3>2. s.y + 1 \in DOMAIN items BY <3>1, <1>2
    <3>3. items[s.y + 1].name \in Nat BY <3>2, <1>7
    <3> QED BY <3>1, <3>2, <3>3, <1>4, <1>10
  <2>3. \A i \in 1 .. s.y + 1 : items[i].name < n BY <1>2, <1>3, <2>2
  <2>4. ByName(t.o.items) /\ Range(t.o.items) = MergedTo(o, list, dir, t.z) BY <1>1, <2>1 DEF items
  <2>6. \A i \in 1 .. t.y : t.o.items[i].name < list[t.z + 1] BY <1>5, <2>1, <2>3 DEF items, n
  <2> QED BY <1>5, <2>4, <2>6 DEF Merging, t
<1>11. CASE MetAt(s) /\ items[s.y + 1].name = n
  <2>1. t.o = s.o /\ t.z = s.z + 1 BY <1>5, <1>11
  <2>2. s.y + 1 \in DOMAIN items BY <1>1, <1>2, <1>11 DEF MetAt, items
  <2>3. ASSUME NEW i \in 1 .. s.y + 1 PROVE items[i].name <= n
    <3>1. i \in DOMAIN items BY <1>2, <2>2
    <3>2. items[i].name \in Nat BY <3>1, <1>7
    <3>3. i \in 1 .. s.y \/ i = s.y + 1 BY <1>2
    <3> QED BY <1>3, <1>4, <1>11, <3>2, <3>3
  <2>4. n \in NamesOf(o.items)
    <3>1. items[s.y + 1] \in MergedTo(o, list, dir, s.z) BY <1>1, <2>2 DEF Range
    <3>2. CASE items[s.y + 1] \in Range(o.items) BY <3>2, <1>11 DEF NamesOf
    <3>3. CASE \E k \in 1 .. s.z : items[s.y + 1] = [dir |-> dir, name |-> list[k]]
      <4>1. PICK k \in 1 .. s.z : items[s.y + 1] = [dir |-> dir, name |-> list[k]] BY <3>3
      <4>2. list[k] = n BY <4>1, <1>11
      <4> QED BY <4>2, <1>8, <1>4
    <3> QED BY <3>1, <3>2, <3>3 DEF MergedTo
  <2>5. MergedTo(o, list, dir, s.z + 1) = MergedTo(o, list, dir, s.z)
    <3>1. {j \in 1 .. s.z + 1 : list[j] \notin NamesOf(o.items)} = {j \in 1 .. s.z : list[j] \notin NamesOf(o.items)}
      BY <2>4, <1>2 DEF n
    <3> QED BY <3>1 DEF MergedTo
  <2>6. ASSUME t.z < Len(list) PROVE \A i \in 1 .. t.y : t.o.items[i].name < list[t.z + 1]
    <3>1. t.o.items = items /\ t.y = s.y + 1 BY <2>1, <1>5 DEF items
    <3>2. n < list[t.z + 1] /\ list[t.z + 1] \in Nat BY <2>6, <2>1, <1>9
    <3>3. \A i \in 1 .. s.y + 1 : items[i].name \in Nat BY <1>7, <1>2, <2>2
    <3> QED BY <3>1, <3>2, <3>3, <2>3, <1>4
  <2>7. ByName(t.o.items) /\ Range(t.o.items) = MergedTo(o, list, dir, t.z) BY <1>1, <2>1, <2>5 DEF items
  <2> QED BY <1>5, <2>6, <2>7 DEF Merging, t
<1>12. CASE ~MetAt(s)
  <2> DEFINE e == ItemAt(s)
  <2>1. t.o = Insert(s.o, s.y, Len(list) - s.z, e) /\ t.z = s.z + 1 BY <1>5, <1>12
  <2>2. s.y \in 0 .. Len(items) /\ Len(list) - s.z \in Nat /\ e \in Items /\ e.name = n BY <1>2, <1>5, <1>6
  <2> HIDE DEF e
  <2>3. t.o.items = InsertAt(items, s.y + 1, e)
    <3> DEFINE so == s.o
               pos == s.y
               left == Len(list) - s.z
    <3>1. so \in OverlayType /\ pos \in 0 .. Len(so.items) /\ left \in Nat /\ e \in Items BY <2>2, <1>2 DEF items
    <3>2. t.o = Insert(so, pos, left, e) BY <2>1
    <3> HIDE DEF so, pos, left
    <3>3. t.o.items = InsertAt(so.items, pos + 1, e) BY <3>1, <3>2, InsertIs
    <3> QED BY <3>3 DEF so, pos, items
  <2>4. \A i \in s.y + 1 .. Len(items) : n < items[i].name
    <3>1. CASE s.y = Len(items) BY <3>1, <1>2
    <3>2. CASE s.y < Len(items)
      <4>1. s.y + 1 \in DOMAIN items BY <1>2, <3>2
      <4>2. n < items[s.y + 1].name BY <1>1, <1>4, <1>7, <1>12, <3>2, <4>1 DEF MetAt, items, n
      <4>3. ASSUME NEW i \in s.y + 1 .. Len(items), i # s.y + 1 PROVE items[s.y + 1].name < items[i].name
        <5>1. i \in DOMAIN items /\ s.y + 1 < i BY <1>2, <4>3
        <5> QED BY <5>1, <4>1, <1>1 DEF ByName
      <4>4. ASSUME NEW i \in s.y + 1 .. Len(items) PROVE n < items[i].name
        <5>1. i \in DOMAIN items BY <1>2
        <5>2. items[i].name \in Nat /\ items[s.y + 1].name \in Nat BY <5>1, <4>1, <1>7
        <5>3. CASE i = s.y + 1 BY <5>3, <4>2
        <5>4. CASE i # s.y + 1
          <6>1. items[s.y + 1].name < items[i].name BY <5>4, <4>3
          <6> QED BY <6>1, <5>2, <4>2, <1>4
        <5> QED BY <5>3, <5>4
      <4> QED BY <4>4
    <3> QED BY <3>1, <3>2, <1>2
  <2>5. ByName(t.o.items) BY <1>1, <1>2, <1>3, <2>2, <2>3, <2>4, InsertByName
  <2>6. Range(t.o.items) = Range(items) \union {e}
    <3>1. PICK i \in 1 .. Len(items) + 1 : i = s.y + 1 BY <1>2
    <3> QED BY <3>1, <1>2, <2>2, <2>3, InsertAtRange
  <2>7. n \notin NamesOf(o.items)
    <3> SUFFICES ASSUME n \in NamesOf(o.items) PROVE FALSE OBVIOUS
    <3>1. PICK it \in Range(o.items) : it.name = n BY DEF NamesOf
    <3>2. it \in Range(items) BY <3>1, <1>1 DEF MergedTo
    <3>3. PICK i \in DOMAIN items : items[i] = it BY <3>2 DEF Range
    <3>4. i \in 1 .. s.y \/ i \in s.y + 1 .. Len(items) BY <1>2
    <3> QED BY <3>1, <3>3, <3>4, <1>3, <2>4, <1>4
  <2>8. MergedTo(o, list, dir, s.z + 1) = MergedTo(o, list, dir, s.z) \union {e}
    <3>1. {j \in 1 .. s.z + 1 : list[j] \notin NamesOf(o.items)} = {j \in 1 .. s.z : list[j] \notin NamesOf(o.items)} \union {s.z + 1}
      BY <2>7, <1>2 DEF n
    <3>2. e = [dir |-> dir, name |-> list[s.z + 1]] BY <1>6 DEF e, n
    <3> QED BY <3>1, <3>2 DEF MergedTo
  <2>9. ASSUME t.z < Len(list) PROVE \A i \in 1 .. t.y : t.o.items[i].name < list[t.z + 1]
    <3>1. PICK y1 \in 1 .. Len(items) + 1 : y1 = s.y + 1 BY <1>2
    <3>2. Inserted(t.o.items, Items, items, y1, e) BY <3>1, <1>2, <2>2, <2>3, InsertAtIs
    <3>3. n < list[t.z + 1] /\ list[t.z + 1] \in Nat BY <2>9, <2>1, <1>9
    <3>4. ASSUME NEW i \in 1 .. s.y PROVE t.o.items[i].name < list[t.z + 1]
      <4>1. i \in DOMAIN items /\ i \in 1 .. Len(items) + 1 /\ i < y1 BY <3>1, <1>2
      <4>2. t.o.items[i] = items[i] BY <3>2, <4>1 DEF Inserted
      <4>3. items[i].name \in Nat /\ items[i].name < n BY <4>1, <1>3, <1>7
      <4> QED BY <4>2, <4>3, <3>3, <1>4
    <3>5. t.o.items[s.y + 1] = e BY <3>1, <3>2, <1>2 DEF Inserted
    <3>6. ASSUME NEW i \in 1 .. t.y PROVE t.o.items[i].name < list[t.z + 1]
      <4>1. i \in 1 .. s.y \/ i = s.y + 1 BY <1>5, <1>2
      <4> QED BY <4>1, <3>3, <3>4, <3>5, <2>2
    <3> QED BY <3>6
  <2>10. Range(t.o.items) = MergedTo(o, list, dir, t.z) BY <1>1, <2>1, <2>6, <2>8
  <2> QED BY <1>5, <2>5, <2>9, <2>10 DEF Merging, t
<1> QED BY <1>10, <1>11, <1>12 DEF t

LEMMA MergeRight ==
    ASSUME NEW o \in OverlayType, ByName(o.items), NEW list \in Seq(Nat), Ascending(list), NEW dir \in Nat
    PROVE  /\ Merge(o, list, dir) \in OverlayType /\ ByName(Merge(o, list, dir).items)
           /\ Range(Merge(o, list, dir).items) = MergedTo(o, list, dir, Len(list))
<1> DEFINE I == {s \in MergeState : Merging(o, list, dir, s)}
           W == {r \in OverlayType : ByName(r.items) /\ Range(r.items) = MergedTo(o, list, dir, Len(list))}
           s0 == [o |-> o, list |-> list, dir |-> dir, y |-> 0, z |-> 0]
<1>1. s0 \in I
  <2>1. s0 \in MergeState BY DEF MergeState, OverlayType
  <2>2. MergedTo(o, list, dir, 0) = Range(o.items) BY DEF MergedTo
  <2> QED BY <2>1, <2>2 DEF Merging
<1>2. ASSUME NEW s \in I \ MergeStop PROVE MergeNext[s] \in I
  <2>1. s \in MergeState \ MergeStop /\ Merging(o, list, dir, s) /\ s.z # Len(list) BY <1>2 DEF MergeStop, Merging
  <2>2. MergeNext[s] = MergeStep(s) BY <2>1 DEF MergeNext
  <2>3. Merging(o, list, dir, MergeStep(s)) BY <2>1, MergeStepKeeps
  <2> QED BY <2>2, <2>3 DEF Merging
<1>3. ASSUME NEW s \in I \cap MergeStop PROVE MergeBase[s] \in W
  <2>1. MergeBase[s] = s.o /\ s.z = Len(list) /\ Merging(o, list, dir, s) /\ s.o \in OverlayType
    BY <1>3 DEF MergeBase, MergeStop, Merging, MergeState
  <2> QED BY <2>1 DEF Merging
<1> HIDE DEF W, I
<1>4. I \in SUBSET MergeState BY DEF I
<1>5. Along(I, W, MergeState, MergeStop, MergeBase, MergeNext) BY <1>2, <1>3, <1>4 DEF Along
<1>6. \A s \in I : MergeFrom[s] \in W BY <1>5, MergeLoop, MergeRuns, LoopKeeps
<1>7. Merge(o, list, dir) \in W BY <1>1, <1>6 DEF Merge
<1> QED BY <1>7 DEF W

(* A finite set of names can be sorted. *)
Sorts(names, list) == list \in [1 .. Cardinality(names) -> names] /\ Ascending(list)
LEMMA SortedExists == ASSUME NEW names \in NameSets PROVE \E list : Sorts(names, list)
<1> DEFINE Bad == {T \in NameSets : ~ \E list : Sorts(T, list)}
           size == [T \in NameSets |-> Cardinality(T)]
<1> SUFFICES ASSUME Bad # {} PROVE FALSE BY Zenon
<1>1. size \in [NameSets -> Nat] BY FS_CardinalityType DEF NameSets
<1>2. PICK T \in Bad : \A U \in Bad : size[T] <= size[U] BY <1>1, LeastMeasure
<1>3. T \in SUBSET Nat /\ IsFiniteSet(T) /\ T \in NameSets BY DEF NameSets
<1> DEFINE n == Cardinality(T)
<1>4. n \in Nat BY <1>3, FS_CardinalityType
<1>5. T # {}
  <2> SUFFICES ASSUME T = {} PROVE FALSE OBVIOUS
  <2>1. n = 0 BY FS_EmptySet
  <2> DEFINE e == [i \in 1 .. 0 |-> 0]
  <2>2. e \in [1 .. 0 -> T] /\ Ascending(e) BY DEF Ascending
  <2> HIDE DEF e
  <2>3. Sorts(T, e) BY <2>1, <2>2 DEF Sorts
  <2> QED BY <2>3
<1>6. PICK x \in T : \A y \in T : x <= y BY <1>3, <1>5, LeastOf
<1> DEFINE R == T \ {x}
<1>7. R \in NameSets /\ Cardinality(R) = n - 1 BY <1>3, FS_RemoveElement DEF NameSets
<1>8. n - 1 \in Nat BY <1>7, FS_CardinalityType DEF NameSets
<1>9. size[R] = n - 1 /\ size[T] = n BY <1>7, <1>3
<1>10. R \notin Bad BY <1>2, <1>9, <1>4
<1>11. PICK l : Sorts(R, l) BY <1>7, <1>10
<1>12. l \in [1 .. n - 1 -> R] /\ Ascending(l) BY <1>11, <1>7 DEF Sorts
<1> DEFINE list == [i \in 1 .. n |-> IF i = 1 THEN x ELSE l[i - 1]]
<1>13. list \in [1 .. n -> T]
  <2>1. ASSUME NEW i \in 1 .. n, i # 1 PROVE l[i - 1] \in T
    <3>1. i - 1 \in 1 .. n - 1 BY <2>1, <1>4
    <3> QED BY <3>1, <1>12
  <2> QED BY <2>1
<1>14. Ascending(list)
  <2> SUFFICES ASSUME NEW i \in 1 .. n, NEW j \in 1 .. n, i < j PROVE list[i] < list[j] BY DEF Ascending
  <2>1. j - 1 \in 1 .. n - 1 /\ list[j] = l[j - 1] BY <1>4
  <2>2. CASE i = 1
    <3>1. list[i] = x /\ l[j - 1] \in R BY <2>1, <2>2, <1>12
    <3>2. list[j] \in T /\ list[j] # x BY <2>1, <3>1
    <3> HIDE DEF list
    <3>3. list[j] \in Nat /\ x \in Nat /\ x <= list[j] BY <3>2, <1>3, <1>6
    <3> QED BY <3>1, <3>2, <3>3
  <2>3. CASE i # 1
    <3>1. i - 1 \in 1 .. n - 1 /\ list[i] = l[i - 1] /\ i - 1 < j - 1 BY <2>3, <1>4
    <3>2. DOMAIN l = 1 .. n - 1 BY <1>12
    <3> QED BY <3>1, <3>2, <2>1, <1>12 DEF Ascending
  <2> QED BY <2>2, <2>3
<1> HIDE DEF list
<1>15. Sorts(T, list) BY <1>13, <1>14 DEF Sorts
<1> QED BY <1>15

LEMMA ReadDirFdIs ==
    ASSUME NEW names \in NameSets
    PROVE  ReadDirFd(names) \in Seq(Nat) /\ Ascending(ReadDirFd(names)) /\ Range(ReadDirFd(names)) = names
<1> DEFINE l == ReadDirFd(names)
           n == Cardinality(names)
<1>1. \E list \in [1 .. n -> names] : Ascending(list) BY SortedExists DEF Sorts
<1>2. l \in [1 .. n -> names] /\ Ascending(l) BY <1>1 DEF ReadDirFd
<1>3. names \in SUBSET Nat /\ IsFiniteSet(names) /\ n \in Nat BY FS_CardinalityType DEF NameSets
<1> HIDE DEF l, n
<1>4. l \in Seq(Nat)
  <2>1. l \in [1 .. n -> Nat] BY <1>2, <1>3
  <2> QED BY <2>1, <1>3
<1>5. l \in Injection(1 .. n, names)
  <2>1. ASSUME NEW a \in 1 .. n, NEW b \in 1 .. n, l[a] = l[b] PROVE a = b
    <3>1. DOMAIN l = 1 .. n /\ l[a] \in Nat /\ l[b] \in Nat BY <1>2, <1>3
    <3>2. ~(a < b) /\ ~(b < a) BY <3>1, <2>1, <1>2 DEF Ascending
    <3> QED BY <3>2, <1>3
  <2> QED BY <2>1, <1>2 DEF Injection, IsInjective
<1>6. Cardinality(1 .. n) = n
  <2>1. 1 \in Int /\ n \in Int BY <1>3
  <2>2. Cardinality(1 .. n) = IF 1 > n THEN 0 ELSE n - 1 + 1 BY <2>1, FS_Interval
  <2> QED BY <2>2, <1>3
<1>7. l \in Surjection(1 .. n, names) BY <1>3, <1>5, <1>6, FS_Injection DEF n
<1>8. Range(l) = names BY <1>2, <1>7 DEF Surjection, Range
<1> QED BY <1>2, <1>4, <1>8 DEF l

OverlayStop == {s \in OverlayStates : s.i >= Len(s.dirs)}
OverlayBase == [s \in OverlayStop |-> s.o]
OverlayStep(s) == [s EXCEPT !.o = Merge(@, ReadDirFd(s.dirs[s.i + 1]), s.i + 1), !.i = @ + 1]
OverlayLeft == [s \in OverlayStates |-> IF s.i >= Len(s.dirs) THEN 0 ELSE Len(s.dirs) - s.i]

OverlayNext == [s \in OverlayStates \ OverlayStop |-> OverlayStep(s)]

LEMMA MergeType == ASSUME NEW o \in OverlayType, NEW list \in Seq(Nat), NEW dir \in Nat PROVE Merge(o, list, dir) \in OverlayType
<1> DEFINE s0 == [o |-> o, list |-> list, dir |-> dir, y |-> 0, z |-> 0]
<1>1. s0 \in MergeState BY DEF MergeState, OverlayType
<1>2. Along(MergeState, OverlayType, MergeState, MergeStop, MergeBase, MergeNext)
  <2>1. \A s \in MergeState \ MergeStop : MergeNext[s] \in MergeState BY MergeLoop DEF IsLoop
  <2>2. \A s \in MergeState \cap MergeStop : MergeBase[s] \in OverlayType BY DEF MergeBase, MergeState, MergeStop
  <2> QED BY <2>1, <2>2 DEF Along
<1>3. \A s \in MergeState : MergeFrom[s] \in OverlayType BY <1>2, MergeLoop, MergeRuns, LoopKeeps
<1> QED BY <1>1, <1>3 DEF Merge

LEMMA OverlayStepIs ==
    ASSUME NEW s \in OverlayStates, s.i < Len(s.dirs)
    PROVE  /\ OverlayStep(s) = [o |-> Merge(s.o, ReadDirFd(s.dirs[s.i + 1]), s.i + 1), dirs |-> s.dirs, i |-> s.i + 1]
           /\ s.dirs[s.i + 1] \in NameSets /\ OverlayStep(s) \in OverlayStates
<1>1. s = [o |-> s.o, dirs |-> s.dirs, i |-> s.i] /\ s.o \in OverlayType /\ s.dirs \in Seq(NameSets) /\ s.i \in Nat
  BY DEF OverlayStates
<1>2. s.dirs[s.i + 1] \in NameSets BY <1>1
<1>3. ReadDirFd(s.dirs[s.i + 1]) \in Seq(Nat) BY <1>2, ReadDirFdIs
<1>4. s.i + 1 \in Nat BY <1>1
<1>5. Merge(s.o, ReadDirFd(s.dirs[s.i + 1]), s.i + 1) \in OverlayType BY <1>1, <1>3, <1>4, MergeType
<1>6. OverlayStep(s) = [o |-> Merge(s.o, ReadDirFd(s.dirs[s.i + 1]), s.i + 1), dirs |-> s.dirs, i |-> s.i + 1]
  <2> DEFINE r == Merge(s.o, ReadDirFd(s.dirs[s.i + 1]), s.i + 1)
  <2>1. OverlayStep(s) = [s EXCEPT !.o = r, !.i = s.i + 1] BY DEF OverlayStep
  <2> HIDE DEF r
  <2>2. OverlayStep(s) = [o |-> r, dirs |-> s.dirs, i |-> s.i + 1] BY <1>1, <2>1
  <2> QED BY <2>2 DEF r
<1> QED BY <1>1, <1>2, <1>4, <1>5, <1>6 DEF OverlayStates

LEMMA OverlayLoop == IsLoop(OverlayStates, OverlayLeft, OverlayStop, OverlayNext)
<1>1. ASSUME NEW s \in OverlayStates PROVE s.i \in Nat /\ Len(s.dirs) \in Nat BY DEF OverlayStates
<1>2. OverlayLeft \in [OverlayStates -> Nat]
  <2>1. ASSUME NEW s \in OverlayStates PROVE (IF s.i >= Len(s.dirs) THEN 0 ELSE Len(s.dirs) - s.i) \in Nat BY <1>1
  <2> QED BY <2>1 DEF OverlayLeft
<1>3. ASSUME NEW s \in OverlayStates \ OverlayStop
      PROVE  OverlayNext[s] \in OverlayStates /\ OverlayLeft[OverlayNext[s]] < OverlayLeft[s]
  <2>1. s \in OverlayStates /\ s.i < Len(s.dirs) BY <1>1, <1>3 DEF OverlayStop
  <2> DEFINE t == OverlayStep(s)
  <2>2. OverlayNext[s] = t BY <1>3 DEF OverlayNext
  <2>3. t \in OverlayStates /\ t.dirs = s.dirs /\ t.i = s.i + 1 BY <2>1, OverlayStepIs
  <2> HIDE DEF t
  <2>4. OverlayLeft[s] = Len(s.dirs) - s.i BY <2>1, <1>1 DEF OverlayLeft
  <2>5. OverlayLeft[t] = IF s.i + 1 >= Len(s.dirs) THEN 0 ELSE Len(s.dirs) - (s.i + 1) BY <2>3 DEF OverlayLeft
  <2>6. OverlayLeft[t] < OverlayLeft[s] BY <2>1, <2>4, <2>5, <1>1
  <2> QED BY <2>2, <2>3, <2>6
<1>4. OverlayNext \in [OverlayStates \ OverlayStop -> OverlayStates] BY <1>3 DEF OverlayNext
<1> QED BY <1>2, <1>3, <1>4 DEF IsLoop, OverlayStop

LEMMA OverlayRuns == Runs(OverlayFrom, OverlayStates, OverlayStop, OverlayBase, OverlayNext)
<1> DEFINE F(g) == [s \in OverlayStates |-> IF s.i >= Len(s.dirs) THEN s.o ELSE g[OverlayStep(s)]]
<1>1. ASSUME NEW g PROVE [s \in OverlayStates |-> IF s \in OverlayStop THEN OverlayBase[s] ELSE g[OverlayNext[s]]] = F(g)
  <2>1. ASSUME NEW s \in OverlayStates
        PROVE  (IF s \in OverlayStop THEN OverlayBase[s] ELSE g[OverlayNext[s]]) = IF s.i >= Len(s.dirs) THEN s.o ELSE g[OverlayStep(s)]
    <3>1. s \in OverlayStop <=> s.i >= Len(s.dirs) BY DEF OverlayStop
    <3>2. s \in OverlayStop => OverlayBase[s] = s.o BY DEF OverlayBase
    <3>3. s \notin OverlayStop => OverlayNext[s] = OverlayStep(s) BY DEF OverlayNext
    <3> QED BY <3>1, <3>2, <3>3
  <2> QED BY <2>1
<1> HIDE DEF F
<1>2. \A g : Runs(g, OverlayStates, OverlayStop, OverlayBase, OverlayNext) <=> g = F(g) BY <1>1 DEF Runs
<1>3. \E g : g = F(g) BY <1>2, OverlayLoop, LoopExists
<1>4. OverlayFrom = CHOOSE g : g = F(g) BY DEF OverlayFrom, F, OverlayStep, OverlayStates
<1>5. OverlayFrom = F(OverlayFrom) BY <1>3, <1>4
<1> QED BY <1>2, <1>5

(* Each name once, with the first of the k directories that has it          *)
Firsts(dirs, k) == {it \in Items : /\ it.dir \in 1 .. k /\ it.name \in dirs[it.dir]
                                   /\ \A e \in 1 .. it.dir - 1 : it.name \notin dirs[e]}
LEMMA FirstsNames ==
    ASSUME NEW dirs \in Seq(NameSets), NEW k \in 0 .. Len(dirs), NEW n
    PROVE  (\E it \in Firsts(dirs, k) : it.name = n) <=> \E d \in 1 .. k : n \in dirs[d]
<1>1. ASSUME NEW it \in Firsts(dirs, k), it.name = n PROVE \E d \in 1 .. k : n \in dirs[d]
  BY <1>1 DEF Firsts
<1>2. ASSUME NEW d \in 1 .. k, n \in dirs[d] PROVE \E it \in Firsts(dirs, k) : it.name = n
  <2> DEFINE D == {e \in 1 .. k : n \in dirs[e]}
  <2>1. D \in SUBSET Nat /\ D # {} BY <1>2
  <2>2. PICK e \in D : \A f \in D : e <= f BY <2>1, LeastOf
  <2>3. e \in 1 .. k /\ n \in dirs[e] /\ e \in Nat BY <2>2
  <2>4. dirs[e] \in NameSets BY <2>3
  <2>5. n \in Nat BY <2>3, <2>4 DEF NameSets
  <2>6. \A f \in 1 .. e - 1 : n \notin dirs[f]
    <3> SUFFICES ASSUME NEW f \in 1 .. e - 1, n \in dirs[f] PROVE FALSE OBVIOUS
    <3>1. f \in D BY <2>3
    <3> QED BY <3>1, <2>2, <2>3
  <2>7. [dir |-> e, name |-> n] \in Firsts(dirs, k) BY <2>3, <2>5, <2>6 DEF Firsts, Items
  <2> QED BY <2>7
<1> QED BY <1>1, <1>2

Overlaying(dirs, s) ==
  /\ s \in OverlayStates /\ s.dirs = dirs /\ s.i <= Len(dirs)
  /\ ByName(s.o.items) /\ Range(s.o.items) = Firsts(dirs, s.i)
LEMMA OverlayStepKeeps ==
    ASSUME NEW dirs \in Seq(NameSets), NEW s, Overlaying(dirs, s), s.i < Len(dirs)
    PROVE  Overlaying(dirs, OverlayStep(s))
<1> DEFINE t == OverlayStep(s)
           k == s.i + 1
           list == ReadDirFd(dirs[k])
           o == s.o
<1>1. /\ s \in OverlayStates /\ s.dirs = dirs /\ s.i <= Len(dirs) /\ ByName(o.items) /\ Range(o.items) = Firsts(dirs, s.i)
  BY DEF Overlaying
<1>2. o \in OverlayType /\ s.i \in Nat /\ k \in Nat /\ k \in 1 .. Len(dirs) /\ s.i \in 0 .. Len(dirs) BY <1>1 DEF OverlayStates
<1>3. t \in OverlayStates /\ t.dirs = dirs /\ t.i = k /\ t.o = Merge(o, list, k) /\ dirs[k] \in NameSets BY <1>1, OverlayStepIs
<1>4. list \in Seq(Nat) /\ Ascending(list) /\ Range(list) = dirs[k] BY <1>3, ReadDirFdIs
<1> HIDE DEF t, k, list, o
<1>5. /\ ByName(t.o.items) /\ Range(t.o.items) = MergedTo(o, list, k, Len(list))
  BY <1>1, <1>2, <1>3, <1>4, MergeRight
<1>6. ASSUME NEW n PROVE n \in NamesOf(o.items) <=> \E d \in 1 .. s.i : n \in dirs[d]
  <2>1. n \in NamesOf(o.items) <=> \E it \in Firsts(dirs, s.i) : it.name = n BY <1>1 DEF NamesOf
  <2>2. (\E it \in Firsts(dirs, s.i) : it.name = n) <=> \E d \in 1 .. s.i : n \in dirs[d] BY <1>2, FirstsNames
  <2> QED BY <2>1, <2>2
<1>7. ASSUME NEW it PROVE it \in MergedTo(o, list, k, Len(list)) <=> it \in Firsts(dirs, k)
  <2>1. it \in MergedTo(o, list, k, Len(list)) <=>
          \/ it \in Firsts(dirs, s.i)
          \/ \E n \in dirs[k] : it = [dir |-> k, name |-> n] /\ n \notin NamesOf(o.items)
    <3>1. DOMAIN list = 1 .. Len(list) BY <1>4
    <3>2. \A n : n \in dirs[k] <=> \E j \in 1 .. Len(list) : list[j] = n BY <1>4, <3>1 DEF Range
    <3> QED BY <3>2, <1>1 DEF MergedTo
  <2>2. \A n \in dirs[k] : n \in Nat BY <1>3 DEF NameSets
  <2>3. ASSUME NEW n \in dirs[k], it = [dir |-> k, name |-> n], n \notin NamesOf(o.items) PROVE it \in Firsts(dirs, k)
    <3>1. 1 .. k - 1 = 1 .. s.i BY <1>2 DEF k
    <3>2. \A e \in 1 .. k - 1 : n \notin dirs[e] BY <2>3, <1>6, <3>1
    <3>3. k \in 1 .. k BY <1>2
    <3> QED BY <3>2, <3>3, <2>2, <2>3, <1>2 DEF Firsts, Items
  <2>4. ASSUME it \in Firsts(dirs, s.i) PROVE it \in Firsts(dirs, k)
    <3>1. 1 .. s.i \subseteq 1 .. k BY <1>2 DEF k
    <3> QED BY <2>4, <3>1 DEF Firsts
  <2>5. ASSUME it \in Firsts(dirs, k), it \notin Firsts(dirs, s.i)
        PROVE  \E n \in dirs[k] : it = [dir |-> k, name |-> n] /\ n \notin NamesOf(o.items)
    <3>1. it \in Items /\ it.dir \in 1 .. k /\ it.name \in dirs[it.dir] /\ \A e \in 1 .. it.dir - 1 : it.name \notin dirs[e]
      BY <2>5 DEF Firsts
    <3>2. it.dir \notin 1 .. s.i BY <2>5, <3>1 DEF Firsts
    <3>3. it.dir = k /\ k - 1 = s.i BY <3>1, <3>2, <1>2 DEF k
    <3>4. it = [dir |-> k, name |-> it.name] /\ it.name \in dirs[k] BY <3>1, <3>3 DEF Items
    <3>5. it.name \notin NamesOf(o.items) BY <3>1, <3>3, <1>6
    <3> QED BY <3>4, <3>5
  <2> QED BY <2>1, <2>3, <2>4, <2>5
<1>8. Range(t.o.items) = Firsts(dirs, k) BY <1>5, <1>7
<1>10. k <= Len(dirs) BY <1>2
<1> QED BY <1>3, <1>5, <1>8, <1>10 DEF Overlaying, t

(* The overlay holds each name once, from the first directory that has it.  *)
LEMMA OverlayOfIs ==
    ASSUME NEW dirs \in Seq(NameSets)
    PROVE  /\ OverlayOf(dirs) \in OverlayType /\ ByName(OverlayOf(dirs).items)
           /\ Range(OverlayOf(dirs).items) = Firsts(dirs, Len(dirs))
<1> DEFINE I == {s \in OverlayStates : Overlaying(dirs, s)}
           W == {r \in OverlayType : ByName(r.items) /\ Range(r.items) = Firsts(dirs, Len(dirs))}
           s0 == [o |-> EmptyOverlay, dirs |-> dirs, i |-> 0]
<1>1. s0 \in I
  <2>1. EmptyOverlay \in OverlayType /\ EmptyOverlay.items = <<>> BY DEF EmptyOverlay, OverlayType
  <2>2. s0 \in OverlayStates BY <2>1 DEF OverlayStates
  <2>3. ByName(<<>>) /\ Range(<<>>) = {} BY DEF ByName, Range
  <2>4. Firsts(dirs, 0) = {} BY DEF Firsts
  <2>5. s0.o = EmptyOverlay /\ s0.dirs = dirs /\ s0.i = 0 /\ 0 <= Len(dirs) OBVIOUS
  <2> HIDE DEF s0
  <2>6. Overlaying(dirs, s0) BY <2>1, <2>2, <2>3, <2>4, <2>5 DEF Overlaying
  <2> QED BY <2>2, <2>6
<1>2. ASSUME NEW s \in I \ OverlayStop PROVE OverlayNext[s] \in I
  <2>1. s \in OverlayStates \ OverlayStop /\ Overlaying(dirs, s) /\ s.i < Len(dirs) BY <1>2 DEF OverlayStop, Overlaying, OverlayStates
  <2>2. OverlayNext[s] = OverlayStep(s) BY <2>1 DEF OverlayNext
  <2>3. Overlaying(dirs, OverlayStep(s)) BY <2>1, OverlayStepKeeps
  <2> QED BY <2>2, <2>3 DEF Overlaying
<1>3. ASSUME NEW s \in I \cap OverlayStop PROVE OverlayBase[s] \in W
  <2>1. OverlayBase[s] = s.o /\ s.i = Len(dirs) /\ Overlaying(dirs, s) /\ s.o \in OverlayType
    BY <1>3 DEF OverlayBase, OverlayStop, Overlaying, OverlayStates
  <2> QED BY <2>1 DEF Overlaying
<1> HIDE DEF W, I
<1>4. I \in SUBSET OverlayStates BY DEF I
<1>5. Along(I, W, OverlayStates, OverlayStop, OverlayBase, OverlayNext) BY <1>2, <1>3, <1>4 DEF Along
<1>6. \A s \in I : OverlayFrom[s] \in W BY <1>5, OverlayLoop, OverlayRuns, LoopKeeps
<1>7. OverlayOf(dirs) \in W BY <1>1, <1>6 DEF OverlayOf
<1> QED BY <1>7 DEF W
-----------------------------------------------------------------------------
(***************************************************************************)
(* Loads through apparmorfs (kernel_interface.c).                          *)
(***************************************************************************)
ReadStop == {s \in ReadState : Rsize(s) <= 0}
ReadBase == [s \in ReadStop |-> s.size]
ReadStep(s) == [s EXCEPT !.size = @ + Rsize(s), !.asize = Asize(s), !.chunk = IF s.asize = s.size THEN 2 * @ ELSE @]
ReadNext == [s \in ReadState \ ReadStop |-> ReadStep(s)]
ReadLeft == [s \in ReadState |-> IF s.size <= s.len THEN s.len - s.size ELSE 0]

LEMMA ReadStepIs ==
    ASSUME NEW s \in ReadState
    PROVE  /\ Asize(s) \in Nat /\ Rsize(s) \in Int /\ Rsize(s) \in {s.len - s.size, Asize(s) - s.size}
           /\ Rsize(s) <= s.len - s.size /\ Rsize(s) <= Asize(s) - s.size
           /\ Rsize(s) > 0 => /\ ReadStep(s) = [len |-> s.len, size |-> s.size + Rsize(s), asize |-> Asize(s),
                                                chunk |-> IF s.asize = s.size THEN 2 * s.chunk ELSE s.chunk]
                              /\ ReadStep(s) \in ReadState
<1>1. /\ s = [len |-> s.len, size |-> s.size, asize |-> s.asize, chunk |-> s.chunk]
      /\ s.len \in Nat /\ s.size \in Nat /\ s.asize \in Nat /\ s.chunk \in Nat
  BY DEF ReadState
<1>2. Asize(s) \in Nat BY <1>1 DEF Asize
<1>3. s.len - s.size \in Int /\ Asize(s) - s.size \in Int BY <1>1, <1>2
<1>4. /\ Rsize(s) \in {s.len - s.size, Asize(s) - s.size} /\ Rsize(s) <= s.len - s.size /\ Rsize(s) <= Asize(s) - s.size
  BY <1>3, MinTwo DEF Rsize
<1>5. Rsize(s) \in Int BY <1>3, <1>4
<1>6. ReadStep(s) = [len |-> s.len, size |-> s.size + Rsize(s), asize |-> Asize(s),
                     chunk |-> IF s.asize = s.size THEN 2 * s.chunk ELSE s.chunk]
  <2>1. PICK r, a : r = Rsize(s) /\ a = Asize(s) OBVIOUS
  <2>2. ReadStep(s) = [s EXCEPT !.size = s.size + r, !.asize = a, !.chunk = IF s.asize = s.size THEN 2 * s.chunk ELSE s.chunk]
    BY <2>1 DEF ReadStep
  <2> QED BY <1>1, <2>1, <2>2
<1>7. Rsize(s) > 0 => s.size + Rsize(s) \in Nat BY <1>1, <1>5
<1>8. (IF s.asize = s.size THEN 2 * s.chunk ELSE s.chunk) \in Nat BY <1>1
<1>9. Rsize(s) > 0 => ReadStep(s) \in ReadState BY <1>1, <1>2, <1>6, <1>7, <1>8 DEF ReadState
<1> QED BY <1>2, <1>4, <1>5, <1>6, <1>9

LEMMA ReadLoop == IsLoop(ReadState, ReadLeft, ReadStop, ReadNext)
<1>1. ASSUME NEW s \in ReadState PROVE s.len \in Nat /\ s.size \in Nat BY DEF ReadState
<1>2. ReadLeft \in [ReadState -> Nat]
  <2>1. ASSUME NEW s \in ReadState PROVE (IF s.size <= s.len THEN s.len - s.size ELSE 0) \in Nat BY <1>1
  <2> QED BY <2>1 DEF ReadLeft
<1>3. ASSUME NEW s \in ReadState \ ReadStop PROVE ReadNext[s] \in ReadState /\ ReadLeft[ReadNext[s]] < ReadLeft[s]
  <2>1. s \in ReadState /\ Rsize(s) > 0 /\ Rsize(s) \in Int BY <1>3, ReadStepIs DEF ReadStop
  <2> DEFINE t == ReadStep(s)
             r == Rsize(s)
  <2>2. ReadNext[s] = t BY <1>3 DEF ReadNext
  <2>3. t \in ReadState /\ t.len = s.len /\ t.size = s.size + r /\ r <= s.len - s.size BY <2>1, ReadStepIs
  <2> HIDE DEF t, r
  <2>4. ReadLeft[s] = IF s.size <= s.len THEN s.len - s.size ELSE 0 BY <2>1 DEF ReadLeft
  <2>5. ReadLeft[t] = IF s.size + r <= s.len THEN s.len - (s.size + r) ELSE 0 BY <2>3 DEF ReadLeft
  <2>6. r \in Int /\ r > 0 BY <2>1 DEF r
  <2>7. ReadLeft[t] < ReadLeft[s] BY <2>1, <2>3, <2>4, <2>5, <2>6, <1>1
  <2> QED BY <2>2, <2>3, <2>7
<1>4. ReadNext \in [ReadState \ ReadStop -> ReadState] BY <1>3 DEF ReadNext
<1> QED BY <1>2, <1>3, <1>4 DEF IsLoop, ReadStop

LEMMA ReadRuns == Runs(ReadFrom, ReadState, ReadStop, ReadBase, ReadNext)
<1> DEFINE F(g) == [s \in ReadState |-> IF Rsize(s) <= 0 THEN s.size ELSE g[ReadStep(s)]]
<1>1. ASSUME NEW g PROVE [s \in ReadState |-> IF s \in ReadStop THEN ReadBase[s] ELSE g[ReadNext[s]]] = F(g)
  <2>1. ASSUME NEW s \in ReadState
        PROVE  (IF s \in ReadStop THEN ReadBase[s] ELSE g[ReadNext[s]]) = IF Rsize(s) <= 0 THEN s.size ELSE g[ReadStep(s)]
    <3>1. s \in ReadStop <=> Rsize(s) <= 0 BY DEF ReadStop
    <3>2. s \in ReadStop => ReadBase[s] = s.size BY DEF ReadBase
    <3>3. s \notin ReadStop => ReadNext[s] = ReadStep(s) BY DEF ReadNext
    <3> QED BY <3>1, <3>2, <3>3
  <2> QED BY <2>1
<1> HIDE DEF F
<1>2. \A g : Runs(g, ReadState, ReadStop, ReadBase, ReadNext) <=> g = F(g) BY <1>1 DEF Runs
<1>3. \E g : g = F(g) BY <1>2, ReadLoop, LoopExists
<1>4. ReadFrom = CHOOSE g : g = F(g) BY DEF ReadFrom, F, ReadStep
<1>5. ReadFrom = F(ReadFrom) BY <1>3, <1>4
<1> QED BY <1>2, <1>5

(* A file is read to its end, whatever its size is. *)
LEMMA ReadAllIs == ASSUME NEW len \in Nat PROVE ReadAll(len) = len
<1> DEFINE I == {s \in ReadState : s.len = len /\ s.size <= len /\ s.size <= s.asize /\ s.asize < s.chunk}
           s0 == [len |-> len, size |-> 0, asize |-> 0, chunk |-> FirstChunk]
<1>1. s0 \in I BY DEF ReadState, FirstChunk
<1>2. ASSUME NEW s \in I PROVE /\ s \in ReadState /\ s.len \in Nat /\ s.size \in Nat /\ s.asize \in Nat /\ s.chunk \in Nat
                              /\ s.len = len /\ s.size <= len /\ s.size <= s.asize /\ s.asize < s.chunk /\ s.size < Asize(s)
  BY DEF ReadState, Asize
<1>3. ASSUME NEW s \in I \ ReadStop PROVE ReadNext[s] \in I
  <2>1. s \in ReadState /\ Rsize(s) > 0 /\ Rsize(s) \in Int BY <1>2, <1>3, ReadStepIs DEF ReadStop
  <2>2. ReadNext[s] = ReadStep(s) BY <2>1, <1>3 DEF ReadNext
  <2> DEFINE t == ReadStep(s)
             r == Rsize(s)
             a == Asize(s)
  <2>3. /\ t \in ReadState /\ t.len = s.len /\ t.size = s.size + r /\ t.asize = a /\ r <= s.len - s.size /\ r <= a - s.size
        /\ t.chunk = IF s.asize = s.size THEN 2 * s.chunk ELSE s.chunk BY <2>1, ReadStepIs
  <2>4. a \in Nat /\ a = IF s.asize = s.size THEN s.chunk ELSE s.asize BY <2>1, ReadStepIs DEF Asize
  <2>5. r \in Int /\ r > 0 BY <2>1
  <2> HIDE DEF t, r, a, I
  <2>6. /\ s.len \in Nat /\ s.size \in Nat /\ s.asize \in Nat /\ s.chunk \in Nat
        /\ s.len = len /\ s.size <= len /\ s.size <= s.asize /\ s.asize < s.chunk BY <1>2, <1>3
  <2>7. t.len = len /\ t.size <= len /\ t.size <= t.asize /\ t.asize < t.chunk BY <2>3, <2>4, <2>5, <2>6
  <2> QED BY <2>2, <2>3, <2>7 DEF I, t
<1>4. ASSUME NEW s \in I \cap ReadStop PROVE ReadBase[s] \in {len}
  <2>1. ReadBase[s] = s.size /\ Rsize(s) <= 0 BY <1>4 DEF ReadBase, ReadStop
  <2>2. s \in ReadState /\ Rsize(s) \in {s.len - s.size, Asize(s) - s.size} /\ Asize(s) \in Nat BY <1>2, <1>4, ReadStepIs
  <2> HIDE DEF I
  <2>3. s.len \in Nat /\ s.size \in Nat /\ s.len = len /\ s.size <= len /\ s.size < Asize(s) BY <1>2, <1>4
  <2>4. s.size = len BY <2>1, <2>2, <2>3
  <2> QED BY <2>1, <2>4
<1> HIDE DEF I
<1>5. I \in SUBSET ReadState BY DEF I
<1>6. Along(I, {len}, ReadState, ReadStop, ReadBase, ReadNext) BY <1>3, <1>4, <1>5 DEF Along
<1>7. \A s \in I : ReadFrom[s] \in {len} BY <1>6, ReadLoop, ReadRuns, LoopKeeps
<1> QED BY <1>1, <1>7 DEF ReadAll

LEMMA MinOf == ASSUME NEW T \in SUBSET Nat, T # {} PROVE Min(T) \in T /\ \A k \in T : Min(T) <= k
<1>1. \E n \in T : \A k \in T : n <= k BY LeastOf
<1> QED BY <1>1 DEF Min

(* The next header and what lies before it *)
NextIs(buf, from, last, r) ==
  /\ r \in Nat
  /\ r # 0 => r \in from .. Len(buf) /\ buf[r] # 0 /\ \A i \in from .. r - 1 : buf[i] = 0
  /\ r = 0 => \A i \in from .. Len(buf) : i <= last => buf[i] = 0
LEMMA NextProfileBufferIs ==
    ASSUME NEW buf \in Seq(Nat), NEW from \in Nat \ {0}, NEW size \in Int
    PROVE  NextIs(buf, from, from + size - HeaderSize - 1, NextProfileBuffer(buf, from, size))
<1> DEFINE last == from + size - HeaderSize - 1
           m == Min({last, Len(buf)})
           hits == {i \in from .. m : buf[i] # 0}
           r == NextProfileBuffer(buf, from, size)
<1>1. last \in Int /\ Len(buf) \in Int /\ Len(buf) \in Nat BY DEF HeaderSize
<1>2. r = IF hits = {} THEN 0 ELSE Min(hits) BY DEF NextProfileBuffer
<1> HIDE DEF last
<1>3. m \in {last, Len(buf)} /\ m <= last /\ m <= Len(buf) /\ m \in Int BY <1>1, MinTwo
<1> HIDE DEF m, r
<1>4. hits \in SUBSET Nat BY <1>3
<1>5. CASE hits = {}
  <2>1. r = 0 BY <1>2, <1>5
  <2>2. ASSUME NEW i \in from .. Len(buf), i <= last PROVE buf[i] = 0
    <3>1. i \in from .. m BY <1>1, <1>3, <2>2
    <3> QED BY <3>1, <1>5
  <2> QED BY <2>1, <2>2 DEF NextIs, r, last
<1>6. CASE hits # {}
  <2>1. r \in hits /\ \A k \in hits : r <= k BY <1>2, <1>4, <1>6, MinOf
  <2>2. r \in from .. m /\ buf[r] # 0 /\ r \in Nat /\ r # 0 BY <2>1, <1>4
  <2>3. r \in from .. Len(buf) BY <2>2, <1>3, <1>1
  <2>4. ASSUME NEW i \in from .. r - 1 PROVE buf[i] = 0
    <3>1. i \in from .. m /\ i < r BY <2>2, <1>3
    <3>2. i \notin hits BY <3>1, <2>1, <2>2
    <3> QED BY <3>1, <3>2
  <2> HIDE DEF hits
  <2> QED BY <2>2, <2>3, <2>4 DEF NextIs, r
<1> QED BY <1>5, <1>6

PieceStop == {s \in PieceState : NextPiece(s) = 0}
PieceBase == [s \in PieceStop |-> Written(s, s.size)]
PieceStep(s) == [s EXCEPT !.b = NextPiece(s), !.size = @ - (NextPiece(s) - s.b), !.out = Written(s, NextPiece(s) - s.b)]
PieceNext == [s \in PieceState \ PieceStop |-> PieceStep(s)]
PieceLeft == [s \in PieceState |-> IF s.b <= Len(s.buf) THEN Len(s.buf) - s.b ELSE 0]

LEMMA SubSeqIn == ASSUME NEW S, NEW t \in Seq(S), NEW a \in 1 .. Len(t), NEW b \in 0 .. Len(t) PROVE SubSeq(t, a, b) \in Seq(S)
OBVIOUS

LEMMA PieceStepIs ==
    ASSUME NEW s \in PieceState
    PROVE  /\ NextIs(s.buf, s.b + 2, s.b + s.size - 1, NextPiece(s))
           /\ NextPiece(s) # 0 => /\ PieceStep(s) = [buf |-> s.buf, b |-> NextPiece(s), size |-> s.size - (NextPiece(s) - s.b),
                                                     out |-> Append(s.out, SubSeq(s.buf, s.b, NextPiece(s) - 1))]
                                  /\ PieceStep(s) \in PieceState
<1>1. /\ s = [buf |-> s.buf, b |-> s.b, size |-> s.size, out |-> s.out]
      /\ s.buf \in Seq(Nat) /\ s.b \in Nat \ {0} /\ s.size \in Int /\ s.out \in Seq(Seq(Nat))
  BY DEF PieceState
<1> DEFINE from == s.b + HeaderSize
           last == from + s.size - HeaderSize - 1
           n == NextPiece(s)
<1>2. from \in Nat \ {0} /\ from = s.b + 2 BY <1>1 DEF HeaderSize
<1>3. last = s.b + s.size - 1 BY <1>1 DEF HeaderSize
<1>4. NextIs(s.buf, from, last, n)
  <2> HIDE DEF from
  <2> QED BY <1>1, <1>2, NextProfileBufferIs DEF NextPiece, from
<1>5. NextIs(s.buf, s.b + 2, s.b + s.size - 1, n)
  <2> HIDE DEF from, last, n
  <2> QED BY <1>2, <1>3, <1>4
<1> HIDE DEF from, last, n
<1>6. ASSUME n # 0 PROVE /\ PieceStep(s) = [buf |-> s.buf, b |-> n, size |-> s.size - (n - s.b), out |-> Append(s.out, SubSeq(s.buf, s.b, n - 1))]
                         /\ PieceStep(s) \in PieceState
  <2>1. n \in Nat /\ n \in s.b + 2 .. Len(s.buf) BY <1>5, <1>6 DEF NextIs
  <2>2. s.b + (n - s.b) - 1 = n - 1 BY <1>1, <2>1
  <2>3. Written(s, n - s.b) = Append(s.out, SubSeq(s.buf, s.b, n - 1)) BY <2>2 DEF Written
  <2>4. SubSeq(s.buf, s.b, n - 1) \in Seq(Nat)
    <3>1. s.b \in Nat \ {0} /\ Len(s.buf) \in Nat BY <1>1
    <3>2. s.b \in 1 .. Len(s.buf) /\ n - 1 \in 0 .. Len(s.buf) BY <2>1, <3>1
    <3> QED BY <1>1, <3>2, SubSeqIn
  <2> DEFINE out == Append(s.out, SubSeq(s.buf, s.b, n - 1))
  <2>5. out \in Seq(Seq(Nat)) BY <1>1, <2>4
  <2>6. PieceStep(s) = [s EXCEPT !.b = n, !.size = s.size - (n - s.b), !.out = out] BY <2>3 DEF PieceStep, n
  <2> HIDE DEF out
  <2>7. PieceStep(s) = [buf |-> s.buf, b |-> n, size |-> s.size - (n - s.b), out |-> out] BY <1>1, <2>6
  <2>8. PieceStep(s) \in PieceState BY <1>1, <2>1, <2>5, <2>7, <1>6 DEF PieceState
  <2> QED BY <2>7, <2>8 DEF out
<1> QED BY <1>5, <1>6 DEF n

LEMMA PieceLoop == IsLoop(PieceState, PieceLeft, PieceStop, PieceNext)
<1>1. ASSUME NEW s \in PieceState PROVE s.b \in Nat /\ Len(s.buf) \in Nat BY DEF PieceState
<1>2. PieceLeft \in [PieceState -> Nat]
  <2>1. ASSUME NEW s \in PieceState PROVE (IF s.b <= Len(s.buf) THEN Len(s.buf) - s.b ELSE 0) \in Nat BY <1>1
  <2> QED BY <2>1 DEF PieceLeft
<1>3. ASSUME NEW s \in PieceState \ PieceStop PROVE PieceNext[s] \in PieceState /\ PieceLeft[PieceNext[s]] < PieceLeft[s]
  <2>1. s \in PieceState /\ NextPiece(s) # 0 BY <1>3 DEF PieceStop
  <2> DEFINE t == PieceStep(s)
             n == NextPiece(s)
  <2>2. PieceNext[s] = t BY <1>3 DEF PieceNext
  <2>3. t \in PieceState /\ t.buf = s.buf /\ t.b = n BY <2>1, PieceStepIs
  <2>4. n \in s.b + 2 .. Len(s.buf) BY <2>1, PieceStepIs DEF NextIs
  <2> HIDE DEF t, n
  <2>5. PieceLeft[s] = IF s.b <= Len(s.buf) THEN Len(s.buf) - s.b ELSE 0 BY <2>1 DEF PieceLeft
  <2>6. PieceLeft[t] = IF n <= Len(s.buf) THEN Len(s.buf) - n ELSE 0 BY <2>3 DEF PieceLeft
  <2>7. PieceLeft[t] < PieceLeft[s] BY <2>1, <2>4, <2>5, <2>6, <1>1
  <2> QED BY <2>2, <2>3, <2>7
<1>4. PieceNext \in [PieceState \ PieceStop -> PieceState] BY <1>3 DEF PieceNext
<1> QED BY <1>2, <1>3, <1>4 DEF IsLoop, PieceStop

LEMMA PieceRuns == Runs(PiecesFrom, PieceState, PieceStop, PieceBase, PieceNext)
<1> DEFINE F(g) == [s \in PieceState |-> IF NextPiece(s) = 0 THEN Written(s, s.size) ELSE g[PieceStep(s)]]
<1>1. ASSUME NEW g PROVE [s \in PieceState |-> IF s \in PieceStop THEN PieceBase[s] ELSE g[PieceNext[s]]] = F(g)
  <2>1. ASSUME NEW s \in PieceState
        PROVE  (IF s \in PieceStop THEN PieceBase[s] ELSE g[PieceNext[s]]) = IF NextPiece(s) = 0 THEN Written(s, s.size) ELSE g[PieceStep(s)]
    <3>1. s \in PieceStop <=> NextPiece(s) = 0 BY DEF PieceStop
    <3>2. s \in PieceStop => PieceBase[s] = Written(s, s.size) BY DEF PieceBase
    <3>3. s \notin PieceStop => PieceNext[s] = PieceStep(s) BY DEF PieceNext
    <3> QED BY <3>1, <3>2, <3>3
  <2> QED BY <2>1
<1> HIDE DEF F
<1>2. \A g : Runs(g, PieceState, PieceStop, PieceBase, PieceNext) <=> g = F(g) BY <1>1 DEF Runs
<1>3. \E g : g = F(g) BY <1>2, PieceLoop, LoopExists
<1>4. PiecesFrom = CHOOSE g : g = F(g) BY DEF PiecesFrom, F, PieceStep
<1>5. PiecesFrom = F(PiecesFrom) BY <1>3, <1>4
<1> QED BY <1>2, <1>5

(* What the kernel takes from the pieces, and the headers before a place    *)
LoadedBy(ps) == UNION {FirstProfile(ps[i]) : i \in 1 .. Len(ps)}
HeadersBefore(buf, b) == {buf[i] : i \in {j \in 1 .. b - 1 : buf[j] # 0}}
LEMMA LoadedByAppend ==
    ASSUME NEW out \in Seq(Seq(Nat)), NEW piece \in Seq(Nat)
    PROVE  LoadedBy(Append(out, piece)) = LoadedBy(out) \union FirstProfile(piece) /\ Append(out, piece) \in Seq(Seq(Nat))
<1> DEFINE r == Append(out, piece)
           n == Len(out)
<1>1. /\ r \in Seq(Seq(Nat)) /\ n \in Nat /\ Len(r) = n + 1 /\ (\A i \in 1 .. n : r[i] = out[i]) /\ r[n + 1] = piece
  OBVIOUS
<1> HIDE DEF r, n
<1>2. 1 .. Len(r) = 1 .. n \union {n + 1} BY <1>1
<1>3. {FirstProfile(r[i]) : i \in 1 .. Len(r)} = {FirstProfile(out[i]) : i \in 1 .. n} \union {FirstProfile(piece)}
  BY <1>1, <1>2
<1>4. LoadedBy(r) = UNION ({FirstProfile(out[i]) : i \in 1 .. n} \union {FirstProfile(piece)}) BY <1>3 DEF LoadedBy
<1> QED BY <1>1, <1>4 DEF LoadedBy, r, n

(* The piece from a header up to behind e holds this header and no other.   *)
LEMMA PieceTakes ==
    ASSUME NEW pol, IsPolicy(pol), NEW b \in 1 .. Len(pol.bytes), pol.bytes[b] # 0, NEW e \in b .. Len(pol.bytes),
           \A i \in b + 2 .. e : pol.bytes[i] = 0
    PROVE  /\ SubSeq(pol.bytes, b, e) \in Seq(Nat)
           /\ HeadersBefore(pol.bytes, e + 1) = HeadersBefore(pol.bytes, b) \union FirstProfile(SubSeq(pol.bytes, b, e))
<1> DEFINE buf == pol.bytes
           piece == SubSeq(buf, b, e)
<1>1. buf \in Seq(Nat) /\ \A i, j \in DOMAIN buf : i < j /\ buf[i] # 0 /\ buf[j] # 0 => j - i >= 2 BY DEF IsPolicy, HeaderSize
<1> HIDE DEF buf
<1>2. b \in 1 .. Len(buf) /\ buf[b] # 0 /\ e \in b .. Len(buf) /\ Len(buf) \in Nat /\ DOMAIN buf = 1 .. Len(buf)
      /\ \A i \in b + 2 .. e : buf[i] = 0 BY <1>1 DEF buf
<1>3. piece \in Seq(Nat) /\ Len(piece) = e - b + 1 /\ piece[1] = buf[b] BY <1>1, <1>2
<1>4. piece # <<>> BY <1>2, <1>3
<1> HIDE DEF piece
<1>5. FirstProfile(piece) = {buf[b]} BY <1>2, <1>3, <1>4 DEF FirstProfile
<1>6. ASSUME NEW i \in b + 1 .. e PROVE buf[i] = 0
  <2>1. CASE i = b + 1
    <3>1. b \in DOMAIN buf /\ i \in DOMAIN buf /\ b < i /\ i - b < 2 BY <1>2, <2>1
    <3> QED BY <3>1, <1>1, <1>2
  <2>2. CASE i # b + 1 BY <2>2, <1>2
  <2> QED BY <2>1, <2>2
<1>7. {j \in 1 .. (e + 1) - 1 : buf[j] # 0} = {j \in 1 .. b - 1 : buf[j] # 0} \union {b}
  <2>1. ASSUME NEW j \in 1 .. (e + 1) - 1, buf[j] # 0 PROVE j \in 1 .. b - 1 \/ j = b BY <2>1, <1>2, <1>6
  <2>2. \A j \in 1 .. b - 1 : j \in 1 .. (e + 1) - 1 BY <1>2
  <2>3. b \in 1 .. (e + 1) - 1 BY <1>2
  <2> QED BY <2>1, <2>2, <2>3, <1>2
<1>8. HeadersBefore(buf, e + 1) = HeadersBefore(buf, b) \union {buf[b]} BY <1>7 DEF HeadersBefore
<1> QED BY <1>3, <1>5, <1>8 DEF buf, piece

(* Where the loop over the pieces is                                        *)
Writing(buf, s) ==
  /\ s \in PieceState /\ s.buf = buf /\ s.b \in 1 .. Len(buf) /\ buf[s.b] # 0 /\ s.size = Len(buf) - s.b + 1
  /\ LoadedBy(s.out) = HeadersBefore(buf, s.b)

LEMMA PiecesRight ==
    ASSUME NEW pol, IsPolicy(pol)
    PROVE  Pieces(pol.bytes) \in Seq(Seq(Nat)) /\ LoadedBy(Pieces(pol.bytes)) = ProfilesIn(pol.bytes)
<1> DEFINE buf == pol.bytes
           I == {s \in PieceState : Writing(buf, s)}
           W == {ps \in Seq(Seq(Nat)) : LoadedBy(ps) = ProfilesIn(buf)}
           s0 == [buf |-> buf, b |-> 1, size |-> Len(buf), out |-> <<>>]
<1>1. buf \in Seq(Nat) /\ Len(buf) \in Nat /\ DOMAIN buf = 1 .. Len(buf) BY DEF IsPolicy
<1>2. s0 \in PieceState BY <1>1 DEF PieceState
<1>3. ProfilesIn(buf) = HeadersBefore(buf, Len(buf) + 1)
  <2>1. 1 .. (Len(buf) + 1) - 1 = DOMAIN buf BY <1>1
  <2> QED BY <2>1 DEF ProfilesIn, HeadersBefore
<1>4. LoadedBy(<<>>) = {} BY DEF LoadedBy
<1>5. s0 \in I
  <2>1. 1 \in 1 .. Len(buf) /\ buf[1] # 0 BY <1>1 DEF IsPolicy
  <2>2. HeadersBefore(buf, 1) = {} BY DEF HeadersBefore
  <2>3. s0.buf = buf /\ s0.b = 1 /\ s0.size = Len(buf) /\ s0.out = <<>> OBVIOUS
  <2> HIDE DEF s0, buf
  <2>4. s0.size = Len(buf) - s0.b + 1 BY <1>1, <2>3
  <2> QED BY <1>1, <1>2, <1>4, <2>1, <2>2, <2>3, <2>4 DEF Writing
<1>6. ASSUME NEW s \in I \ PieceStop PROVE PieceNext[s] \in I
  <2>1. s \in PieceState \ PieceStop /\ Writing(buf, s) /\ NextPiece(s) # 0 BY <1>6 DEF PieceStop
  <2> DEFINE t == PieceStep(s)
             n == NextPiece(s)
             piece == SubSeq(buf, s.b, n - 1)
  <2>2. PieceNext[s] = t BY <2>1 DEF PieceNext
  <2>3. s.buf = buf /\ s.b \in 1 .. Len(buf) /\ buf[s.b] # 0 /\ s.size = Len(buf) - s.b + 1 /\ LoadedBy(s.out) = HeadersBefore(buf, s.b)
    BY <2>1 DEF Writing
  <2>4. t \in PieceState /\ t.buf = buf /\ t.b = n /\ t.size = s.size - (n - s.b) /\ t.out = Append(s.out, piece)
    <3>1. t = [buf |-> s.buf, b |-> n, size |-> s.size - (n - s.b), out |-> Append(s.out, SubSeq(s.buf, s.b, n - 1))] /\ t \in PieceState
      BY <2>1, PieceStepIs
    <3> HIDE DEF t, n, buf
    <3> QED BY <2>3, <3>1
  <2>5. n \in s.b + 2 .. Len(buf) /\ buf[n] # 0 /\ \A i \in s.b + 2 .. n - 1 : buf[i] = 0
    BY <2>1, <2>3, PieceStepIs DEF NextIs
  <2>6. s.out \in Seq(Seq(Nat)) BY <2>1 DEF PieceState
  <2> HIDE DEF t, n, buf
  <2>7. PICK e \in s.b .. Len(buf) : e = n - 1 BY <2>3, <2>5, <1>1
  <2>8. e + 1 = n BY <2>3, <2>5, <2>7, <1>1
  <2>9. piece \in Seq(Nat) /\ HeadersBefore(buf, e + 1) = HeadersBefore(buf, s.b) \union FirstProfile(piece)
    BY <2>3, <2>5, <2>7, PieceTakes DEF buf
  <2>10. LoadedBy(t.out) = LoadedBy(s.out) \union FirstProfile(piece)
    <3> HIDE DEF piece
    <3> QED BY <2>4, <2>6, <2>9, LoadedByAppend
  <2>11. LoadedBy(t.out) = HeadersBefore(buf, n) BY <2>3, <2>8, <2>9, <2>10
  <2>12. t.b \in 1 .. Len(buf) /\ buf[t.b] # 0 /\ t.size = Len(buf) - t.b + 1 BY <2>3, <2>4, <2>5, <1>1
  <2>13. Writing(buf, t) BY <2>4, <2>11, <2>12 DEF Writing
  <2> QED BY <2>2, <2>4, <2>13
<1>7. ASSUME NEW s \in I \cap PieceStop PROVE PieceBase[s] \in W
  <2>1. s \in PieceState /\ Writing(buf, s) /\ NextPiece(s) = 0 BY <1>7 DEF PieceStop
  <2>2. PieceBase[s] = Written(s, s.size) BY <1>7 DEF PieceBase
  <2>3. s.buf = buf /\ s.b \in 1 .. Len(buf) /\ buf[s.b] # 0 /\ s.size = Len(buf) - s.b + 1 /\ LoadedBy(s.out) = HeadersBefore(buf, s.b)
    BY <2>1 DEF Writing
  <2>4. s.out \in Seq(Seq(Nat)) BY <2>1 DEF PieceState
  <2>5. \A i \in s.b + 2 .. Len(buf) : i <= s.b + s.size - 1 => buf[i] = 0
    BY <2>1, <2>3, PieceStepIs DEF NextIs
  <2> HIDE DEF buf
  <2>6. s.b + s.size - 1 = Len(buf) BY <2>3, <1>1
  <2>7. \A i \in s.b + 2 .. Len(buf) : buf[i] = 0 BY <2>5, <2>6, <1>1
  <2> DEFINE piece == SubSeq(buf, s.b, Len(buf))
  <2>8. Written(s, s.size) = Append(s.out, piece) BY <2>3, <2>6 DEF Written
  <2>9. Len(buf) \in s.b .. Len(buf) BY <2>3, <1>1
  <2>10. piece \in Seq(Nat) /\ HeadersBefore(buf, Len(buf) + 1) = HeadersBefore(buf, s.b) \union FirstProfile(piece)
    BY <2>3, <2>7, <2>9, PieceTakes DEF buf
  <2>11. LoadedBy(Append(s.out, piece)) = LoadedBy(s.out) \union FirstProfile(piece) /\ Append(s.out, piece) \in Seq(Seq(Nat))
    <3> HIDE DEF piece
    <3> QED BY <2>4, <2>10, LoadedByAppend
  <2> QED BY <2>2, <2>3, <2>8, <2>10, <2>11, <1>3
<1> HIDE DEF I, W
<1>8. I \in SUBSET PieceState BY DEF I
<1>9. Along(I, W, PieceState, PieceStop, PieceBase, PieceNext) BY <1>6, <1>7, <1>8 DEF Along
<1>10. \A s \in I : PiecesFrom[s] \in W BY <1>9, PieceLoop, PieceRuns, LoopKeeps
<1>11. Pieces(buf) \in W BY <1>5, <1>10 DEF Pieces
<1> QED BY <1>11 DEF W

(* A load that succeeds has loaded all profiles of the policy.              *)
LEMMA WriteToIfaceIs ==
    ASSUME NEW ki, NEW pol, IsPolicy(pol), NEW r \in WriteToIface(ki, pol), r.ok
    PROVE  r.loaded = ProfilesIn(pol.bytes)
<1> DEFINE buf == SubSeq(pol.bytes, 1, ReadAll(Len(pol.bytes)))
           ps == Pieces(buf)
           all == [loaded |-> ProfilesIn(buf), ok |-> TRUE]
           none == [loaded |-> {}, ok |-> FALSE]
           one == {[loaded |-> UNION {FirstProfile(ps[i]) : i \in 1 .. k}, ok |-> k = Len(ps)] : k \in 0 .. Len(ps)}
<1>1. pol.bytes \in Seq(Nat) /\ Len(pol.bytes) \in Nat BY DEF IsPolicy
<1>2. buf = pol.bytes
  <2>1. ReadAll(Len(pol.bytes)) = Len(pol.bytes) BY <1>1, ReadAllIs
  <2> QED BY <1>1, <2>1
<1>3. r \in {none} \union {all, none} \union one BY DEF WriteToIface
<1> HIDE DEF buf
<1>4. CASE r = none BY <1>4
<1>5. CASE r = all BY <1>5, <1>2
<1>6. CASE r \in one
  <2>1. PICK k \in 0 .. Len(ps) : r = [loaded |-> UNION {FirstProfile(ps[i]) : i \in 1 .. k}, ok |-> k = Len(ps)] BY <1>6
  <2>2. k = Len(ps) BY <2>1
  <2>3. r.loaded = LoadedBy(ps) BY <2>1, <2>2 DEF LoadedBy
  <2> QED BY <2>3, <1>2, PiecesRight
<1> QED BY <1>3, <1>4, <1>5, <1>6
-----------------------------------------------------------------------------
(***************************************************************************)
(* What the cache directories hold.                                        *)
(***************************************************************************)
Texts == {t \in Seq(STRING) \ {<<>>, NoFile} : Hash(t) \in Ids}
Modes == {m[p] : m \in Setups, p \in Procs}
Entry == [kind : {"file", "empty"}, pol : Policies, by : Texts]
Ents == UNION {[S -> Entry] : S \in SUBSET Names}
Inodes == [feat : Seq(STRING) \union {NoFile}, ents : Ents \union {r.ents : r \in RoDirs}, live : BOOLEAN, writers : SUBSET Procs]
Fields == {"pc", "mode", "at", "text", "target", "best", "left", "fds", "todo", "ok", "items", "loaded", "want", "clean"}

(* The places of a program: before it has a directory, in one of its own    *)
(* making, with an open cache, and at its end.                              *)
Before == {"features", "look", "scan", "open", "mkdir"}
Working == {"clear", "unlink", "truncate", "write"}
Usable == {"ready", "replace", "replaced"}
Over == {"done", "failed", "dead", "overrun"}

Holder(p) == proc[p].fds # <<>>
User(p) == Holder(p) /\ ~Opener(p)
Worker(p) == proc[p].pc \in Working
SameHash(p, q) == Hash(proc[p].text) = Hash(proc[q].text)

(* A program is somewhere, holds a directory exactly where it should, and   *)
(* looks for one of its own hash.                                           *)
ProcOk(p) ==
  /\ DOMAIN proc[p] = Fields /\ proc[p].mode \in Modes /\ proc[p].fds \in Seq(Nat) /\ proc[p].at \in {"rw", "ro"}
  /\ proc[p].pc \in Before \union {"check"} \union Working \union Usable \union Over
  /\ proc[p].at = "ro" => proc[p].pc \in {"look", "scan", "open"} \union Usable
  /\ proc[p].fds = <<>> <=> proc[p].at = "rw" /\ proc[p].pc \in Before \union Over
  /\ Holder(p) => Rw(p) \in 2 .. Len(ino)
  /\ proc[p].pc \notin {"features"} \union Over => proc[p].text \in Texts
  /\ proc[p].pc = "scan" => /\ \A d \in proc[p].left : d \in Dirs /\ d[1] = Hash(proc[p].text)
                            /\ proc[p].best \in -1 .. MaxN
  /\ proc[p].pc \in {"open", "mkdir"} => proc[p].target \in Dirs /\ proc[p].target[1] = Hash(proc[p].text)

(* Names lead to inodes that have one, and programs that hold an inode have *)
(* the hash it was made for.                                                *)
Shape ==
  /\ ino \in Seq(Inodes) /\ 1 \in DOMAIN ino /\ \A i \in 2 .. Len(ino) : ino[i].ents \in Ents
  /\ DOMAIN loc = {"rw", "ro"} /\ loc.rw \in [Dirs -> Nat] /\ loc.ro \in [Dirs -> {0, 1}]
  /\ \A d \in Dirs : loc.rw[d] # 0 => loc.rw[d] \in 2 .. Len(ino) /\ ino[loc.rw[d]].live
  /\ \A d \in Dirs, e \in Dirs : loc.rw[d] # 0 /\ loc.rw[d] = loc.rw[e] => d = e
  /\ DOMAIN proc = Procs /\ raced \in BOOLEAN
  /\ \A p \in Procs : ProcOk(p)
  /\ \A p \in Procs, d \in Dirs : Holder(p) /\ loc.rw[d] = Rw(p) => Hash(proc[p].text) = d[1]
  /\ \A p, q \in Procs : Holder(p) /\ Holder(q) /\ Rw(p) = Rw(q) => SameHash(p, q)

By(i, t) == \A n \in DOMAIN ino[i].ents : ino[i].ents[n].by = t
Mine(p) == ino[Rw(p)].feat \in {NoFile, <<>>, proc[p].text}
(* A directory without a name is empty, and only a .features that is there  *)
(* is open for writing.                                                     *)
Clean(i) == /\ ~ino[i].live => ino[i].feat = NoFile /\ DOMAIN ino[i].ents = {}
            /\ ino[i].feat = NoFile => ino[i].writers = {}
(* What a program finds in its directory.                                   *)
Found(p) == /\ User(p) => Mine(p) /\ By(Rw(p), proc[p].text)
            /\ Worker(p) => Mine(p)
            /\ proc[p].pc = "unlink" => \A n \in DOMAIN ino[Rw(p)].ents : ino[Rw(p)].ents[n].by # proc[p].text => n \in proc[p].todo
            /\ proc[p].pc \in {"truncate", "write"} => By(Rw(p), proc[p].text)
(* Programs whose features have the same hash do not open at the same time, *)
(* one that opens finds the .features of the others, and nobody shares a    *)
(* directory with other features than its own.                              *)
Apart(p, q) == /\ Opener(p) /\ Opener(q) /\ SameHash(p, q) => proc[p].text = proc[q].text
               /\ Opener(p) /\ User(q) /\ SameHash(p, q) /\ proc[p].text # proc[q].text => ~Lost(q)
               /\ (Worker(p) \/ User(p)) /\ User(q) /\ Rw(p) = Rw(q) /\ ino[Rw(p)].live => proc[p].text = proc[q].text
Orderly == /\ \A i \in 2 .. Len(ino) : Clean(i)
           /\ \A i \in 1 .. Len(ino) : ino[i].feat \notin {NoFile, <<>>} => By(i, ino[i].feat)
           /\ \A p \in Procs : Found(p)
           /\ \A p, q \in Procs : Apart(p, q)

IInv == Shape /\ (raced \/ Orderly)
-----------------------------------------------------------------------------
LEMMA SetIs ==
    ASSUME Shape, NEW p \in Procs, NEW r, Set(p, r)
    PROVE  DOMAIN proc' = Procs /\ proc'[p] = r /\ \A q \in Procs : q # p => proc'[q] = proc[q]
BY DEF Shape, Set

(* A step of one program that leaves the files alone keeps the shape.       *)
LEMMA ShapeKept ==
    ASSUME Shape, NEW p \in Procs, loc' = loc, ino' = ino, raced' \in BOOLEAN,
           DOMAIN proc' = Procs, \A q \in Procs : q # p => proc'[q] = proc[q], ProcOk(p)',
           Holder(p)' => \/ Holder(p) /\ Rw(p)' = Rw(p) /\ proc'[p].text = proc[p].text
                         \/ \E d \in Dirs : loc.rw[d] # 0 /\ loc.rw[d] = Rw(p)' /\ d[1] = Hash(proc'[p].text)
    PROVE  Shape'
<1>1. \A q \in Procs : ProcOk(q)'
  <2> SUFFICES ASSUME NEW q \in Procs, q # p PROVE ProcOk(q)' OBVIOUS
  <2>1. ProcOk(q) /\ proc'[q] = proc[q] BY DEF Shape
  <2> QED BY <2>1 DEF ProcOk, Holder, Rw
<1>2. \A q \in Procs, d \in Dirs : (Holder(q) /\ loc.rw[d] = Rw(q) => Hash(proc[q].text) = d[1])'
  <2> SUFFICES ASSUME NEW q \in Procs, NEW d \in Dirs, Holder(q)', loc.rw[d] = Rw(q)' PROVE Hash(proc'[q].text) = d[1]
    BY DEF Dirs
  <2>1. CASE q # p BY <2>1 DEF Shape, Holder, Rw
  <2>2. CASE q = p /\ Holder(p) /\ Rw(p)' = Rw(p) /\ proc'[p].text = proc[p].text BY <2>2 DEF Shape
  <2>3. CASE q = p /\ \E e \in Dirs : loc.rw[e] # 0 /\ loc.rw[e] = Rw(p)' /\ e[1] = Hash(proc'[p].text)
    BY <2>3 DEF Shape
  <2> QED BY <2>1, <2>2, <2>3
<1>3. \A q, s \in Procs : (Holder(q) /\ Holder(s) /\ Rw(q) = Rw(s) => SameHash(q, s))'
  <2>1. ASSUME NEW s \in Procs, s # p, Holder(p)', Holder(s)', Rw(p)' = Rw(s)' PROVE SameHash(p, s)'
    <3>1. Holder(s) /\ Rw(s)' = Rw(s) /\ proc'[s] = proc[s] BY <2>1 DEF Holder, Rw
    <3>2. CASE Holder(p) /\ Rw(p)' = Rw(p) /\ proc'[p].text = proc[p].text
      <4>1. Rw(p) = Rw(s) /\ Holder(s) BY <2>1, <3>1, <3>2
      <4>2. Hash(proc[p].text) = Hash(proc[s].text) BY <4>1, <3>2 DEF Shape, SameHash
      <4> QED BY <4>2, <3>1, <3>2 DEF SameHash
    <3>3. CASE \E d \in Dirs : loc.rw[d] # 0 /\ loc.rw[d] = Rw(p)' /\ d[1] = Hash(proc'[p].text)
      <4>1. PICK d \in Dirs : loc.rw[d] # 0 /\ loc.rw[d] = Rw(p)' /\ d[1] = Hash(proc'[p].text) BY <3>3
      <4>2. loc.rw[d] = Rw(s) BY <4>1, <2>1, <3>1
      <4>3. Hash(proc[s].text) = d[1] BY <4>2, <3>1 DEF Shape
      <4> QED BY <4>1, <4>3, <3>1 DEF SameHash
    <3> QED BY <2>1, <3>2, <3>3
  <2>2. ASSUME NEW q \in Procs, NEW s \in Procs, q # p, s # p, Holder(q)', Holder(s)', Rw(q)' = Rw(s)' PROVE SameHash(q, s)'
    <3>1. proc'[q] = proc[q] /\ proc'[s] = proc[s] BY <2>2
    <3> QED BY <2>2, <3>1 DEF Shape, Holder, Rw, SameHash
  <2> QED BY <2>1, <2>2 DEF SameHash
<1> QED BY <1>1, <1>2, <1>3 DEF Shape, Dirs
(* A step of one program that leaves the files alone keeps programs apart,  *)
(* if it opens where nobody is in its way, and comes to work in or to use   *)
(* only a directory of its own features.                                    *)
Alone(p) == \A q \in Procs : q # p /\ (User(q) \/ Worker(q)) /\ Rw(q) = Rw(p)' /\ ino[Rw(q)].live => proc[q].text = proc'[p].text
LEMMA OrderlyKept ==
    ASSUME Shape, Orderly, NEW p \in Procs, ino' = ino,
           \A q \in Procs : q # p => proc'[q] = proc[q], Found(p)',
           Opener(p)' => \/ Opener(p) /\ proc'[p].text = proc[p].text
                         \/ \A q \in Procs : q # p /\ Hash(proc[q].text) = Hash(proc'[p].text) /\ proc[q].text # proc'[p].text
                                               => ~Opener(q) /\ ~Lost(q),
           User(p)' => \/ User(p) /\ Rw(p)' = Rw(p) /\ proc'[p].text = proc[p].text
                       \/ Opener(p) /\ proc'[p].text = proc[p].text /\ Alone(p),
           Worker(p)' => \/ Worker(p) /\ Rw(p)' = Rw(p) /\ proc'[p].text = proc[p].text
                         \/ Alone(p)
    PROVE  Orderly'
<1>1. \A q \in Procs : q # p => /\ (Opener(q)' <=> Opener(q)) /\ (User(q)' <=> User(q)) /\ (Worker(q)' <=> Worker(q))
                               /\ (Lost(q)' <=> Lost(q)) /\ Rw(q)' = Rw(q) /\ proc'[q].text = proc[q].text
  BY DEF Opener, User, Holder, Worker, Lost, Rw
<1>2. \A q \in Procs : Found(q)'
  <2> SUFFICES ASSUME NEW q \in Procs, q # p PROVE Found(q)' OBVIOUS
  <2>1. Found(q) BY DEF Orderly
  <2> QED BY <2>1, <1>1 DEF Found, Mine, By
<1>3. ASSUME NEW q \in Procs, NEW s \in Procs PROVE Apart(q, s)'
  <2>1. CASE q # p /\ s # p
    <3>1. Apart(q, s) BY DEF Orderly
    <3> QED BY <2>1, <3>1, <1>1 DEF Apart, SameHash
  <2>2. CASE q = p /\ s = p
    BY <2>2 DEF Apart, User
  <2>3. CASE q = p /\ s # p
    <3>1. Apart(p, s) /\ Apart(s, p) BY DEF Orderly
    <3>2. ASSUME Opener(p)', SameHash(p, s)', proc'[p].text # proc'[s].text PROVE ~Opener(s)' /\ (User(s)' => ~Lost(s)')
      <4>1. CASE Opener(p) /\ proc'[p].text = proc[p].text BY <4>1, <3>1, <3>2, <2>3, <1>1 DEF Apart, SameHash
      <4>2. CASE ~Opener(s) /\ ~Lost(s) BY <4>2, <2>3, <1>1
      <4> QED BY <4>1, <4>2, <3>2, <2>3, <1>1 DEF SameHash
    <3>3. ASSUME (Worker(p) \/ User(p))', User(s)', Rw(p)' = Rw(s)', ino[Rw(p)'].live PROVE proc'[p].text = proc'[s].text
      <4>1. User(s) /\ Rw(s) = Rw(p)' /\ ino[Rw(s)].live BY <3>3, <2>3, <1>1
      <4>2. CASE Alone(p) BY <4>1, <4>2, <2>3, <1>1 DEF Alone
      <4>3. CASE (Worker(p) \/ User(p)) /\ Rw(p)' = Rw(p) /\ proc'[p].text = proc[p].text
        BY <4>1, <4>3, <2>3, <1>1, <3>1 DEF Apart
      <4> QED BY <3>3, <4>2, <4>3
    <3> QED BY <2>3, <3>2, <3>3 DEF Apart, SameHash
  <2>4. CASE q # p /\ s = p
    <3>1. Apart(p, q) /\ Apart(q, p) BY DEF Orderly
    <3>2. ASSUME Opener(p)', Opener(q)', SameHash(q, p)' PROVE proc'[q].text = proc'[p].text
      <4>1. CASE Opener(p) /\ proc'[p].text = proc[p].text BY <4>1, <3>1, <3>2, <2>4, <1>1 DEF Apart, SameHash
      <4>2. CASE \A z \in Procs : z # p /\ Hash(proc[z].text) = Hash(proc'[p].text) /\ proc[z].text # proc'[p].text
                                               => ~Opener(z) /\ ~Lost(z)
        BY <4>2, <3>2, <2>4, <1>1 DEF SameHash
      <4> QED BY <4>1, <4>2, <3>2
    <3>3. ASSUME Opener(q)', User(p)', SameHash(q, p)', proc'[q].text # proc'[p].text PROVE ~Lost(p)'
      <4>1. CASE User(p) /\ Rw(p)' = Rw(p) /\ proc'[p].text = proc[p].text
        BY <4>1, <3>1, <3>3, <2>4, <1>1 DEF Apart, SameHash, Lost, User, Holder
      <4>2. CASE Opener(p) /\ proc'[p].text = proc[p].text
        BY <4>2, <3>1, <3>3, <2>4, <1>1 DEF Apart, SameHash
      <4> QED BY <4>1, <4>2, <3>3
    <3>4. ASSUME (Worker(q) \/ User(q))', User(p)', Rw(q)' = Rw(p)', ino[Rw(q)'].live PROVE proc'[q].text = proc'[p].text
      <4>1. (Worker(q) \/ User(q)) /\ Rw(q) = Rw(p)' /\ ino[Rw(q)].live BY <3>4, <2>4, <1>1
      <4>2. CASE Alone(p) BY <4>1, <4>2, <2>4, <1>1 DEF Alone
      <4>3. CASE User(p) /\ Rw(p)' = Rw(p) /\ proc'[p].text = proc[p].text
        BY <4>1, <4>3, <2>4, <1>1, <3>1 DEF Apart
      <4> QED BY <3>4, <4>2, <4>3
    <3> QED BY <2>4, <3>2, <3>3, <3>4 DEF Apart
  <2> QED BY <2>1, <2>2, <2>3, <2>4
<1> QED BY <1>2, <1>3 DEF Orderly, Clean, By
-----------------------------------------------------------------------------
(* The kinds of steps that leave the files alone: a program ends, goes on   *)
(* with its open cache, or goes on looking for a directory.                 *)
LEMMA EndKeeps ==
    ASSUME IInv, NEW p \in Procs, NEW how \in Over, End(p, how), loc' = loc, ino' = ino, raced' = raced
    PROVE  IInv'
<1>1. Shape /\ ProcOk(p) BY DEF IInv, Shape
<1>2. DOMAIN proc' = Procs /\ (\A q \in Procs : q # p => proc'[q] = proc[q])
      /\ proc'[p] = [NewProc(proc[p].mode) EXCEPT !.pc = how]
  BY <1>1, SetIs DEF End
<1>3. /\ DOMAIN proc'[p] = Fields /\ proc'[p].pc = how /\ proc'[p].mode = proc[p].mode /\ proc'[p].at = "rw"
      /\ proc'[p].fds = <<>>
  BY <1>2 DEF NewProc, Fields
<1>4. ProcOk(p)' BY <1>1, <1>3 DEF ProcOk, Holder, Over, Before, Working, Usable
<1>5. ~Holder(p)' /\ ~Opener(p)' /\ ~Worker(p)' /\ ~User(p)' /\ Found(p)'
  BY <1>3 DEF Holder, Opener, InOpening, Worker, User, Working, Over, Found
<1>6. Shape' BY <1>1, <1>2, <1>4, <1>5, ShapeKept DEF Shape, IInv
<1>7. ASSUME Orderly PROVE Orderly' BY <1>1, <1>2, <1>5, <1>7, OrderlyKept
<1> QED BY <1>6, <1>7 DEF IInv

LEMMA UserKeeps ==
    ASSUME IInv, NEW p \in Procs, User(p), NEW r, Set(p, r), loc' = loc, ino' = ino, raced' = raced,
           r.text = proc[p].text, r.fds # <<>>, r.fds[1] = proc[p].fds[1],
           r.pc \in {"look", "scan", "open"} \union Usable, r.pc \in Usable \/ r.at = "ro", ProcOk(p)'
    PROVE  IInv'
<1>1. Shape /\ ProcOk(p) BY DEF IInv, Shape
<1>2. DOMAIN proc' = Procs /\ (\A q \in Procs : q # p => proc'[q] = proc[q]) /\ proc'[p] = r
  BY <1>1, SetIs
<1>3. Holder(p)' /\ Holder(p) /\ Rw(p)' = Rw(p) /\ proc'[p].text = proc[p].text /\ ~Opener(p)' /\ ~Worker(p)'
  BY <1>2 DEF User, Holder, Rw, Opener, InOpening, Worker, Working, Usable
<1>4. Shape' BY <1>1, <1>2, <1>3, ShapeKept DEF Shape, IInv
<1>5. ASSUME Orderly PROVE Orderly'
  <2>1. Found(p) BY <1>5 DEF Orderly
  <2>2. Found(p)' BY <2>1, <1>2, <1>3 DEF Found, Mine, By, User, Usable
  <2> QED BY <1>1, <1>2, <1>3, <1>5, <2>2, OrderlyKept DEF User
<1> QED BY <1>4, <1>5 DEF IInv

LEMMA OpenerKeeps ==
    ASSUME IInv, NEW p \in Procs, Opener(p), NEW r, Set(p, r), loc' = loc, ino' = ino, raced' = raced,
           r.text = proc[p].text, r.at = "rw", r.pc \in {"scan", "open", "mkdir", "check"}, ProcOk(p)',
           r.fds # <<>> => \E d \in Dirs : loc.rw[d] # 0 /\ loc.rw[d] = r.fds[1] /\ d[1] = Hash(r.text)
    PROVE  IInv'
<1>1. Shape /\ ProcOk(p) BY DEF IInv, Shape
<1>2. DOMAIN proc' = Procs /\ (\A q \in Procs : q # p => proc'[q] = proc[q]) /\ proc'[p] = r
  BY <1>1, SetIs
<1>3. Opener(p)' /\ ~User(p)' /\ ~Worker(p)' /\ proc'[p].text = proc[p].text
  BY <1>2 DEF Opener, InOpening, User, Worker, Working
<1>4. Shape' BY <1>1, <1>2, ShapeKept DEF Shape, IInv, Holder, Rw
<1>5. ASSUME Orderly PROVE Orderly'
  <2>1. Found(p)' BY <1>2, <1>3 DEF Found
  <2> QED BY <1>1, <1>2, <1>3, <1>5, <2>1, OrderlyKept
<1> QED BY <1>4, <1>5 DEF IInv

(* Fail: at the read-only location the cache stays as it is, otherwise the  *)
(* program is over.                                                         *)
LEMMA FailKeeps ==
    ASSUME IInv, NEW p \in Procs, Fail(p), Same
    PROVE  IInv'
<1>1. Shape /\ ProcOk(p) BY DEF IInv, Shape
<1>2. CASE ~(proc[p].pc \in {"look", "scan", "open"} /\ proc[p].at = "ro")
  BY <1>2, EndKeeps DEF Fail, Same, Over
<1>3. CASE proc[p].pc \in {"look", "scan", "open"} /\ proc[p].at = "ro"
  <2> DEFINE r == [proc[p] EXCEPT !.pc = "ready", !.left = {}, !.best = -1]
  <2>1. Set(p, r) BY <1>3 DEF Fail
  <2>2. DOMAIN r = Fields /\ r.pc = "ready" /\ r.text = proc[p].text /\ r.fds = proc[p].fds /\ r.at = "ro" /\ r.mode = proc[p].mode
    BY <1>1, <1>3 DEF ProcOk, Fields
  <2>3. User(p) BY <1>1, <1>3 DEF User, Holder, Opener, ProcOk
  <2>4. proc'[p] = r BY <1>1, <2>1, SetIs
  <2> HIDE DEF r
  <2>5. ProcOk(p)' BY <1>1, <2>2, <2>3, <2>4 DEF ProcOk, Holder, User, Rw, Usable, Before, Over, Working, Same, InOpening
  <2> QED BY <2>1, <2>2, <2>3, <2>5, UserKeeps DEF Same, Usable, User, Holder
<1> QED BY <1>2, <1>3
-----------------------------------------------------------------------------
LEMMA LoadFeaturesKeeps == ASSUME IInv, NEW p \in Procs, LoadFeatures(p) PROVE IInv'
<1>1. Shape /\ ProcOk(p) /\ proc[p].pc = "features" /\ Same BY DEF IInv, Shape, LoadFeatures
<1> DEFINE b == FeaturesNewFromKernel[proc[p].mode.kern]
<1>2. CASE ~b.ok BY <1>1, <1>2, FailKeeps DEF LoadFeatures
<1>3. CASE b.ok
  <2> DEFINE r == [proc[p] EXCEPT !.pc = "look", !.text = b.text]
  <2>1. Set(p, r) BY <1>3 DEF LoadFeatures
  <2>2. DOMAIN proc' = Procs /\ (\A q \in Procs : q # p => proc'[q] = proc[q]) /\ proc'[p] = r BY <1>1, <2>1, SetIs
  <2>3. b.text \in Texts
    <3>1. proc[p].mode.kern \in Kernels BY <1>1 DEF ProcOk, Modes, Kernels
    <3> QED BY <3>1, <1>3, TextsAssumption DEF Texts
  <2>4. DOMAIN r = Fields /\ r.pc = "look" /\ r.text = b.text /\ r.fds = proc[p].fds /\ r.at = proc[p].at /\ r.mode = proc[p].mode
    BY <1>1 DEF ProcOk, Fields
  <2>5. r.fds = <<>> /\ r.at = "rw" BY <1>1, <2>4 DEF ProcOk, Before, Usable
  <2> HIDE DEF r, b
  <2>6. ProcOk(p)' /\ ~Holder(p)' /\ ~Opener(p)' /\ ~Worker(p)' /\ ~User(p)' /\ Found(p)'
    <3>1. ~Holder(p)' /\ ~Opener(p)' /\ ~Worker(p)' /\ ~User(p)'
      BY <2>2, <2>4, <2>5 DEF Holder, Opener, InOpening, Worker, Working, User
    <3> QED BY <3>1, <1>1, <2>2, <2>3, <2>4, <2>5 DEF ProcOk, Before, Found
  <2>7. Shape' BY <1>1, <2>2, <2>6, ShapeKept DEF Shape, IInv, Same
  <2>8. ASSUME Orderly PROVE Orderly' BY <1>1, <2>2, <2>6, <2>8, OrderlyKept DEF Same
  <2> QED BY <1>1, <2>7, <2>8 DEF IInv, Same
<1> QED BY <1>2, <1>3

LEMMA LookKeeps == ASSUME IInv, NEW p \in Procs, Look(p) PROVE IInv'
<1> DEFINE d == <<Hash(proc[p].text), 0>>
           res == FeaturesCheck(Here(p)[d], proc[p].text)
           seen == {e \in Dirs : e[1] = d[1] /\ Here(p)[e] # 0}
           open == [proc[p] EXCEPT !.pc = "open", !.target = d]
           scan == [proc[p] EXCEPT !.pc = "scan", !.best = -1, !.left = seen]
<1>1. Shape /\ ProcOk(p) /\ proc[p].pc = "look" /\ loc' = loc /\ ino' = ino /\ proc[p].text \in Texts
  BY DEF IInv, Shape, Look, ProcOk, Over
<1>2. d \in Dirs /\ d[1] = Hash(proc[p].text) BY <1>1, BoundsAssumption DEF Texts, Dirs
<1>3. raced' = (raced \/ (proc[p].at = "rw" /\ \E q \in Procs : Collide(p, q))) /\ raced' \in BOOLEAN
  BY <1>1 DEF Look, Shape
<1>4. Fail(p) \/ Set(p, open) \/ Set(p, scan) BY DEF Look
<1>5. CASE raced' = raced /\ Fail(p)
  <2>1. CASE proc[p].at = "ro"
    <3> DEFINE r == [proc[p] EXCEPT !.pc = "ready", !.left = {}, !.best = -1]
    <3>1. Set(p, r) BY <1>1, <1>5, <2>1 DEF Fail
    <3>2. DOMAIN r = Fields /\ r.pc = "ready" /\ r.text = proc[p].text /\ r.fds = proc[p].fds /\ r.at = "ro" /\ r.mode = proc[p].mode
      BY <1>1, <2>1 DEF ProcOk, Fields
    <3>3. User(p) BY <1>1, <2>1 DEF User, Holder, Opener, ProcOk
    <3>4. proc'[p] = r BY <1>1, <3>1, SetIs
    <3> HIDE DEF r
    <3>5. ProcOk(p)' BY <1>1, <3>2, <3>3, <3>4 DEF ProcOk, Holder, User, Rw, Usable, Before, Over, Working, InOpening
    <3> QED BY <1>1, <1>5, <3>1, <3>2, <3>3, <3>5, UserKeeps DEF Usable, User, Holder
  <2>2. CASE proc[p].at # "ro" BY <1>1, <1>5, <2>2, EndKeeps DEF Fail, Over
  <2> QED BY <2>1, <2>2
<1> DEFINE Result(r) == /\ DOMAIN r = Fields /\ r.text = proc[p].text /\ r.fds = proc[p].fds /\ r.at = proc[p].at /\ r.mode = proc[p].mode
                        /\ \/ r.pc = "open" /\ r.target \in Dirs /\ r.target[1] = Hash(r.text)
                           \/ r.pc = "scan" /\ r.best = -1 /\ \A e \in r.left : e \in Dirs /\ e[1] = Hash(r.text)
<1>6. Result(open) /\ Result(scan)
  <2>1. Result(open) BY <1>1, <1>2 DEF ProcOk, Fields
  <2>2. Result(scan) BY <1>1, <1>2 DEF ProcOk, Fields
  <2> QED BY <2>1, <2>2
<1>7. ASSUME NEW r, Set(p, r), Result(r) PROVE IInv'
  <2>1. DOMAIN proc' = Procs /\ (\A q \in Procs : q # p => proc'[q] = proc[q]) /\ proc'[p] = r BY <1>1, <1>7, SetIs
  <2>2. ProcOk(p)'
    <3>1. -1 \in -1 .. MaxN BY BoundsAssumption
    <3> QED BY <1>1, <1>7, <2>1, <3>1 DEF ProcOk, Holder, Rw, Usable, Before, Over, Working, InOpening
  <2>3. (Holder(p)' <=> Holder(p)) /\ Rw(p)' = Rw(p) /\ proc'[p].text = proc[p].text /\ ~Worker(p)'
    BY <1>7, <2>1 DEF Holder, Rw, Worker, Working
  <2>4. Shape' BY <1>1, <1>3, <2>1, <2>2, <2>3, ShapeKept
  <2>5. ASSUME ~raced', Orderly PROVE Orderly'
    <3>1. CASE proc[p].at = "rw"
      <4>1. \A q \in Procs : ~Collide(p, q) BY <1>3, <2>5, <3>1
      <4>2. ~Holder(p) BY <1>1, <3>1 DEF ProcOk, Before, Holder
      <4>3. ~User(p)' /\ Found(p)' BY <4>2, <2>3, <1>7, <2>1 DEF User, Found
      <4>4. \A q \in Procs : q # p /\ Hash(proc[q].text) = Hash(proc'[p].text) /\ proc[q].text # proc'[p].text
                                               => ~Opener(q) /\ ~Lost(q)
        BY <4>1, <2>3 DEF Collide
      <4> QED BY <1>1, <2>1, <2>3, <2>5, <4>3, <4>4, OrderlyKept
    <3>2. CASE proc[p].at = "ro"
      <4>1. User(p) /\ User(p)' /\ ~Opener(p)' BY <1>1, <3>2, <1>7, <2>1, <2>3 DEF User, Holder, Opener, ProcOk
      <4>2. Found(p) BY <2>5 DEF Orderly
      <4>3. Found(p)' BY <4>1, <4>2, <2>1, <2>3, <1>1, <1>7 DEF Found, Mine, By
      <4> QED BY <1>1, <2>1, <2>3, <2>5, <4>1, <4>3, OrderlyKept
    <3> QED BY <1>1, <3>1, <3>2 DEF ProcOk
  <2> QED BY <1>3, <2>4, <2>5 DEF IInv, Shape
<1>8. CASE Fail(p) /\ raced' # raced
  <2>0. raced \in BOOLEAN BY <1>1 DEF Shape
  <2> DEFINE met == proc[p].at = "rw" /\ \E q \in Procs : Collide(p, q)
  <2>1. raced' /\ met
    <3>1. raced' = (raced \/ met) BY <1>3
    <3> HIDE DEF met
    <3>2. CASE met BY <3>1, <3>2
    <3>3. CASE ~met
      <4>1. (raced \/ met) = raced BY <3>3, <2>0
      <4> QED BY <3>1, <4>1, <1>8
    <3> QED BY <3>2, <3>3
  <2>2. Shape'
    <3>1. proc[p].at = "rw" BY <2>1
    <3>2. End(p, "failed") BY <3>1, <1>8 DEF Fail
    <3>3. DOMAIN proc' = Procs /\ (\A q \in Procs : q # p => proc'[q] = proc[q])
          /\ proc'[p] = [NewProc(proc[p].mode) EXCEPT !.pc = "failed"]
      BY <1>1, <3>2, SetIs DEF End
    <3>4. /\ DOMAIN proc'[p] = Fields /\ proc'[p].pc = "failed" /\ proc'[p].mode = proc[p].mode /\ proc'[p].at = "rw"
          /\ proc'[p].fds = <<>>
      BY <3>3 DEF NewProc, Fields
    <3>5. ProcOk(p)' /\ ~Holder(p)' BY <1>1, <3>4 DEF ProcOk, Holder, Over, Before, Working, Usable
    <3> QED BY <1>1, <1>3, <3>3, <3>5, ShapeKept
  <2> QED BY <2>1, <2>2 DEF IInv
<1> QED BY <1>4, <1>5, <1>6, <1>7, <1>8
(* A program goes on looking, in either location.                           *)
LEMMA SeekKeeps ==
    ASSUME IInv, NEW p \in Procs, NEW r, Set(p, r), Same, proc[p].pc \in {"scan", "open", "mkdir"},
           DOMAIN r = Fields, r.mode = proc[p].mode, r.at = proc[p].at, r.text = proc[p].text, r.fds = proc[p].fds,
           r.pc \in {"scan", "open", "mkdir"}, r.pc = "mkdir" => r.at = "rw",
           r.pc = "scan" => r.best \in -1 .. MaxN /\ \A e \in r.left : e \in Dirs /\ e[1] = Hash(r.text),
           r.pc \in {"open", "mkdir"} => r.target \in Dirs /\ r.target[1] = Hash(r.text)
    PROVE  IInv'
<1>1. Shape /\ ProcOk(p) BY DEF IInv, Shape
<1>2. proc'[p] = r BY <1>1, SetIs
<1>3. proc[p].text \in Texts BY <1>1 DEF ProcOk, Over
<1>4. ProcOk(p)' BY <1>1, <1>2, <1>3 DEF ProcOk, Holder, Rw, Usable, Before, Over, Working, Same
<1>5. CASE proc[p].at = "rw"
  <2>1. r.fds = <<>> BY <1>1, <1>5 DEF ProcOk, Before
  <2>2. Opener(p) BY <1>5 DEF Opener, InOpening
  <2> QED BY <1>4, <1>5, <2>1, <2>2, OpenerKeeps DEF Same
<1>6. CASE proc[p].at = "ro"
  <2>1. User(p) BY <1>1, <1>6 DEF ProcOk, User, Holder, Opener
  <2> QED BY <1>4, <1>6, <2>1, UserKeeps DEF Same, User, Holder
<1> QED BY <1>1, <1>5, <1>6 DEF ProcOk

LEMMA CacheMissKeeps == ASSUME IInv, NEW p \in Procs, CacheMiss(p) PROVE IInv'
<1>1. Shape /\ ProcOk(p) /\ proc[p].pc = "scan" /\ Same BY DEF IInv, Shape, CacheMiss
<1>2. PICK d \in proc[p].left : \/ Set(p, [proc[p] EXCEPT !.pc = "open", !.target = d, !.left = {}])
                               \/ Set(p, [proc[p] EXCEPT !.left = @ \ {d}, !.best = Max({@, d[2]})])
                               \/ Fail(p)
  BY DEF CacheMiss
<1>3. d \in Dirs /\ d[1] = Hash(proc[p].text) /\ (\A e \in proc[p].left : e \in Dirs /\ e[1] = Hash(proc[p].text))
      /\ proc[p].best \in -1 .. MaxN
  BY <1>1 DEF ProcOk
<1>4. CASE Set(p, [proc[p] EXCEPT !.pc = "open", !.target = d, !.left = {}])
  <2> DEFINE r == [proc[p] EXCEPT !.pc = "open", !.target = d, !.left = {}]
  <2>1. DOMAIN r = Fields /\ r.mode = proc[p].mode /\ r.at = proc[p].at /\ r.text = proc[p].text /\ r.fds = proc[p].fds
        /\ r.pc = "open" /\ r.target = d
    BY <1>1 DEF ProcOk, Fields
  <2>2. Set(p, r) BY <1>4
  <2> HIDE DEF r
  <2> QED BY <1>1, <1>3, <2>1, <2>2, SeekKeeps
<1>5. CASE Set(p, [proc[p] EXCEPT !.left = @ \ {d}, !.best = Max({@, d[2]})])
  <2> DEFINE m == Max({proc[p].best, d[2]})
             r == [proc[p] EXCEPT !.left = @ \ {d}, !.best = m]
  <2>1. m \in -1 .. MaxN
    <3>1. d[2] \in 0 .. MaxN BY <1>3 DEF Dirs
    <3>2. d[2] \in Int /\ proc[p].best \in Int BY <1>3, <3>1, BoundsAssumption
    <3>3. m \in {proc[p].best, d[2]} BY <3>2, MaxTwo
    <3> HIDE DEF m
    <3> QED BY <1>3, <3>1, <3>3, BoundsAssumption
  <2> HIDE DEF m
  <2>2. DOMAIN r = Fields /\ r.mode = proc[p].mode /\ r.at = proc[p].at /\ r.text = proc[p].text /\ r.fds = proc[p].fds
        /\ r.pc = "scan" /\ r.best = m /\ r.left = proc[p].left \ {d}
    BY <1>1 DEF ProcOk, Fields
  <2>3. Set(p, r) BY <1>5 DEF m
  <2> HIDE DEF r
  <2> QED BY <1>1, <1>3, <2>1, <2>2, <2>3, SeekKeeps
<1>6. CASE Fail(p) BY <1>1, <1>6, FailKeeps
<1> QED BY <1>2, <1>4, <1>5, <1>6

LEMMA NoMatchKeeps == ASSUME IInv, NEW p \in Procs, NoMatch(p) PROVE IInv'
<1> DEFINE d == <<Hash(proc[p].text), proc[p].best + 1>>
           r == [proc[p] EXCEPT !.pc = "open", !.target = d]
<1>1. Shape /\ ProcOk(p) /\ proc[p].pc = "scan" /\ proc[p].best < MaxN /\ Same /\ Set(p, r)
  BY DEF IInv, Shape, NoMatch
<1>2. d \in Dirs /\ d[1] = Hash(proc[p].text)
  <2>1. proc[p].best + 1 \in 0 .. MaxN BY <1>1, BoundsAssumption DEF ProcOk
  <2>2. Hash(proc[p].text) \in Ids BY <1>1 DEF ProcOk, Texts, Over
  <2> QED BY <2>1, <2>2 DEF Dirs
<1> HIDE DEF d
<1>3. DOMAIN r = Fields /\ r.mode = proc[p].mode /\ r.at = proc[p].at /\ r.text = proc[p].text /\ r.fds = proc[p].fds
      /\ r.pc = "open" /\ r.target = d
  BY <1>1 DEF ProcOk, Fields
<1> HIDE DEF r
<1> QED BY <1>1, <1>2, <1>3, SeekKeeps

LEMMA OpenDirKeeps == ASSUME IInv, NEW p \in Procs, OpenDir(p) PROVE IInv'
<1> DEFINE i == Here(p)[proc[p].target]
<1>1. Shape /\ ProcOk(p) /\ proc[p].pc = "open" /\ Same BY DEF IInv, Shape, OpenDir
<1>2. proc[p].text \in Texts /\ proc[p].target \in Dirs /\ proc[p].target[1] = Hash(proc[p].text) BY <1>1 DEF ProcOk, Over
<1>3. CASE i # 0 /\ proc[p].at = "rw"
  <2> DEFINE r == [proc[p] EXCEPT !.pc = "check", !.fds = Append(@, i)]
  <2>1. Set(p, r) BY <1>3 DEF OpenDir
  <2>2. proc[p].fds = <<>> /\ Opener(p) BY <1>1, <1>3 DEF ProcOk, Before, Opener, InOpening
  <2>3. i = loc.rw[proc[p].target] /\ i \in Nat /\ i \in 2 .. Len(ino) BY <1>1, <1>2, <1>3 DEF Here, Shape
  <2> HIDE DEF i
  <2>4. DOMAIN r = Fields /\ r.mode = proc[p].mode /\ r.at = proc[p].at /\ r.text = proc[p].text /\ r.pc = "check"
        /\ r.fds = Append(proc[p].fds, i)
    BY <1>1 DEF ProcOk, Fields
  <2>5. r.fds \in Seq(Nat) /\ r.fds # <<>> /\ r.fds[1] = i BY <2>2, <2>3, <2>4
  <2> HIDE DEF r
  <2>6. proc'[p] = r BY <1>1, <2>1, SetIs
  <2>7. ProcOk(p)' BY <1>1, <1>2, <1>3, <2>3, <2>4, <2>5, <2>6 DEF ProcOk, Holder, Rw, Usable, Before, Over, Working, Same
  <2> QED BY <1>1, <1>2, <1>3, <2>1, <2>2, <2>3, <2>4, <2>5, <2>7, OpenerKeeps DEF Same
<1>4. CASE i # 0 /\ proc[p].at = "ro"
  <2> DEFINE r == [proc[p] EXCEPT !.pc = "ready", !.fds = Append(@, i)]
  <2>1. Set(p, r) BY <1>4 DEF OpenDir
  <2>2. User(p) /\ proc[p].fds # <<>> /\ proc[p].fds \in Seq(Nat) BY <1>1, <1>4 DEF ProcOk, Before, Opener, User, Holder
  <2>3. i \in Nat BY <1>1, <1>2, <1>4 DEF Here, Shape
  <2> HIDE DEF i
  <2>4. DOMAIN r = Fields /\ r.mode = proc[p].mode /\ r.at = proc[p].at /\ r.text = proc[p].text /\ r.pc = "ready"
        /\ r.fds = Append(proc[p].fds, i)
    BY <1>1 DEF ProcOk, Fields
  <2>5. r.fds \in Seq(Nat) /\ r.fds # <<>> /\ r.fds[1] = proc[p].fds[1] BY <2>2, <2>3, <2>4
  <2> HIDE DEF r
  <2>6. proc'[p] = r BY <1>1, <2>1, SetIs
  <2>7. ProcOk(p)' BY <1>1, <1>2, <1>4, <2>2, <2>4, <2>5, <2>6 DEF ProcOk, Holder, Rw, Usable, Before, Over, Working, Same
  <2> QED BY <1>1, <1>4, <2>1, <2>2, <2>4, <2>5, <2>7, UserKeeps DEF Same, Usable
<1>5. CASE i = 0 /\ proc[p].at = "rw" /\ proc[p].mode.create
  <2> DEFINE r == [proc[p] EXCEPT !.pc = "mkdir"]
  <2>1. Set(p, r) BY <1>5 DEF OpenDir
  <2>2. DOMAIN r = Fields /\ r.mode = proc[p].mode /\ r.at = proc[p].at /\ r.text = proc[p].text /\ r.fds = proc[p].fds
        /\ r.pc = "mkdir" /\ r.target = proc[p].target
    BY <1>1 DEF ProcOk, Fields
  <2> HIDE DEF r
  <2> QED BY <1>1, <1>2, <1>5, <2>1, <2>2, SeekKeeps
<1>6. CASE Fail(p) BY <1>1, <1>6, FailKeeps
<1>7. proc[p].at \in {"rw", "ro"} BY <1>1 DEF ProcOk
<1> QED BY <1>3, <1>4, <1>5, <1>6, <1>7 DEF OpenDir
-----------------------------------------------------------------------------
(* A program whose own directory is at hand goes on there: it begins to     *)
(* clear it or to use it, or goes on with what it does.                     *)
LEMMA WorkKeeps ==
    ASSUME IInv, NEW p \in Procs, NEW r, Set(p, r), Same, proc[p].pc \in {"check"} \union Working,
           DOMAIN r = Fields, r.mode = proc[p].mode, r.at = proc[p].at, r.text = proc[p].text, r.fds = proc[p].fds,
           r.pc \in Working \union {"ready"},
           Orderly => Found(p)' /\ ((proc[p].pc \in Working /\ r.pc \in Working) \/ Alone(p))
    PROVE  IInv'
<1>1. Shape /\ ProcOk(p) BY DEF IInv, Shape
<1>2. DOMAIN proc' = Procs /\ (\A q \in Procs : q # p => proc'[q] = proc[q]) /\ proc'[p] = r BY <1>1, SetIs
<1>3. proc[p].at = "rw" /\ Holder(p) /\ Opener(p) /\ proc[p].text \in Texts
  BY <1>1 DEF ProcOk, Working, Usable, Before, Over, Holder, Opener, InOpening
<1>4. ProcOk(p)' BY <1>1, <1>2, <1>3 DEF ProcOk, Holder, Rw, Usable, Before, Over, Working, Same
<1>5. Holder(p)' /\ Rw(p)' = Rw(p) /\ proc'[p].text = proc[p].text BY <1>2, <1>3 DEF Holder, Rw
<1>6. Shape' BY <1>1, <1>2, <1>3, <1>4, <1>5, ShapeKept DEF Same, Shape
<1>7. ASSUME Orderly PROVE Orderly'
  <2>1. (proc[p].pc \in Working => Worker(p)) /\ (r.pc \in Working => ~User(p)') BY <1>2, <1>3 DEF Worker, User, Opener, InOpening, Working
  <2> QED BY <1>1, <1>2, <1>3, <1>5, <1>7, <2>1, OrderlyKept DEF Same, Worker
<1> QED BY <1>6, <1>7 DEF IInv, Same

LEMMA InitCacheFeaturesKeeps == ASSUME IInv, NEW p \in Procs, InitCacheFeatures(p) PROVE IInv'
<1> DEFINE i == Rw(p)
           res == FeaturesCheck(i, proc[p].text)
<1>1. Shape /\ ProcOk(p) /\ proc[p].pc = "check" /\ Same BY DEF IInv, Shape, InitCacheFeatures
<1>2. proc[p].at = "rw" /\ Holder(p) /\ Opener(p) /\ proc[p].text \in Texts /\ i \in 2 .. Len(ino)
  BY <1>1 DEF ProcOk, Working, Usable, Before, Over, Holder, Opener, InOpening
<1>3. ASSUME NEW q \in Procs, User(q) \/ Worker(q), Rw(q) = i PROVE SameHash(p, q) /\ (Worker(q) => Opener(q)) /\ (~Worker(q) => User(q))
  <2>1. ProcOk(q) BY <1>1 DEF Shape
  <2>2. Holder(q) /\ (Worker(q) => Opener(q)) BY <2>1, <1>3 DEF User, Worker, Holder, ProcOk, Working, Before, Over, Opener, InOpening, Usable
  <2> QED BY <1>1, <1>2, <1>3, <2>2 DEF Shape
<1>4. CASE res = "ok" /\ Set(p, [proc[p] EXCEPT !.pc = "ready"])
  <2> DEFINE r == [proc[p] EXCEPT !.pc = "ready"]
  <2>1. DOMAIN r = Fields /\ r.mode = proc[p].mode /\ r.at = proc[p].at /\ r.text = proc[p].text /\ r.fds = proc[p].fds /\ r.pc = "ready"
    BY <1>1 DEF ProcOk, Fields
  <2>2. Set(p, r) BY <1>4
  <2> HIDE DEF r
  <2>3. proc'[p] = r BY <1>1, <2>2, SetIs
  <2>4. ino[i].feat = proc[p].text BY <1>2, <1>4 DEF FeaturesCheck, AaFeaturesIsEqual
  <2>5. ASSUME Orderly PROVE Found(p)' /\ Alone(p)
    <3>1. By(i, proc[p].text) BY <1>2, <2>4, <2>5 DEF Orderly, Texts
    <3>2. Found(p)' BY <1>1, <2>1, <2>3, <2>4, <3>1 DEF Found, Mine, By, Worker, Working, Rw, Same
    <3>3. ASSUME NEW q \in Procs, q # p, User(q) \/ Worker(q), Rw(q) = i PROVE proc[q].text = proc[p].text
      <4>1. Found(q) /\ Apart(p, q) BY <2>5 DEF Orderly
      <4>2. CASE Worker(q) BY <1>2, <1>3, <3>3, <4>1, <4>2 DEF Apart
      <4>3. CASE User(q) BY <4>1, <4>3, <3>3, <2>4, <1>2 DEF Found, Mine, Texts
      <4> QED BY <3>3, <4>2, <4>3
    <3> QED BY <2>1, <2>3, <3>2, <3>3 DEF Alone, Rw
  <2> QED BY <1>1, <2>1, <2>2, <2>5, WorkKeeps
<1>5. CASE res = "ENOENT" /\ Set(p, [proc[p] EXCEPT !.pc = "clear"])
  <2> DEFINE r == [proc[p] EXCEPT !.pc = "clear"]
  <2>1. DOMAIN r = Fields /\ r.mode = proc[p].mode /\ r.at = proc[p].at /\ r.text = proc[p].text /\ r.fds = proc[p].fds /\ r.pc = "clear"
    BY <1>1 DEF ProcOk, Fields
  <2>2. Set(p, r) BY <1>5
  <2> HIDE DEF r
  <2>3. proc'[p] = r BY <1>1, <2>2, SetIs
  <2>4. ino[i].feat = NoFile BY <1>2, <1>5 DEF FeaturesCheck
  <2>5. ASSUME Orderly PROVE Found(p)' /\ Alone(p)
    <3>1. ~User(p)' BY <1>2, <2>1, <2>3 DEF User, Opener, InOpening
    <3>2. Found(p)' BY <1>1, <2>1, <2>3, <2>4, <3>1 DEF Found, Mine, Rw, Same
    <3>3. ASSUME NEW q \in Procs, q # p, User(q) \/ Worker(q), Rw(q) = i, ino[i].live PROVE proc[q].text = proc[p].text
      <4>1. Apart(p, q) BY <2>5 DEF Orderly
      <4>2. CASE Worker(q) BY <1>2, <1>3, <3>3, <4>1, <4>2 DEF Apart
      <4>3. CASE User(q)
        <5>1. Lost(q) BY <4>3, <3>3, <2>4 DEF Lost, User, Holder
        <5> QED BY <5>1, <4>1, <4>3, <3>3, <1>2, <1>3 DEF Apart
      <4> QED BY <3>3, <4>2, <4>3
    <3> QED BY <2>1, <2>3, <3>2, <3>3 DEF Alone, Rw
  <2> QED BY <1>1, <2>1, <2>2, <2>5, WorkKeeps DEF Working
<1>6. CASE Fail(p) BY <1>1, <1>6, FailKeeps
<1> QED BY <1>4, <1>5, <1>6 DEF InitCacheFeatures

LEMMA ReadCacheKeeps == ASSUME IInv, NEW p \in Procs, ReadCache(p) PROVE IInv'
<1> DEFINE names == NamesIn(Rw(p))
           r == [proc[p] EXCEPT !.pc = "unlink", !.todo = names, !.ok = TRUE]
<1>1. Shape /\ ProcOk(p) /\ proc[p].pc = "clear" /\ Same /\ Set(p, r) BY DEF IInv, Shape, ReadCache
<1>2. DOMAIN ino[Rw(p)].ents \subseteq names BY DEF NamesIn
<1> HIDE DEF names
<1>3. DOMAIN r = Fields /\ r.mode = proc[p].mode /\ r.at = proc[p].at /\ r.text = proc[p].text /\ r.fds = proc[p].fds /\ r.pc = "unlink"
      /\ r.todo = names
  BY <1>1 DEF ProcOk, Fields
<1> HIDE DEF r
<1>4. proc'[p] = r BY <1>1, SetIs
<1>5. ASSUME Orderly PROVE Found(p)'
  <2>1. Found(p) /\ Worker(p) BY <1>1, <1>5 DEF Orderly, Worker, Working
  <2>2. ~User(p)' BY <1>1, <1>3, <1>4 DEF User, Opener, InOpening, ProcOk, Usable
  <2> QED BY <1>1, <1>2, <1>3, <1>4, <2>1, <2>2 DEF Found, Mine, Rw, Same
<1> QED BY <1>1, <1>3, <1>5, WorkKeeps DEF Working

LEMMA CacheClearedKeeps == ASSUME IInv, NEW p \in Procs, CacheCleared(p) PROVE IInv'
<1> DEFINE r == [proc[p] EXCEPT !.pc = "truncate"]
<1>1. Shape /\ ProcOk(p) /\ proc[p].pc = "unlink" /\ proc[p].todo = {} /\ Same BY DEF IInv, Shape, CacheCleared
<1>2. CASE Fail(p) BY <1>1, <1>2, FailKeeps
<1>3. CASE Set(p, r)
  <2>1. DOMAIN r = Fields /\ r.mode = proc[p].mode /\ r.at = proc[p].at /\ r.text = proc[p].text /\ r.fds = proc[p].fds /\ r.pc = "truncate"
    BY <1>1 DEF ProcOk, Fields
  <2> HIDE DEF r
  <2>2. proc'[p] = r BY <1>1, <1>3, SetIs
  <2>3. ASSUME Orderly PROVE Found(p)'
    <3>1. Found(p) /\ Worker(p) BY <1>1, <2>3 DEF Orderly, Worker, Working
    <3>2. ~User(p)' BY <1>1, <2>1, <2>2 DEF User, Opener, InOpening, ProcOk, Usable
    <3> QED BY <1>1, <2>1, <2>2, <3>1, <3>2 DEF Found, Mine, By, Rw, Same
  <2> QED BY <1>1, <1>3, <2>1, <2>3, WorkKeeps DEF Working
<1> QED BY <1>2, <1>3 DEF CacheCleared
-----------------------------------------------------------------------------
(* A program goes on with its open cache.                                   *)
LEMMA UseKeeps ==
    ASSUME IInv, NEW p \in Procs, NEW r, Set(p, r), Same, proc[p].pc \in Usable,
           DOMAIN r = Fields, r.mode = proc[p].mode, r.text = proc[p].text, r.fds = proc[p].fds,
           r.pc \in Usable \union {"look"}, r.at = proc[p].at \/ r.at = "ro", r.pc = "look" => r.at = "ro"
    PROVE  IInv'
<1>1. Shape /\ ProcOk(p) BY DEF IInv, Shape
<1>2. proc'[p] = r BY <1>1, SetIs
<1>3. User(p) /\ proc[p].text \in Texts BY <1>1 DEF ProcOk, User, Holder, Opener, InOpening, Usable, Before, Over
<1>4. ProcOk(p)' BY <1>1, <1>2, <1>3 DEF ProcOk, Holder, Rw, Usable, Before, Over, Working, Same
<1> QED BY <1>3, <1>4, UserKeeps DEF Same, User, Holder

LEMMA AddRoDirKeeps == ASSUME IInv, NEW p \in Procs, AddRoDir(p) PROVE IInv'
<1> DEFINE r == [proc[p] EXCEPT !.pc = "look", !.at = "ro"]
<1>1. ProcOk(p) /\ proc[p].pc = "ready" /\ Same /\ Set(p, r) BY DEF IInv, Shape, AddRoDir
<1>2. DOMAIN r = Fields /\ r.mode = proc[p].mode /\ r.text = proc[p].text /\ r.fds = proc[p].fds /\ r.pc = "look" /\ r.at = "ro"
  BY <1>1 DEF ProcOk, Fields
<1> HIDE DEF r
<1> QED BY <1>1, <1>2, UseKeeps DEF Usable

LEMMA ReplaceAllPolicyKeeps == ASSUME IInv, NEW p \in Procs, ReplaceAllPolicy(p) PROVE IInv'
<1>1. ProcOk(p) /\ proc[p].pc = "ready" /\ Same BY DEF IInv, Shape, ReplaceAllPolicy
<1>2. CASE End(p, "overrun") BY <1>1, <1>2, EndKeeps DEF Same, Over
<1>3. ASSUME NEW items, NEW want,
             Set(p, [proc[p] EXCEPT !.pc = "replace", !.items = items, !.ok = TRUE, !.loaded = {}, !.want = want, !.clean = TRUE])
      PROVE  IInv'
  <2> DEFINE r == [proc[p] EXCEPT !.pc = "replace", !.items = items, !.ok = TRUE, !.loaded = {}, !.want = want, !.clean = TRUE]
  <2>1. DOMAIN r = Fields /\ r.mode = proc[p].mode /\ r.text = proc[p].text /\ r.fds = proc[p].fds /\ r.pc = "replace" /\ r.at = proc[p].at
    BY <1>1 DEF ProcOk, Fields
  <2>2. Set(p, r) BY <1>3
  <2> HIDE DEF r
  <2>3. proc[p].pc \in Usable /\ r.pc \in Usable \union {"look"} /\ r.pc # "look" BY <1>1, <2>1 DEF Usable
  <2> QED BY <1>1, <2>1, <2>2, <2>3, UseKeeps
<1> QED BY <1>2, <1>3 DEF ReplaceAllPolicy

LEMMA ReplaceOneKeeps == ASSUME IInv, NEW p \in Procs, ReplaceOne(p) PROVE IInv'
<1>1. ProcOk(p) /\ proc[p].pc = "replace" /\ Same BY DEF IInv, Shape, ReplaceOne
<1> DEFINE rest == [proc[p] EXCEPT !.items = Tail(@)]
<1>2. DOMAIN rest = Fields /\ rest.mode = proc[p].mode /\ rest.text = proc[p].text /\ rest.fds = proc[p].fds /\ rest.pc = "replace"
      /\ rest.at = proc[p].at
  BY <1>1 DEF ProcOk, Fields
<1>3. CASE Set(p, rest)
  <2> HIDE DEF rest
  <2>1. proc[p].pc \in Usable /\ rest.pc \in Usable \union {"look"} /\ rest.pc # "look" BY <1>1, <1>2 DEF Usable
  <2> QED BY <1>1, <1>2, <1>3, <2>1, UseKeeps
<1>4. CASE \E ok, loaded : Set(p, [rest EXCEPT !.ok = ok, !.loaded = loaded])
  <2> PICK ok, loaded : Set(p, [rest EXCEPT !.ok = ok, !.loaded = loaded]) BY <1>4
  <2> DEFINE r == [rest EXCEPT !.ok = ok, !.loaded = loaded]
  <2>1. Set(p, r) OBVIOUS
  <2> HIDE DEF rest
  <2>2. DOMAIN r = Fields /\ r.mode = proc[p].mode /\ r.text = proc[p].text /\ r.fds = proc[p].fds /\ r.pc = "replace" /\ r.at = proc[p].at
    BY <1>2 DEF Fields
  <2> HIDE DEF r
  <2>3. proc[p].pc \in Usable /\ r.pc \in Usable \union {"look"} /\ r.pc # "look" BY <1>1, <2>2 DEF Usable
  <2> QED BY <1>1, <2>1, <2>2, <2>3, UseKeeps
<1>5. CASE Set(p, [rest EXCEPT !.ok = FALSE])
  <2> DEFINE r == [rest EXCEPT !.ok = FALSE]
  <2>1. Set(p, r) BY <1>5
  <2> HIDE DEF rest
  <2>2. DOMAIN r = Fields /\ r.mode = proc[p].mode /\ r.text = proc[p].text /\ r.fds = proc[p].fds /\ r.pc = "replace" /\ r.at = proc[p].at
    BY <1>2 DEF Fields
  <2> HIDE DEF r
  <2>3. proc[p].pc \in Usable /\ r.pc \in Usable \union {"look"} /\ r.pc # "look" BY <1>1, <2>2 DEF Usable
  <2> QED BY <1>1, <2>1, <2>2, <2>3, UseKeeps
<1>6. \/ Set(p, rest) \/ Set(p, [rest EXCEPT !.ok = FALSE])
      \/ \E res : Set(p, [rest EXCEPT !.ok = res.ok, !.loaded = @ \union res.loaded])
  <2> HIDE DEF rest
  <2> QED BY DEF ReplaceOne, rest
<1> HIDE DEF rest
<1> QED BY <1>3, <1>4, <1>5, <1>6

LEMMA ReplaceDoneKeeps == ASSUME IInv, NEW p \in Procs, ReplaceDone(p) PROVE IInv'
<1> DEFINE r == [proc[p] EXCEPT !.pc = "replaced"]
<1>1. ProcOk(p) /\ proc[p].pc = "replace" /\ Same /\ Set(p, r) BY DEF IInv, Shape, ReplaceDone
<1>2. DOMAIN r = Fields /\ r.mode = proc[p].mode /\ r.text = proc[p].text /\ r.fds = proc[p].fds /\ r.pc = "replaced" /\ r.at = proc[p].at
  BY <1>1 DEF ProcOk, Fields
<1> HIDE DEF r
<1>3. proc[p].pc \in Usable /\ r.pc \in Usable \union {"look"} /\ r.pc # "look" BY <1>1, <1>2 DEF Usable
<1> QED BY <1>1, <1>2, <1>3, UseKeeps
-----------------------------------------------------------------------------
(* A new directory is empty and has nobody in it.                           *)
LEMMA MkDirKeeps == ASSUME IInv, NEW p \in Procs, MkDir(p) PROVE IInv'
<1> DEFINE r == [proc[p] EXCEPT !.pc = "open"]
           d == proc[p].target
<1>1. Shape /\ ProcOk(p) /\ proc[p].pc = "mkdir" /\ Set(p, r) /\ UNCHANGED <<budget, raced>> BY DEF IInv, Shape, MkDir
<1>2. DOMAIN r = Fields /\ r.mode = proc[p].mode /\ r.text = proc[p].text /\ r.fds = proc[p].fds /\ r.pc = "open" /\ r.at = proc[p].at
      /\ r.target = d
  BY <1>1 DEF ProcOk, Fields
<1> HIDE DEF r
<1>3. proc[p].text \in Texts /\ d \in Dirs /\ d[1] = Hash(proc[p].text) /\ proc[p].at = "rw" /\ ~Holder(p) /\ Opener(p)
  BY <1>1 DEF ProcOk, Over, Usable, Before, Holder, Opener, InOpening
<1>4. CASE UNCHANGED <<loc, ino>> BY <1>1, <1>2, <1>3, <1>4, SeekKeeps DEF Same
<1>5. CASE Here(p)[d] = 0 /\ ino' = Append(ino, NewInode) /\ loc' = [loc EXCEPT !.rw[d] = Len(ino) + 1]
  <2>1. DOMAIN proc' = Procs /\ (\A q \in Procs : q # p => proc'[q] = proc[q]) /\ proc'[p] = r BY <1>1, SetIs
  <2>2. NewInode \in Inodes /\ NewInode.ents \in Ents /\ NewInode.live /\ NewInode.feat = NoFile /\ NewInode.writers = {}
        /\ DOMAIN NewInode.ents = {}
    <3>1. NoEnts \in [{} -> Entry] BY DEF NoEnts
    <3>2. NoEnts \in Ents BY <3>1 DEF Ents
    <3>4. NewInode \in Inodes BY <3>2 DEF NewInode, Inodes
    <3>5. DOMAIN NoEnts = {} BY DEF NoEnts
    <3> QED BY <3>2, <3>4, <3>5 DEF NewInode
  <2>3. ino \in Seq(Inodes) BY <1>1 DEF Shape
  <2> DEFINE k == Len(ino) + 1
  <2>4. ino' \in Seq(Inodes) /\ Len(ino') = k /\ k \in Nat /\ ino'[k] = NewInode /\ (\A i \in 1 .. Len(ino) : ino'[i] = ino[i])
    BY <1>5, <2>2, <2>3
  <2>5. \A q \in Procs : ProcOk(q) /\ (Holder(q) => Rw(q) \in 2 .. Len(ino)) BY <1>1 DEF Shape, ProcOk
  <2>6. \A q \in Procs : /\ (Holder(q)' <=> Holder(q)) /\ (Opener(q)' <=> Opener(q)) /\ (Worker(q)' <=> Worker(q)) /\ (User(q)' <=> User(q))
                         /\ Rw(q)' = Rw(q) /\ proc'[q].text = proc[q].text /\ proc'[q].todo = proc[q].todo
    <3>1. proc'[p].todo = proc[p].todo BY <1>1, <2>1 DEF r, ProcOk, Fields
    <3> QED BY <1>1, <1>2, <1>3, <2>1, <3>1 DEF Holder, Opener, Worker, Rw, User, InOpening, Working
  <2>7. Len(ino) \in Nat /\ 1 \in 1 .. Len(ino) BY <1>1 DEF Shape
  <2>8. /\ DOMAIN loc' = {"rw", "ro"} /\ loc'.ro = loc.ro
        /\ loc'.rw = [loc.rw EXCEPT ![d] = k]
    BY <1>1, <1>5 DEF Shape
  <2>9. loc'.rw \in [Dirs -> Nat] /\ loc'.rw[d] = k /\ \A e \in Dirs : e # d => loc'.rw[e] = loc.rw[e]
    BY <1>1, <1>3, <2>4, <2>8 DEF Shape
  <2> HIDE DEF k
  <2>10. Shape'
    <3>1. ino' \in Seq(Inodes) /\ 1 \in DOMAIN ino' BY <2>4, <2>7 DEF k
    <3>2. \A i \in 2 .. Len(ino') : ino'[i].ents \in Ents BY <1>1, <2>2, <2>4, <2>7 DEF k, Shape
    <3>3. \A e \in Dirs : loc'.rw[e] # 0 => loc'.rw[e] \in 2 .. Len(ino') /\ ino'[loc'.rw[e]].live
      <4> SUFFICES ASSUME NEW e \in Dirs, loc'.rw[e] # 0 PROVE loc'.rw[e] \in 2 .. Len(ino') /\ ino'[loc'.rw[e]].live OBVIOUS
      <4>1. CASE e = d BY <4>1, <2>2, <2>4, <2>7, <2>9 DEF k
      <4>2. CASE e # d
        <5>1. loc.rw[e] \in 2 .. Len(ino) /\ ino[loc.rw[e]].live /\ loc'.rw[e] = loc.rw[e] BY <4>2, <2>9, <1>1 DEF Shape
        <5> QED BY <5>1, <2>4, <2>7 DEF k
      <4> QED BY <4>1, <4>2
    <3>4. \A e \in Dirs : e # d => loc'.rw[e] # k BY <1>1, <2>7, <2>9 DEF Shape, k
    <3>5. \A e \in Dirs, g \in Dirs : loc'.rw[e] # 0 /\ loc'.rw[e] = loc'.rw[g] => e = g
      BY <1>1, <2>9, <3>4 DEF Shape
    <3>6. \A q \in Procs : ProcOk(q)'
      <4> SUFFICES ASSUME NEW q \in Procs PROVE ProcOk(q)' OBVIOUS
      <4>1. Holder(q)' => Rw(q)' \in 2 .. Len(ino') BY <2>4, <2>5, <2>6, <2>7 DEF k
      <4>2. CASE q = p BY <1>1, <1>2, <1>3, <2>1, <4>1, <4>2 DEF ProcOk, Holder, Usable, Before, Over, Working
      <4>3. CASE q # p BY <2>1, <2>5, <4>1, <4>3 DEF ProcOk, Holder
      <4> QED BY <4>2, <4>3
    <3>7. \A q \in Procs, e \in Dirs : (Holder(q) /\ loc.rw[e] = Rw(q) => Hash(proc[q].text) = e[1])'
      <4> SUFFICES ASSUME NEW q \in Procs, NEW e \in Dirs, Holder(q)', loc'.rw[e] = Rw(q)' PROVE Hash(proc'[q].text) = e[1]
        BY DEF Dirs
      <4>1. Holder(q) /\ Rw(q) \in 2 .. Len(ino) /\ loc'.rw[e] = Rw(q) BY <2>5, <2>6
      <4>2. loc'.rw[e] # k BY <4>1, <2>7 DEF k
      <4>3. loc.rw[e] = Rw(q) BY <4>1, <4>2, <2>9
      <4> QED BY <4>1, <4>3, <2>6, <1>1 DEF Shape
    <3>8. \A q, s \in Procs : (Holder(q) /\ Holder(s) /\ Rw(q) = Rw(s) => SameHash(q, s))'
      BY <2>6, <1>1 DEF Shape, SameHash
    <3>9. raced' \in BOOLEAN /\ loc'.ro \in [Dirs -> {0, 1}] BY <1>1, <2>8 DEF Shape
    <3> QED BY <3>1, <3>2, <3>3, <3>5, <3>6, <3>7, <3>8, <3>9, <2>1, <2>8, <2>9 DEF Shape, Dirs
  <2>11. ASSUME Orderly PROVE Orderly'
    <3>1. \A i \in 2 .. Len(ino') : Clean(i)'
      <4> SUFFICES ASSUME NEW i \in 2 .. Len(ino') PROVE Clean(i)' OBVIOUS
      <4>1. CASE i = k BY <4>1, <2>2, <2>4 DEF Clean
      <4>2. CASE i # k
        <5>1. i \in 2 .. Len(ino) /\ ino'[i] = ino[i] BY <4>2, <2>4, <2>7 DEF k
        <5> QED BY <5>1, <2>11 DEF Orderly, Clean
      <4> QED BY <4>1, <4>2
    <3>2. \A i \in 1 .. Len(ino') : (ino[i].feat \notin {NoFile, <<>>} => By(i, ino[i].feat))'
      <4> SUFFICES ASSUME NEW i \in 1 .. Len(ino'), ino'[i].feat \notin {NoFile, <<>>} PROVE By(i, ino[i].feat)' OBVIOUS
      <4>1. i # k BY <2>2, <2>4
      <4>2. i \in 1 .. Len(ino) /\ ino'[i] = ino[i] BY <4>1, <2>4, <2>7 DEF k
      <4> QED BY <4>2, <2>11 DEF Orderly, By
    <3>3. \A q \in Procs : Holder(q) => ino'[Rw(q)] = ino[Rw(q)] BY <2>4, <2>5, <2>7
    <3>4. \A q \in Procs : Worker(q) => Holder(q)
      BY <2>5 DEF Worker, Holder, ProcOk, Working, Before, Over
    <3>5. ASSUME NEW q \in Procs PROVE Found(q)'
      <4>1. Found(q) BY <2>11 DEF Orderly
      <4>2. CASE q = p BY <4>2, <1>2, <1>3, <2>1, <2>6 DEF Found, User, Worker, Working
      <4>3. CASE q # p
        <5>1. proc'[q] = proc[q] BY <4>3, <2>1
        <5>2. User(q) => Holder(q) BY DEF User
        <5>3. proc[q].pc \in {"unlink", "truncate", "write"} => Worker(q) BY DEF Worker, Working
        <5> QED BY <4>1, <5>1, <5>2, <5>3, <2>6, <3>3, <3>4 DEF Found, Mine, By
      <4> QED BY <4>2, <4>3
    <3>6. ASSUME NEW q \in Procs, NEW s \in Procs PROVE Apart(q, s)'
      <4>1. Apart(q, s) BY <2>11 DEF Orderly
      <4>2. (User(s) => (Lost(s)' <=> Lost(s))) BY <2>6, <3>3 DEF Lost, User, Holder
      <4>3. (Worker(q) \/ User(q)) => ino'[Rw(q)] = ino[Rw(q)] BY <3>3, <3>4 DEF User
      <4> QED BY <4>1, <4>2, <4>3, <2>6 DEF Apart, SameHash
    <3> QED BY <3>1, <3>2, <3>5, <3>6 DEF Orderly
  <2> QED BY <1>1, <2>10, <2>11 DEF IInv
<1> QED BY <1>4, <1>5 DEF MkDir
-----------------------------------------------------------------------------
(* Steps that change one directory.  Disturb changes nothing of a program   *)
(* but what it records of its load.                                         *)
Like(r, s) == /\ DOMAIN r = Fields /\ r.pc = s.pc /\ r.mode = s.mode /\ r.at = s.at /\ r.text = s.text /\ r.target = s.target
              /\ r.best = s.best /\ r.left = s.left /\ r.fds = s.fds /\ r.todo = s.todo
LEMMA DisturbIs ==
    ASSUME NEW procs, NEW i, \A q \in Procs : DOMAIN procs[q] = Fields
    PROVE  DOMAIN Disturb(procs, i) = Procs /\ \A q \in Procs : Like(Disturb(procs, i)[q], procs[q])
<1> SUFFICES ASSUME NEW q \in Procs PROVE Like(Disturb(procs, i)[q], procs[q]) BY DEF Disturb
<1>1. CASE i \in Range(procs[q].fds)
  <2>1. Disturb(procs, i)[q] = [procs[q] EXCEPT !.clean = FALSE] BY <1>1 DEF Disturb
  <2> QED BY <2>1 DEF Like, Fields
<1>2. CASE i \notin Range(procs[q].fds)
  <2>1. Disturb(procs, i)[q] = procs[q] BY <1>2 DEF Disturb
  <2> QED BY <2>1 DEF Like
<1> QED BY <1>1, <1>2

LEMMA LikeIsOk ==
    ASSUME NEW q, ProcOk(q), Like(proc'[q], proc[q]), Len(ino') = Len(ino)
    PROVE  ProcOk(q)'
BY DEF ProcOk, Like, Holder, Rw

Touched(i, new) == i \in 2 .. Len(ino) /\ ino' = [ino EXCEPT ![i] = new]
LEMMA ShapeTouched ==
    ASSUME Shape, NEW i, NEW new, Touched(i, new), new \in Inodes, new.ents \in Ents, new.live = ino[i].live, loc' = loc, raced' \in BOOLEAN, DOMAIN proc' = Procs,
           \A q \in Procs : ProcOk(q)' /\ proc'[q].text = proc[q].text /\ proc'[q].fds = proc[q].fds
    PROVE  Shape'
<1> i \in 2 .. Len(ino) /\ ino' = [ino EXCEPT ![i] = new] BY DEF Touched
<1>1. ino \in Seq(Inodes) /\ DOMAIN ino = 1 .. Len(ino) /\ Len(ino) \in Nat /\ i \in DOMAIN ino BY DEF Shape
<1>2. ino' \in Seq(Inodes) /\ Len(ino') = Len(ino) BY <1>1
<1>3. ino'[i] = new /\ \A j \in 1 .. Len(ino) : j # i => ino'[j] = ino[j] BY <1>1
<1>4. DOMAIN ino' = DOMAIN ino BY <1>1
<1>5. \A j \in 2 .. Len(ino') : ino'[j].ents \in Ents BY <1>1, <1>2, <1>3 DEF Shape
<1>6. \A d \in Dirs : loc.rw[d] # 0 => loc.rw[d] \in 2 .. Len(ino') /\ ino'[loc.rw[d]].live BY <1>1, <1>2, <1>3 DEF Shape
<1>7. \A p, q \in Procs : (Holder(p) /\ Holder(q) /\ Rw(p) = Rw(q) => SameHash(p, q))' BY DEF Shape, Holder, Rw, SameHash
<1>8. \A p \in Procs, d \in Dirs : (Holder(p) /\ loc.rw[d] = Rw(p) => Hash(proc[p].text) = d[1])' BY DEF Shape, Holder, Rw
<1> QED BY <1>2, <1>4, <1>5, <1>6, <1>7, <1>8 DEF Shape, Dirs

(* Programs elsewhere stand still; those in directory i find what they      *)
(* should, miss no .features that others could need, and agree.             *)
Still(i) == \A q \in Procs : /\ proc'[q].text = proc[q].text /\ proc'[q].fds = proc[q].fds /\ proc'[q].at = proc[q].at
                             /\ Opener(q)' => Opener(q)
                             /\ (Holder(q) /\ Rw(q) = i) \/ (proc'[q].pc = proc[q].pc /\ proc'[q].todo = proc[q].todo)
FindIn(i) == \A q \in Procs : Holder(q) /\ Rw(q) = i => Found(q)'
KeepIn(i) == \A q, s \in Procs : Opener(q) /\ User(s)' /\ Rw(s) = i /\ SameHash(q, s) /\ proc[q].text # proc[s].text => ~Lost(s)'
AgreeIn(i, live) == \A q, s \in Procs : (Worker(q) \/ User(q))' /\ User(s)' /\ Rw(q) = i /\ Rw(s) = i /\ live => proc[q].text = proc[s].text
LEMMA OrderlyTouched ==
    ASSUME Shape, Orderly, NEW i, NEW new, Touched(i, new), Still(i), Clean(i)', new.feat \notin {NoFile, <<>>} => By(i, new.feat)',
           FindIn(i), KeepIn(i), AgreeIn(i, new.live)
    PROVE  Orderly'
<1> USE DEF Still, FindIn, KeepIn, AgreeIn
<1> i \in 2 .. Len(ino) /\ ino' = [ino EXCEPT ![i] = new] BY DEF Touched
<1>1. DOMAIN ino = 1 .. Len(ino) /\ Len(ino) \in Nat /\ i \in DOMAIN ino BY DEF Shape
<1>2. ino'[i] = new /\ (\A j \in 1 .. Len(ino) : j # i => ino'[j] = ino[j]) /\ Len(ino') = Len(ino)
  <2>1. DOMAIN ino' = 1 .. Len(ino) BY <1>1
  <2>2. Len(ino') = Len(ino) BY <2>1, <1>1 DEF Shape
  <2> QED BY <1>1, <2>2
<1>3. \A q \in Procs : Rw(q)' = Rw(q) /\ (Holder(q)' <=> Holder(q)) BY DEF Rw, Holder
<1>4. \A q \in Procs : /\ ProcOk(q) /\ (User(q) => Holder(q)) /\ (Worker(q) => Holder(q)) /\ (Holder(q) => Rw(q) \in 1 .. Len(ino))
                       /\ (Lost(q) => Holder(q))
  <2> SUFFICES ASSUME NEW q \in Procs PROVE /\ ProcOk(q) /\ (User(q) => Holder(q)) /\ (Worker(q) => Holder(q))
                                           /\ (Holder(q) => Rw(q) \in 1 .. Len(ino)) /\ (Lost(q) => Holder(q))
    OBVIOUS
  <2>1. ProcOk(q) BY DEF Shape
  <2>2. Worker(q) => Holder(q) BY <2>1 DEF Worker, Holder, ProcOk, Working, Before, Over
  <2>3. Holder(q) => Rw(q) \in 1 .. Len(ino) BY <2>1, <1>1 DEF ProcOk
  <2> QED BY <2>1, <2>2, <2>3 DEF User, Lost, Holder
<1>5. \A q \in Procs : ~(Holder(q) /\ Rw(q) = i) => /\ (Opener(q)' <=> Opener(q)) /\ (User(q)' <=> User(q)) /\ (Worker(q)' <=> Worker(q))
                                                    /\ proc'[q].pc = proc[q].pc /\ proc'[q].todo = proc[q].todo
  BY <1>3 DEF Opener, User, Worker
<1>6. \A j \in 2 .. Len(ino') : Clean(j)'
  <2> SUFFICES ASSUME NEW j \in 2 .. Len(ino'), j # i PROVE Clean(j)' OBVIOUS
  <2>1. j \in 2 .. Len(ino) /\ ino'[j] = ino[j] BY <1>1, <1>2
  <2> QED BY <2>1 DEF Orderly, Clean
<1>7. \A j \in 1 .. Len(ino') : (ino[j].feat \notin {NoFile, <<>>} => By(j, ino[j].feat))'
  <2> SUFFICES ASSUME NEW j \in 1 .. Len(ino'), j # i, ino'[j].feat \notin {NoFile, <<>>} PROVE By(j, ino[j].feat)' BY <1>2 DEF By
  <2>1. j \in 1 .. Len(ino) /\ ino'[j] = ino[j] BY <1>1, <1>2
  <2> QED BY <2>1 DEF Orderly, By
<1>8. ASSUME NEW q \in Procs PROVE Found(q)'
  <2>1. CASE Holder(q) /\ Rw(q) = i BY <2>1
  <2>2. CASE ~(Holder(q) /\ Rw(q) = i)
    <3>1. Found(q) BY DEF Orderly
    <3>2. User(q)' <=> User(q) BY <2>2, <1>5
    <3>3. Worker(q)' <=> Worker(q) BY <2>2, <1>5
    <3>4. proc'[q].pc = proc[q].pc /\ proc'[q].todo = proc[q].todo BY <2>2, <1>5
    <3>5. proc[q].pc \in {"unlink", "truncate", "write"} => Worker(q) BY DEF Worker, Working
    <3>6. CASE Holder(q)
      <4>1. ino'[Rw(q)] = ino[Rw(q)] BY <3>6, <2>2, <1>2, <1>4
      <4> QED BY <4>1, <1>3, <3>1, <3>2, <3>3, <3>4 DEF Found, Mine, By
    <3>7. CASE ~Holder(q)
      <4>1. ~User(q)' /\ ~Worker(q)' /\ ~Worker(q) BY <3>2, <3>3, <3>7, <1>4
      <4> QED BY <4>1, <3>4, <3>5 DEF Found
    <3> QED BY <3>6, <3>7
  <2> QED BY <2>1, <2>2
<1>9. ASSUME NEW q \in Procs, NEW s \in Procs PROVE Apart(q, s)'
  <2>1. Apart(q, s) BY DEF Orderly
  <2>2. ASSUME Opener(q)', Opener(s)', SameHash(q, s)' PROVE proc'[q].text = proc'[s].text
    BY <2>1, <2>2 DEF Apart, SameHash
  <2>3. ASSUME Opener(q)', User(s)', SameHash(q, s)', proc'[q].text # proc'[s].text PROVE ~Lost(s)'
    <3>1. Opener(q) /\ SameHash(q, s) /\ proc[q].text # proc[s].text BY <2>3 DEF SameHash
    <3>2. CASE Holder(s) /\ Rw(s) = i BY <2>3, <3>1, <3>2
    <3>3. CASE ~(Holder(s) /\ Rw(s) = i)
      <4>1. User(s) /\ Holder(s) BY <3>3, <2>3, <1>4, <1>5
      <4>2. ~Lost(s) BY <4>1, <2>1, <3>1 DEF Apart
      <4>3. ino'[Rw(s)] = ino[Rw(s)] BY <4>1, <3>3, <1>2, <1>4
      <4> QED BY <4>1, <4>2, <4>3, <1>3 DEF Lost, Holder
    <3> QED BY <3>2, <3>3
  <2>4. ASSUME (Worker(q) \/ User(q))', User(s)', Rw(q)' = Rw(s)', ino'[Rw(q)'].live PROVE proc'[q].text = proc'[s].text
    <3>1. Rw(q) = Rw(s) BY <2>4, <1>3
    <3>2. CASE Rw(q) = i BY <2>4, <3>1, <3>2, <1>2, <1>3
    <3>3. CASE Rw(q) # i
      <4>1. (Worker(q) \/ User(q)) /\ User(s) BY <3>1, <3>3, <2>4, <1>5
      <4>2. ino'[Rw(q)] = ino[Rw(q)] BY <4>1, <3>3, <1>2, <1>4
      <4> QED BY <4>1, <4>2, <3>1, <2>1, <2>4, <1>3 DEF Apart
    <3> QED BY <3>2, <3>3
  <2> QED BY <2>2, <2>3, <2>4 DEF Apart
<1> QED BY <1>6, <1>7, <1>8, <1>9 DEF Orderly
-----------------------------------------------------------------------------
LEMMA Places ==
    ASSUME Shape, NEW p \in Procs
    PROVE  /\ ProcOk(p) /\ (Worker(p) => Holder(p) /\ Opener(p) /\ ~User(p)) /\ (User(p) => Holder(p)) /\ (Holder(p) => Rw(p) \in 2 .. Len(ino))
           /\ (Worker(p) \/ User(p) \/ proc[p].pc = "check" <=> Holder(p))
           /\ (User(p) \/ Opener(p) => proc[p].text \in Texts)
<1>1. ProcOk(p) BY DEF Shape
<1>2. Worker(p) => Holder(p) /\ Opener(p) /\ ~User(p)
  BY <1>1 DEF Worker, Holder, Opener, User, ProcOk, Working, InOpening, Before, Over, Usable
<1>3. Worker(p) \/ User(p) \/ proc[p].pc = "check" <=> Holder(p)
  BY <1>1, <1>2 DEF ProcOk, User, Holder, Worker, Opener, InOpening, Working, Before, Over
<1>4. Opener(p) => proc[p].text \in Texts BY <1>1 DEF ProcOk, Opener, InOpening, Over
<1>5. Holder(p) => proc[p].text \in Texts
  <2>1. CASE proc[p].at = "ro" BY <1>1, <2>1 DEF ProcOk, Usable, Over
  <2>2. CASE proc[p].at = "rw" BY <1>1, <2>2 DEF ProcOk, Holder, Before, Over
  <2> QED BY <1>1, <2>1, <2>2 DEF ProcOk
<1> QED BY <1>1, <1>2, <1>3, <1>4, <1>5 DEF User, ProcOk

LEMMA SharersAgree ==
    ASSUME Shape, Orderly, NEW p \in Procs, NEW q \in Procs, Worker(p) \/ User(p), Worker(q) \/ User(q), Rw(p) = Rw(q), ino[Rw(p)].live
    PROVE  proc[p].text = proc[q].text
<1>1. Apart(p, q) /\ Apart(q, p) BY DEF Orderly
<1>2. Holder(p) /\ Holder(q) /\ SameHash(p, q) /\ (Worker(p) => Opener(p)) /\ (Worker(q) => Opener(q)) BY Places DEF Shape
<1> QED BY <1>1, <1>2 DEF Apart

(* aa_policy_cache_remove of one name.                                      *)
LEMMA ClearCacheKeeps == ASSUME IInv, NEW p \in Procs, ClearCache(p) PROVE IInv'
<1> PICK i, n : i = Rw(p) /\ n = Min(proc[p].todo) OBVIOUS
<1> DEFINE procs == [proc EXCEPT ![p].todo = @ \ {n}, ![p].ok = @ /\ n \in NamesIn(i)]
<1> PICK new : new = Without(ino[i], n) OBVIOUS
<1>1. /\ Shape /\ ProcOk(p) /\ proc[p].pc = "unlink" /\ proc' = Disturb(procs, i) /\ ino' = [ino EXCEPT ![i] = Without(@, n)]
      /\ loc' = loc /\ raced' = raced /\ raced \in BOOLEAN
  BY DEF IInv, Shape, ClearCache
<1>2. Worker(p) /\ Opener(p) /\ Holder(p) /\ i \in 2 .. Len(ino) BY <1>1, Places DEF Worker, Working
<1>3. i \in DOMAIN ino /\ ino[i] \in Inodes /\ ino[i].ents \in Ents /\ DOMAIN ino = 1 .. Len(ino) /\ Len(ino) \in Nat
  BY <1>1, <1>2 DEF Shape
<1>4. ino' = [ino EXCEPT ![i] = new] /\ Touched(i, new) BY <1>1, <1>2, <1>3 DEF Touched
<1>5. PICK S \in SUBSET Names : ino[i].ents \in [S -> Entry] BY <1>3 DEF Ents
<1>6. /\ new \in Inodes /\ new.ents \in Ents /\ new.live = ino[i].live
      /\ DOMAIN new.ents \subseteq DOMAIN ino[i].ents /\ \A m \in DOMAIN new.ents : new.ents[m] = ino[i].ents[m] /\ m # n
      /\ n = DotFeatures => new.feat = NoFile /\ new.writers = {}
      /\ n # DotFeatures => new.feat = ino[i].feat /\ new.writers = ino[i].writers
  <2>1. CASE n = DotFeatures
    <3>1. new = [ino[i] EXCEPT !.feat = NoFile, !.writers = {}] BY <2>1 DEF Without
    <3>2. \A m \in DOMAIN ino[i].ents : m # n BY <1>5, <2>1, NamesAssumption
    <3>3. new \in Inodes /\ new.ents = ino[i].ents /\ new.live = ino[i].live /\ new.feat = NoFile /\ new.writers = {}
      BY <3>1, <1>3 DEF Inodes
    <3> QED BY <3>2, <3>3, <1>3, <2>1
  <2>2. CASE n # DotFeatures
    <3> DEFINE ents == [m \in DOMAIN ino[i].ents \ {n} |-> ino[i].ents[m]]
    <3>1. new = [ino[i] EXCEPT !.ents = ents] BY <2>2, <1>3 DEF Without, Inodes
    <3>2. ents \in [S \ {n} -> Entry] /\ S \ {n} \in SUBSET Names BY <1>5
    <3>3. ents \in Ents BY <3>2 DEF Ents
    <3>4. new \in Inodes /\ new.ents = ents /\ new.live = ino[i].live /\ new.feat = ino[i].feat /\ new.writers = ino[i].writers
      <4> HIDE DEF ents
      <4> QED BY <3>1, <3>3, <1>3 DEF Inodes
    <3> QED BY <3>3, <3>4, <2>2
  <2> QED BY <2>1, <2>2
<1>7. /\ DOMAIN proc' = Procs /\ \A q \in Procs : q # p => Like(proc'[q], proc[q])
      /\ DOMAIN proc'[p] = Fields /\ proc'[p].pc = "unlink" /\ proc'[p].todo = proc[p].todo \ {n} /\ proc'[p].fds = proc[p].fds
      /\ proc'[p].text = proc[p].text /\ proc'[p].at = proc[p].at /\ proc'[p].mode = proc[p].mode
  <2>0. DOMAIN proc = Procs /\ \A q \in Procs : DOMAIN proc[q] = Fields BY <1>1 DEF Shape, ProcOk
  <2>1. DOMAIN procs[p] = Fields /\ procs[p].pc = "unlink" /\ procs[p].todo = proc[p].todo \ {n} /\ procs[p].fds = proc[p].fds
        /\ procs[p].text = proc[p].text /\ procs[p].at = proc[p].at /\ procs[p].mode = proc[p].mode
    BY <1>1, <2>0 DEF Fields
  <2>2. \A q \in Procs : q # p => procs[q] = proc[q] BY <2>0
  <2> HIDE DEF procs
  <2>3. \A q \in Procs : DOMAIN procs[q] = Fields BY <2>0, <2>1, <2>2
  <2>4. DOMAIN proc' = Procs /\ \A q \in Procs : Like(proc'[q], procs[q]) BY <1>1, <2>3, DisturbIs
  <2> QED BY <2>1, <2>2, <2>4 DEF Like
<1>8. \A q \in Procs : proc'[q].text = proc[q].text /\ proc'[q].fds = proc[q].fds /\ proc'[q].at = proc[q].at /\ proc'[q].pc = proc[q].pc
                       /\ (q # p => proc'[q].todo = proc[q].todo)
  <2>1. proc[p].pc = "unlink" BY <1>1
  <2>2. \A q \in Procs : q # p => Like(proc'[q], proc[q]) BY <1>7
  <2>3. \A q \in Procs : q # p => /\ proc'[q].text = proc[q].text /\ proc'[q].fds = proc[q].fds /\ proc'[q].at = proc[q].at
                                 /\ proc'[q].pc = proc[q].pc /\ proc'[q].todo = proc[q].todo
    BY <2>2 DEF Like
  <2> QED BY <1>7, <2>1, <2>3
<1>9. \A q \in Procs : (Opener(q)' <=> Opener(q)) /\ (User(q)' <=> User(q)) /\ (Worker(q)' <=> Worker(q)) /\ Rw(q)' = Rw(q)
                       /\ (Holder(q)' <=> Holder(q))
  BY <1>8 DEF Opener, User, Worker, Rw, Holder
<1>10. Len(ino') = Len(ino) /\ ino'[i] = new BY <1>1, <1>3, <1>4 DEF Shape
<1>11. \A q \in Procs : ProcOk(q)'
  <2>1. ProcOk(p)' BY <1>1, <1>2, <1>7, <1>9, <1>10 DEF ProcOk, Holder, Working, Before, Over, Usable
  <2>2. ASSUME NEW q \in Procs, q # p PROVE ProcOk(q)'
    <3>1. ProcOk(q) /\ Like(proc'[q], proc[q]) BY <1>1, <1>7, <2>2 DEF Shape
    <3> QED BY <3>1, <1>10, LikeIsOk
  <2> QED BY <2>1, <2>2
<1>12. Shape' BY <1>1, <1>2, <1>4, <1>6, <1>7, <1>8, <1>11, ShapeTouched
<1>13. ASSUME Orderly PROVE Orderly'
  <2>1. Clean(i) /\ (ino[i].feat \notin {NoFile, <<>>} => By(i, ino[i].feat)) BY <1>2, <1>3, <1>13 DEF Orderly
  <2>2. Clean(i)'
    <3>1. ~new.live => new.feat = NoFile /\ DOMAIN new.ents = {} BY <2>1, <1>6 DEF Clean
    <3>2. new.feat = NoFile => new.writers = {} BY <2>1, <1>6 DEF Clean
    <3> QED BY <3>1, <3>2, <1>10 DEF Clean
  <2>3. new.feat \notin {NoFile, <<>>} => By(i, new.feat)' BY <2>1, <1>6, <1>10 DEF By
  <2>4. ASSUME NEW q \in Procs, Holder(q), Rw(q) = i PROVE Found(q)'
    <3>1. Found(q) BY <1>13 DEF Orderly
    <3>2. ino'[Rw(q)'] = new /\ ino[Rw(q)] = ino[i] BY <2>4, <1>9, <1>10
    <3>3. User(q)' => Mine(q)' /\ By(Rw(q), proc[q].text)' BY <3>1, <3>2, <1>6, <1>8, <1>9 DEF Found, Mine, By
    <3>4. Worker(q)' => Mine(q)' BY <3>1, <3>2, <1>6, <1>8, <1>9 DEF Found, Mine
    <3>5. proc'[q].pc \in {"truncate", "write"} => By(Rw(q), proc[q].text)' BY <3>1, <3>2, <1>6, <1>8 DEF Found, By
    <3>6. ASSUME proc'[q].pc = "unlink", NEW m \in DOMAIN new.ents, new.ents[m].by # proc[q].text PROVE m \in proc'[q].todo
      <4>1. m \in proc[q].todo BY <3>1, <3>2, <3>6, <1>6, <1>8 DEF Found
      <4> QED BY <4>1, <1>6, <1>7, <1>8
    <3> QED BY <3>2, <3>3, <3>4, <3>5, <3>6, <1>8 DEF Found
  <2>5. ASSUME NEW q \in Procs, NEW s \in Procs, Opener(q), User(s)', Rw(s) = i, SameHash(q, s), proc[q].text # proc[s].text
        PROVE  ~Lost(s)'
    <3>1. User(s) /\ Holder(s) BY <2>5, <1>1, <1>9, Places
    <3>2. CASE new.live
      <4>1. proc[p].text = proc[s].text BY <3>1, <3>2, <1>1, <1>2, <1>6, <1>13, <2>5, SharersAgree
      <4>2. Apart(q, p) BY <1>13 DEF Orderly
      <4> QED BY <4>1, <4>2, <2>5, <1>2 DEF Apart, SameHash
    <3>3. CASE ~new.live BY <3>3, <2>5, <1>9, <1>10 DEF Lost
    <3> QED BY <3>2, <3>3
  <2>6. ASSUME NEW q \in Procs, NEW s \in Procs, (Worker(q) \/ User(q))', User(s)', Rw(q) = i, Rw(s) = i, new.live
        PROVE  proc[q].text = proc[s].text
    BY <2>6, <1>1, <1>6, <1>9, <1>13, SharersAgree
  <2>7. Still(i) BY <1>2, <1>8, <1>9 DEF Still
  <2>8. FindIn(i) BY <2>4 DEF FindIn
  <2>9. KeepIn(i) BY <2>5 DEF KeepIn
  <2>10. AgreeIn(i, new.live) BY <2>6 DEF AgreeIn
  <2> QED BY <1>1, <1>4, <1>13, <2>2, <2>3, <2>7, <2>8, <2>9, <2>10, OrderlyTouched
<1> QED BY <1>1, <1>12, <1>13 DEF IInv
LEMMA OverwriteIs ==
    ASSUME NEW text \in Texts, NEW old \in Seq(STRING) \union {NoFile}
    PROVE  /\ Overwrite(old, text) \in Seq(STRING)
           /\ old \in {<<>>, text} => Overwrite(old, text) = text
<1>1. text \in Seq(STRING) /\ Len(text) \in Nat /\ Len(text) > 0
  <2>1. text \in Seq(STRING) /\ text # <<>> BY DEF Texts
  <2> QED BY <2>1
<1>2. \A s : text \o SubSeq(s, Len(text) + 1, Len(s)) = Overwrite(s, text) BY DEF Overwrite
<1>3. CASE old \in Seq(STRING)
  <2>1. SubSeq(old, Len(text) + 1, Len(old)) \in Seq(STRING) BY <1>1, <1>3
  <2>2. Overwrite(old, text) \in Seq(STRING)
    <3> PICK sub : sub = SubSeq(old, Len(text) + 1, Len(old)) OBVIOUS
    <3>1. sub \in Seq(STRING) BY <2>1
    <3>2. text \o sub \in Seq(STRING) BY <1>1, <3>1
    <3> QED BY <1>2, <3>2
  <2>3. ASSUME old \in {<<>>, text} PROVE SubSeq(old, Len(text) + 1, Len(old)) = <<>>
    <3>1. Len(text) + 1 > Len(old) /\ Len(old) \in Nat BY <1>1, <2>3
    <3> QED BY <1>1, <1>3, <3>1
  <2>4. ASSUME old \in {<<>>, text} PROVE Overwrite(old, text) = text
    <3>1. Overwrite(old, text) = text \o <<>> BY <2>3, <2>4, <1>2
    <3> QED BY <3>1, <1>1
  <2> QED BY <2>2, <2>4
<1>4. CASE old = NoFile
  <2>1. Len(old) = 1 /\ old # <<>> BY <1>4 DEF NoFile
  <2>2. SubSeq(old, Len(text) + 1, Len(old)) = <<>> BY <1>1, <2>1, <1>4 DEF NoFile
  <2>3. Overwrite(old, text) = text \o <<>> BY <2>2, <1>2
  <2>4. Overwrite(old, text) = text BY <2>3, <1>1
  <2> QED BY <1>1, <2>4
<1> QED BY <1>3, <1>4

(* What a program that goes on in its own directory leaves as it was.       *)
Steps(p, pc) == /\ DOMAIN proc' = Procs /\ (\A q \in Procs : q # p => proc'[q] = proc[q])
                /\ DOMAIN proc'[p] = Fields /\ proc'[p].pc = pc /\ proc'[p].mode = proc[p].mode /\ proc'[p].at = proc[p].at
                /\ proc'[p].text = proc[p].text /\ proc'[p].fds = proc[p].fds /\ proc'[p].todo = proc[p].todo
LEMMA StepsIs ==
    ASSUME Shape, NEW p \in Procs, NEW pc, Set(p, [proc[p] EXCEPT !.pc = pc])
    PROVE  Steps(p, pc)
<1> DEFINE r == [proc[p] EXCEPT !.pc = pc]
<1>1. ProcOk(p) BY DEF Shape
<1>2. DOMAIN r = Fields /\ r.pc = pc /\ r.mode = proc[p].mode /\ r.at = proc[p].at /\ r.text = proc[p].text /\ r.fds = proc[p].fds
      /\ r.todo = proc[p].todo
  BY <1>1 DEF ProcOk, Fields
<1>3. Set(p, r) OBVIOUS
<1> HIDE DEF r
<1>4. DOMAIN proc' = Procs /\ (\A q \in Procs : q # p => proc'[q] = proc[q]) /\ proc'[p] = r BY <1>3, SetIs
<1> QED BY <1>2, <1>4 DEF Steps

LEMMA StepsOk ==
    ASSUME Shape, NEW p \in Procs, NEW pc \in Working \union {"ready"}, Worker(p), Steps(p, pc), Len(ino') = Len(ino)
    PROVE  /\ \A q \in Procs : ProcOk(q)' /\ proc'[q].text = proc[q].text /\ proc'[q].fds = proc[q].fds /\ proc'[q].at = proc[q].at
           /\ \A q \in Procs : Rw(q)' = Rw(q) /\ (Holder(q)' <=> Holder(q)) /\ (Opener(q)' => Opener(q))
           /\ Still(Rw(p))
<1>1. Holder(p) /\ Opener(p) /\ proc[p].text \in Texts /\ ProcOk(p) /\ proc[p].at = "rw" BY Places DEF Opener
<1>2. ProcOk(p)' BY <1>1 DEF ProcOk, Steps, Holder, Rw, Working, Before, Over, Usable
<1>3. \A q \in Procs : q # p => ProcOk(q)' BY DEF Shape, ProcOk, Steps, Holder, Rw
<1>4. \A q \in Procs : proc'[q].text = proc[q].text /\ proc'[q].fds = proc[q].fds /\ proc'[q].at = proc[q].at BY DEF Steps
<1>5. \A q \in Procs : Rw(q)' = Rw(q) /\ (Holder(q)' <=> Holder(q)) /\ (Opener(q)' => Opener(q)) BY <1>1, <1>4 DEF Steps, Rw, Holder, Opener
<1>6. Still(Rw(p)) BY <1>1, <1>4, <1>5 DEF Still, Steps
<1> QED BY <1>2, <1>3, <1>4, <1>5, <1>6

(* aa_features_write_to_file: .features is opened and truncated.            *)
LEMMA TruncateKeeps == ASSUME IInv, NEW p \in Procs, Truncate(p) PROVE IInv'
<1>1. Shape /\ proc[p].pc = "truncate" /\ UNCHANGED <<loc, budget, raced>> /\ raced \in BOOLEAN BY DEF IInv, Shape, Truncate
<1>2. Worker(p) /\ Opener(p) /\ Holder(p) /\ Rw(p) \in 2 .. Len(ino) BY <1>1, Places DEF Worker, Working
<1>3. CASE ~ino[Rw(p)].live BY <1>1, <1>3, FailKeeps DEF Truncate, Same
<1>4. CASE ino[Rw(p)].live
  <2> PICK i : i = Rw(p) OBVIOUS
  <2> PICK new : new = [ino[i] EXCEPT !.feat = <<>>, !.writers = @ \union {p}] OBVIOUS
  <2>1. i \in DOMAIN ino /\ ino[i] \in Inodes /\ ino[i].ents \in Ents /\ DOMAIN ino = 1 .. Len(ino) /\ Len(ino) \in Nat
    BY <1>1, <1>2 DEF Shape
  <2>2. new \in Inodes /\ new.ents = ino[i].ents /\ new.live = ino[i].live /\ new.feat = <<>>
    <3>1. <<>> \in Seq(STRING) \union {NoFile} OBVIOUS
    <3>2. ino[i].writers \union {p} \in SUBSET Procs BY <2>1 DEF Inodes
    <3> QED BY <2>1, <3>1, <3>2 DEF Inodes
  <2>3. Touched(i, new)
    <3>1. ino' = [ino EXCEPT ![i].feat = <<>>, ![i].writers = @ \union {p}] BY <1>4 DEF Truncate
    <3>2. ino' = [ino EXCEPT ![i] = new] BY <3>1, <2>1
    <3> QED BY <3>2, <1>2 DEF Touched
  <2>4. Len(ino') = Len(ino) /\ ino'[i] = new BY <1>1, <2>1, <2>3 DEF Touched, Shape
  <2>5. Steps(p, "write") BY <1>1, <1>4, StepsIs DEF Truncate
  <2>6. "write" \in Working \union {"ready"} BY DEF Working
  <2>7. /\ \A q \in Procs : ProcOk(q)' /\ proc'[q].text = proc[q].text /\ proc'[q].fds = proc[q].fds /\ proc'[q].at = proc[q].at
        /\ \A q \in Procs : Rw(q)' = Rw(q) /\ (Holder(q)' <=> Holder(q)) /\ (Opener(q)' => Opener(q))
        /\ Still(i)
    BY <1>1, <1>2, <2>4, <2>5, <2>6, StepsOk
  <2>8. Shape' BY <1>1, <2>1, <2>2, <2>3, <2>5, <2>7, ShapeTouched DEF Steps
  <2>9. \A q \in Procs : (User(q)' <=> User(q)) /\ (Worker(q)' <=> Worker(q))
    BY <1>1, <1>2, <2>5 DEF Steps, User, Opener, Holder, Worker, Working, InOpening
  <2>10. ASSUME Orderly PROVE Orderly'
    <3>1. Clean(i)' BY <2>2, <2>4, <1>4 DEF Clean, NoFile
    <3>2. ASSUME NEW q \in Procs, Holder(q), Rw(q) = i PROVE Found(q)'
      <4>1. Found(q) BY <2>10 DEF Orderly
      <4>2. Rw(q)' = i /\ ino'[Rw(q)'] = new /\ proc'[q].text = proc[q].text BY <3>2, <2>4, <2>7
      <4>3. Mine(q)' BY <4>2, <2>2 DEF Mine
      <4>4. By(Rw(q), proc[q].text) => By(Rw(q), proc[q].text)' BY <3>2, <4>2, <2>2 DEF By
      <4>5. User(q)' => By(Rw(q), proc[q].text)' BY <4>1, <4>4, <2>9 DEF Found
      <4>6. CASE q = p
        <5>1. By(Rw(q), proc[q].text)' BY <1>1, <4>1, <4>4, <4>6 DEF Found
        <5> QED BY <4>3, <4>6, <5>1, <2>5 DEF Found, Steps
      <4>7. CASE q # p
        <5>1. proc'[q] = proc[q] BY <4>7, <2>5 DEF Steps
        <5>2. proc[q].pc \in {"truncate", "write"} => By(Rw(q), proc[q].text)' BY <4>1, <4>4 DEF Found
        <5>3. proc[q].pc = "unlink" => \A n \in DOMAIN new.ents : new.ents[n].by # proc[q].text => n \in proc[q].todo
          BY <4>1, <3>2, <2>2 DEF Found
        <5> QED BY <4>2, <4>3, <4>5, <5>1, <5>2, <5>3 DEF Found
      <4> QED BY <4>6, <4>7
    <3>3. FindIn(i) BY <3>2 DEF FindIn
    <3>4. KeepIn(i)
      <4> SUFFICES ASSUME NEW s \in Procs, Rw(s) = i PROVE ~Lost(s)' BY DEF KeepIn
      <4>1. ino'[Rw(s)'].feat = <<>> BY <2>2, <2>4, <2>7
      <4> QED BY <4>1 DEF Lost, NoFile
    <3>5. AgreeIn(i, new.live) BY <1>1, <2>2, <2>9, <2>10, SharersAgree DEF AgreeIn
    <3> QED BY <1>1, <2>2, <2>3, <2>7, <2>10, <3>1, <3>3, <3>4, <3>5, OrderlyTouched
  <2> QED BY <1>1, <2>8, <2>10 DEF IInv
<1> QED BY <1>3, <1>4

(* ... and written: a program that still has it open writes all of it.      *)
LEMMA WriteFeaturesKeeps == ASSUME IInv, NEW p \in Procs, WriteFeatures(p) PROVE IInv'
<1>1. Shape /\ proc[p].pc = "write" /\ UNCHANGED <<loc, budget, raced>> /\ raced \in BOOLEAN /\ Set(p, [proc[p] EXCEPT !.pc = "ready"])
  BY DEF IInv, Shape, WriteFeatures
<1>2. Worker(p) /\ Opener(p) /\ Holder(p) /\ Rw(p) \in 2 .. Len(ino) /\ proc[p].text \in Texts BY <1>1, Places DEF Worker, Working
<1>3. Steps(p, "ready") BY <1>1, StepsIs
<1>4. CASE p \notin ino[Rw(p)].writers
  <2>1. Same BY <1>1, <1>4 DEF WriteFeatures, Same
  <2>2. Holder(p)' /\ Rw(p)' = Rw(p) BY <1>2, <1>3 DEF Steps, Holder, Rw
  <2>3. ASSUME Orderly PROVE Found(p)' /\ Alone(p)
    <3>1. Found(p) BY <2>3 DEF Orderly
    <3>2. Mine(p) /\ By(Rw(p), proc[p].text) BY <3>1, <1>1, <1>2 DEF Found
    <3>3. ~Worker(p)' BY <1>3 DEF Worker, Working, Steps
    <3>4. Found(p)' BY <3>2, <3>3, <1>3, <2>1, <2>2 DEF Found, Mine, By, Steps, Same
    <3>5. Alone(p)
      <4> SUFFICES ASSUME NEW q \in Procs, User(q) \/ Worker(q), Rw(q) = Rw(p), ino[Rw(q)].live PROVE proc[q].text = proc[p].text
        BY <1>3, <2>2 DEF Alone, Steps
      <4> QED BY <1>1, <1>2, <2>3, SharersAgree
    <3> QED BY <3>4, <3>5
  <2> DEFINE r == [proc[p] EXCEPT !.pc = "ready"]
  <2>4. Set(p, r) /\ r = proc'[p] BY <1>1, SetIs
  <2> HIDE DEF r
  <2>5. r.pc \in Working \union {"ready"} /\ proc[p].pc \in {"check"} \union Working BY <1>1, <1>3, <2>4 DEF Steps, Working
  <2>6. DOMAIN r = Fields /\ r.mode = proc[p].mode /\ r.at = proc[p].at /\ r.text = proc[p].text /\ r.fds = proc[p].fds BY <1>3, <2>4 DEF Steps
  <2> QED BY <2>1, <2>3, <2>4, <2>5, <2>6, WorkKeeps
<1>5. CASE p \in ino[Rw(p)].writers
  <2> PICK i, text : i = Rw(p) /\ text = proc[p].text OBVIOUS
  <2> PICK new : new = [ino[i] EXCEPT !.feat = Overwrite(@, text), !.writers = @ \ {p}] OBVIOUS
  <2>1. i \in DOMAIN ino /\ ino[i] \in Inodes /\ ino[i].ents \in Ents /\ DOMAIN ino = 1 .. Len(ino) /\ Len(ino) \in Nat
    BY <1>1, <1>2 DEF Shape
  <2>2. new \in Inodes /\ new.ents = ino[i].ents /\ new.live = ino[i].live /\ new.feat = Overwrite(ino[i].feat, text)
    <3>1. ino[i].feat \in Seq(STRING) \union {NoFile} /\ text \in Texts BY <1>2, <2>1 DEF Inodes
    <3>2. Overwrite(ino[i].feat, text) \in Seq(STRING) BY <3>1, OverwriteIs
    <3> QED BY <2>1, <3>2 DEF Inodes
  <2>3. Touched(i, new)
    <3>1. ino' = [ino EXCEPT ![i].feat = Overwrite(@, text), ![i].writers = @ \ {p}] BY <1>5 DEF WriteFeatures
    <3>2. ino' = [ino EXCEPT ![i] = new] BY <3>1, <2>1
    <3> QED BY <3>2, <1>2 DEF Touched
  <2>4. Len(ino') = Len(ino) /\ ino'[i] = new BY <1>1, <2>1, <2>3 DEF Touched, Shape
  <2>7. /\ \A q \in Procs : ProcOk(q)' /\ proc'[q].text = proc[q].text /\ proc'[q].fds = proc[q].fds /\ proc'[q].at = proc[q].at
        /\ \A q \in Procs : Rw(q)' = Rw(q) /\ (Holder(q)' <=> Holder(q)) /\ (Opener(q)' => Opener(q))
        /\ Still(i)
    BY <1>1, <1>2, <1>3, <2>4, StepsOk
  <2>8. Shape' BY <1>1, <2>1, <2>2, <2>3, <1>3, <2>7, ShapeTouched DEF Steps
  <2>9. \A q \in Procs : (User(q)' => User(q) \/ Worker(q)) /\ (Worker(q)' => Worker(q))
    <3>1. \A q \in Procs : q # p => (User(q)' => User(q) \/ Worker(q)) /\ (Worker(q)' => Worker(q))
      BY <1>3 DEF Steps, User, Opener, Holder, Worker
    <3>2. ~Worker(p)' BY <1>3 DEF Worker, Working, Steps
    <3> QED BY <1>2, <3>1, <3>2
  <2>10. ASSUME Orderly PROVE Orderly'
    <3>1. Clean(i) /\ Found(p) BY <2>10, <1>2 DEF Orderly
    <3>2. ino[i].live /\ ino[i].feat # NoFile BY <3>1, <1>5 DEF Clean
    <3>3. ino[i].feat \in {<<>>, text} /\ By(i, text) BY <3>1, <3>2, <1>1, <1>2 DEF Found, Mine
    <3>4. new.feat = text /\ text \notin {NoFile, <<>>}
      <4>1. ino[i].feat \in Seq(STRING) \union {NoFile} /\ text \in Texts BY <1>2, <2>1 DEF Inodes
      <4> QED BY <4>1, <3>3, <2>2, OverwriteIs DEF Texts
    <3>5. Clean(i)' BY <2>2, <2>4, <3>2, <3>4 DEF Clean
    <3>6. By(i, text)' BY <3>3, <2>2, <2>4 DEF By
    <3>7. ASSUME NEW q \in Procs, User(q) \/ Worker(q), Rw(q) = i PROVE proc[q].text = text
      BY <1>1, <1>2, <2>10, <3>2, <3>7, SharersAgree
    <3>8. ASSUME NEW q \in Procs, Holder(q), Rw(q) = i PROVE Found(q)'
      <4>1. Found(q) BY <2>10 DEF Orderly
      <4>2. (User(q)' \/ Worker(q)' => Mine(q)' /\ proc[q].text = text) BY <3>4, <3>7, <3>8, <2>4, <2>7, <2>9 DEF Mine
      <4>3. User(q)' => By(Rw(q), proc[q].text)' BY <4>2, <3>6, <3>8, <2>7
      <4>4. CASE q = p BY <4>2, <4>3, <4>4, <1>3 DEF Found, Steps
      <4>5. CASE q # p
        <5>1. proc'[q] = proc[q] /\ Rw(q)' = i /\ ino'[Rw(q)'] = new BY <3>8, <4>5, <1>3, <2>4, <2>7 DEF Steps
        <5>2. By(Rw(q), proc[q].text) => By(Rw(q), proc[q].text)' BY <5>1, <3>8, <2>2 DEF By
        <5>3. proc[q].pc \in {"truncate", "write"} => By(Rw(q), proc[q].text)' BY <4>1, <5>2 DEF Found
        <5>4. proc[q].pc = "unlink" => \A n \in DOMAIN new.ents : new.ents[n].by # proc[q].text => n \in proc[q].todo
          BY <4>1, <3>8, <2>2 DEF Found
        <5> QED BY <4>2, <4>3, <5>1, <5>3, <5>4 DEF Found
      <4> QED BY <4>4, <4>5
    <3>9. FindIn(i) BY <3>8 DEF FindIn
    <3>10. KeepIn(i)
      <4> SUFFICES ASSUME NEW s \in Procs, Rw(s) = i PROVE ~Lost(s)' BY DEF KeepIn
      <4>1. ino'[Rw(s)'].feat = text BY <2>4, <2>7, <3>4
      <4> QED BY <4>1, <3>4 DEF Lost
    <3>11. AgreeIn(i, new.live) BY <3>7, <2>9 DEF AgreeIn
    <3> QED BY <1>1, <2>3, <2>7, <2>10, <3>4, <3>5, <3>6, <3>9, <3>10, <3>11, OrderlyTouched
  <2> QED BY <1>1, <2>8, <2>10 DEF IInv
<1> QED BY <1>4, <1>5
LEMMA Disturbed ==
    ASSUME Shape, NEW i, proc' = Disturb(proc, i) \/ proc' = proc, Len(ino') = Len(ino)
    PROVE  /\ DOMAIN proc' = Procs
           /\ \A q \in Procs : /\ ProcOk(q)' /\ proc'[q].text = proc[q].text /\ proc'[q].fds = proc[q].fds /\ proc'[q].at = proc[q].at
                               /\ proc'[q].pc = proc[q].pc /\ proc'[q].todo = proc[q].todo
           /\ \A q \in Procs : /\ Rw(q)' = Rw(q) /\ (Holder(q)' <=> Holder(q)) /\ (Opener(q)' <=> Opener(q)) /\ (User(q)' <=> User(q))
                               /\ (Worker(q)' <=> Worker(q))
           /\ \A j : Still(j)
<1>1. \A q \in Procs : ProcOk(q) /\ DOMAIN proc[q] = Fields BY DEF Shape, ProcOk
<1>2. DOMAIN proc' = Procs /\ \A q \in Procs : Like(proc'[q], proc[q])
  <2>1. CASE proc' = Disturb(proc, i) BY <1>1, <2>1, DisturbIs
  <2>2. CASE proc' = proc BY <1>1, <2>2 DEF Like, Shape
  <2> QED BY <2>1, <2>2
<1>3. \A q \in Procs : ProcOk(q)' BY <1>1, <1>2, LikeIsOk
<1>4. \A q \in Procs : /\ proc'[q].text = proc[q].text /\ proc'[q].fds = proc[q].fds /\ proc'[q].at = proc[q].at
                       /\ proc'[q].pc = proc[q].pc /\ proc'[q].todo = proc[q].todo
  BY <1>2 DEF Like
<1>5. \A q \in Procs : /\ Rw(q)' = Rw(q) /\ (Holder(q)' <=> Holder(q)) /\ (Opener(q)' <=> Opener(q)) /\ (User(q)' <=> User(q))
                       /\ (Worker(q)' <=> Worker(q))
  BY <1>4 DEF Rw, Holder, Opener, User, Worker
<1>6. \A j : Still(j) BY <1>4, <1>5 DEF Still
<1> QED BY <1>2, <1>3, <1>4, <1>5, <1>6

(* A compiled profile is renamed into the directory.                        *)
LEMMA WriteEntryKeeps == ASSUME IInv, NEW p \in Procs, WriteEntry(p) PROVE IInv'
<1> PICK i, text : i = Rw(p) /\ text = proc[p].text OBVIOUS
<1>1. Shape /\ proc[p].pc = "ready" /\ ino[i].live /\ proc' = Disturb(proc, i) /\ loc' = loc /\ raced' = raced /\ raced \in BOOLEAN
  BY DEF IInv, Shape, WriteEntry
<1>2. User(p) /\ Holder(p) /\ i \in 2 .. Len(ino) /\ text \in Texts
  <2>1. User(p) \/ Worker(p) \/ proc[p].pc = "check" <=> Holder(p) BY <1>1, Places
  <2>2. ProcOk(p) BY <1>1, Places
  <2>3. Holder(p) BY <1>1, <2>2 DEF ProcOk, Holder, Before, Over
  <2>4. User(p) BY <1>1, <2>1, <2>3 DEF Worker, Working
  <2> QED BY <1>1, <2>3, <2>4, Places
<1>3. PICK n \in Names, c \in Policies, kind \in {"file", "empty"} :
        ino' = [ino EXCEPT ![Rw(p)].ents = [m \in DOMAIN @ \union {n} |-> IF m = n THEN [kind |-> kind, pol |-> c, by |-> proc[p].text]
                                                                              ELSE @[m]]]
  BY DEF WriteEntry
<1> PICK e : e = [kind |-> kind, pol |-> c, by |-> text] OBVIOUS
<1> PICK ents : ents = [m \in DOMAIN ino[i].ents \union {n} |-> IF m = n THEN e ELSE ino[i].ents[m]] OBVIOUS
<1> PICK new : new = [ino[i] EXCEPT !.ents = ents] OBVIOUS
<1>4. i \in DOMAIN ino /\ ino[i] \in Inodes /\ ino[i].ents \in Ents /\ DOMAIN ino = 1 .. Len(ino) /\ Len(ino) \in Nat
  BY <1>1, <1>2 DEF Shape
<1>5. e \in Entry /\ e.by = text BY <1>2, <1>3 DEF Entry
<1>6. ents \in Ents
  <2>1. PICK S \in SUBSET Names : ino[i].ents \in [S -> Entry] BY <1>4 DEF Ents
  <2>2. ents \in [S \union {n} -> Entry] /\ S \union {n} \in SUBSET Names BY <2>1, <1>3, <1>5
  <2> QED BY <2>2 DEF Ents
<1>7. new \in Inodes /\ new.ents = ents /\ new.live = ino[i].live /\ new.feat = ino[i].feat /\ new.writers = ino[i].writers
  BY <1>4, <1>6 DEF Inodes
<1>8. \A m \in DOMAIN ents : ents[m].by = text \/ (m \in DOMAIN ino[i].ents /\ ents[m] = ino[i].ents[m]) BY <1>5
<1>9. Touched(i, new)
  <2>1. ino' = [ino EXCEPT ![i].ents = ents] BY <1>3, <1>4
  <2>2. ino' = [ino EXCEPT ![i] = new] BY <2>1, <1>4
  <2> QED BY <2>2, <1>2 DEF Touched
<1>10. Len(ino') = Len(ino) /\ ino'[i] = new BY <1>1, <1>4, <1>9 DEF Touched, Shape
<1>11. /\ DOMAIN proc' = Procs
       /\ \A q \in Procs : /\ ProcOk(q)' /\ proc'[q].text = proc[q].text /\ proc'[q].fds = proc[q].fds /\ proc'[q].at = proc[q].at
                           /\ proc'[q].pc = proc[q].pc /\ proc'[q].todo = proc[q].todo
       /\ \A q \in Procs : /\ Rw(q)' = Rw(q) /\ (Holder(q)' <=> Holder(q)) /\ (Opener(q)' <=> Opener(q)) /\ (User(q)' <=> User(q))
                           /\ (Worker(q)' <=> Worker(q))
       /\ Still(i)
  BY <1>1, <1>10, Disturbed
<1>12. Shape' BY <1>1, <1>6, <1>7, <1>9, <1>11, ShapeTouched
<1>13. ASSUME Orderly PROVE Orderly'
  <2>1. Clean(i) /\ Found(p) /\ (ino[i].feat \notin {NoFile, <<>>} => By(i, ino[i].feat)) BY <1>2, <1>4, <1>13 DEF Orderly
  <2>2. Mine(p) /\ By(i, text) BY <2>1, <1>2 DEF Found
  <2>3. By(i, text)' BY <2>2, <1>7, <1>8, <1>10 DEF By
  <2>4. Clean(i)' BY <2>1, <1>1, <1>7, <1>10 DEF Clean
  <2>5. new.feat \notin {NoFile, <<>>} => By(i, new.feat)' BY <2>2, <2>3, <1>7 DEF Mine
  <2>6. ASSUME NEW q \in Procs, User(q) \/ Worker(q), Rw(q) = i PROVE proc[q].text = text
    BY <1>1, <1>2, <1>13, <2>6, SharersAgree
  <2>7. ASSUME NEW q \in Procs, Holder(q), Rw(q) = i PROVE Found(q)'
    <3>1. Found(q) BY <1>13 DEF Orderly
    <3>2. Rw(q)' = i /\ ino'[Rw(q)'] = new /\ proc'[q].text = proc[q].text /\ proc'[q].pc = proc[q].pc /\ proc'[q].todo = proc[q].todo
      BY <2>7, <1>10, <1>11
    <3>3. Mine(q) => Mine(q)' BY <3>2, <2>7, <1>7 DEF Mine
    <3>4. User(q)' => Mine(q)' /\ By(Rw(q), proc[q].text)' BY <3>1, <3>2, <3>3, <2>3, <2>6, <2>7, <1>11 DEF Found
    <3>5. Worker(q)' => Mine(q)' BY <3>1, <3>3, <1>11 DEF Found
    <3>6. proc[q].pc \in Working => proc[q].text = text BY <2>6, <2>7 DEF Worker
    <3>7. proc[q].pc \in {"truncate", "write"} => By(Rw(q), proc[q].text)' BY <3>2, <3>6, <2>3 DEF Working
    <3>8. proc[q].pc = "unlink" => \A m \in DOMAIN ents : ents[m].by # proc[q].text => m \in proc[q].todo
      BY <3>1, <3>6, <2>7, <1>8 DEF Found, Working
    <3> QED BY <3>2, <3>4, <3>5, <3>7, <3>8, <1>7 DEF Found
  <2>8. FindIn(i) BY <2>7 DEF FindIn
  <2>9. KeepIn(i)
    <3> SUFFICES ASSUME NEW q \in Procs, NEW s \in Procs, Opener(q), User(s)', Rw(s) = i, SameHash(q, s), proc[q].text # proc[s].text
                 PROVE  ~Lost(s)'
      BY DEF KeepIn
    <3>1. User(s) /\ Apart(q, s) BY <1>11, <1>13 DEF Orderly
    <3>2. ~Lost(s) BY <3>1 DEF Apart
    <3>3. Rw(s)' = i /\ ino'[Rw(s)'] = new /\ proc'[s].fds = proc[s].fds BY <1>10, <1>11
    <3> QED BY <3>2, <3>3, <1>7 DEF Lost
  <2>10. AgreeIn(i, new.live) BY <2>6, <1>11 DEF AgreeIn
  <2> QED BY <1>1, <1>9, <1>11, <1>13, <2>4, <2>5, <2>8, <2>9, <2>10, OrderlyTouched
<1> QED BY <1>1, <1>12, <1>13 DEF IInv

(* A purge empties a directory; if a program has it open, they have met.    *)
LEMMA PurgeFilesKeeps == ASSUME IInv, NEW d \in Dirs, PurgeFiles(d) PROVE IInv'
<1> PICK i : i = loc.rw[d] OBVIOUS
<1> PICK new : new = [ino[i] EXCEPT !.feat = NoFile, !.ents = NoEnts, !.writers = {}] OBVIOUS
<1>1. /\ Shape /\ i # 0 /\ ino' = [ino EXCEPT ![i] = [@ EXCEPT !.feat = NoFile, !.ents = NoEnts, !.writers = {}]] /\ proc' = Disturb(proc, i)
      /\ loc' = loc /\ raced' = (raced \/ \E p \in Procs : i \in Range(proc[p].fds))
  BY DEF IInv, PurgeFiles
<1>2. i \in 2 .. Len(ino) /\ ino[i].live BY <1>1 DEF Shape
<1>3. i \in DOMAIN ino /\ ino[i] \in Inodes /\ DOMAIN ino = 1 .. Len(ino) /\ Len(ino) \in Nat BY <1>1, <1>2 DEF Shape
<1>4. NoEnts \in Ents /\ DOMAIN NoEnts = {}
  <2>1. NoEnts \in [{} -> Entry] BY DEF NoEnts
  <2> QED BY <2>1 DEF Ents
<1>5. new \in Inodes /\ new.ents = NoEnts /\ new.live = ino[i].live /\ new.feat = NoFile /\ new.writers = {} BY <1>3, <1>4 DEF Inodes
<1>6. Touched(i, new) BY <1>1, <1>2, <1>3 DEF Touched
<1>7. Len(ino') = Len(ino) /\ ino'[i] = new
  <2>1. ino' = [ino EXCEPT ![i] = new] /\ ino \in Seq(Inodes) BY <1>1, <1>6 DEF Touched, Shape
  <2>2. DOMAIN ino' = DOMAIN ino /\ ino'[i] = new BY <2>1, <1>3
  <2>3. ino' \in Seq(Inodes) BY <2>1, <1>3, <1>5
  <2>4. Len(ino') = Len(ino) BY <2>2, <2>3, <1>3
  <2> QED BY <2>2, <2>4
<1>8. /\ DOMAIN proc' = Procs
      /\ \A q \in Procs : /\ ProcOk(q)' /\ proc'[q].text = proc[q].text /\ proc'[q].fds = proc[q].fds /\ proc'[q].at = proc[q].at
      /\ \A q \in Procs : /\ Rw(q)' = Rw(q) /\ (Holder(q)' <=> Holder(q)) /\ (Opener(q)' <=> Opener(q)) /\ (User(q)' <=> User(q))
                          /\ (Worker(q)' <=> Worker(q))
      /\ Still(i)
  BY <1>1, <1>7, Disturbed
<1>9. Shape'
  <2>1. raced' \in BOOLEAN /\ Shape /\ loc' = loc BY <1>1
  <2>2. \A q \in Procs : ProcOk(q)' /\ proc'[q].text = proc[q].text /\ proc'[q].fds = proc[q].fds BY <1>8
  <2>3. new.ents \in Ents BY <1>4, <1>5
  <2> QED BY <1>5, <1>6, <1>8, <2>1, <2>2, <2>3, ShapeTouched
<1>10. ASSUME ~raced' PROVE Orderly'
  <2>1. ~raced /\ \A p \in Procs : i \notin Range(proc[p].fds) BY <1>1, <1>10
  <2>2. Orderly BY <2>1 DEF IInv
  <2>3. \A q \in Procs : Holder(q) => Rw(q) # i
    <3> SUFFICES ASSUME NEW q \in Procs, Holder(q) PROVE Rw(q) \in Range(proc[q].fds) BY <2>1
    <3>1. proc[q].fds \in Seq(Nat) /\ proc[q].fds # <<>> BY <1>1 DEF Shape, ProcOk, Holder
    <3>2. 1 \in DOMAIN proc[q].fds BY <3>1
    <3> QED BY <3>2 DEF Range, Rw
  <2>4. Clean(i)' BY <1>4, <1>5, <1>7 DEF Clean
  <2>5. FindIn(i) BY <2>3 DEF FindIn
  <2>6. KeepIn(i) /\ AgreeIn(i, new.live) BY <2>3, <1>1, <1>8, Places DEF KeepIn, AgreeIn
  <2> QED BY <1>1, <1>5, <1>6, <1>8, <2>2, <2>4, <2>5, <2>6, OrderlyTouched
<1> QED BY <1>9, <1>10 DEF IInv

(* ... and then removes the directory, if it is still empty.                *)
LEMMA PurgeDirKeeps == ASSUME IInv, NEW d \in Dirs, PurgeDir(d) PROVE IInv'
<1> PICK i : i = loc.rw[d] OBVIOUS
<1> PICK new : new = [ino[i] EXCEPT !.live = FALSE] OBVIOUS
<1>1. /\ Shape /\ i # 0 /\ NamesIn(i) = {} /\ ino' = [ino EXCEPT ![i].live = FALSE] /\ loc' = [loc EXCEPT !.rw[d] = 0]
      /\ proc' = proc /\ raced' = raced /\ raced \in BOOLEAN
  BY DEF IInv, PurgeDir, Shape
<1>2. i \in 2 .. Len(ino) /\ ino[i].live BY <1>1 DEF Shape
<1>3. /\ i \in DOMAIN ino /\ ino[i] \in Inodes /\ ino[i].ents \in Ents /\ DOMAIN ino = 1 .. Len(ino) /\ Len(ino) \in Nat
      /\ ino \in Seq(Inodes)
  BY <1>1, <1>2 DEF Shape
<1>4. new \in Inodes /\ new.ents = ino[i].ents /\ new.live = FALSE /\ new.feat = ino[i].feat /\ new.writers = ino[i].writers
  BY <1>3 DEF Inodes
<1>5. ino' = [ino EXCEPT ![i] = new] /\ Touched(i, new) BY <1>1, <1>2, <1>3 DEF Touched
<1>6. Len(ino') = Len(ino) /\ ino'[i] = new /\ ino' \in Seq(Inodes) /\ DOMAIN ino' = DOMAIN ino /\ \A j \in 1 .. Len(ino) : j # i => ino'[j] = ino[j]
  <2>1. DOMAIN ino' = DOMAIN ino /\ ino'[i] = new /\ \A j \in 1 .. Len(ino) : j # i => ino'[j] = ino[j] BY <1>3, <1>5
  <2>2. ino' \in Seq(Inodes) BY <1>3, <1>4, <1>5
  <2>3. Len(ino') = Len(ino) BY <2>1, <2>2, <1>3
  <2> QED BY <2>1, <2>2, <2>3
<1>7. ino[i].feat = NoFile /\ DOMAIN ino[i].ents = {} BY <1>1 DEF NamesIn
<1>8. /\ \A q \in Procs : /\ ProcOk(q)' /\ proc'[q].text = proc[q].text /\ proc'[q].fds = proc[q].fds /\ proc'[q].at = proc[q].at
                          /\ proc'[q].pc = proc[q].pc /\ proc'[q].todo = proc[q].todo
      /\ \A q \in Procs : /\ Rw(q)' = Rw(q) /\ (Holder(q)' <=> Holder(q)) /\ (Opener(q)' <=> Opener(q)) /\ (User(q)' <=> User(q))
                          /\ (Worker(q)' <=> Worker(q))
      /\ Still(i)
  BY <1>1, <1>6, Disturbed
<1>9. Shape'
  <2>1. DOMAIN loc' = {"rw", "ro"} /\ loc'.ro = loc.ro /\ loc'.rw = [loc.rw EXCEPT ![d] = 0] BY <1>1 DEF Shape
  <2>2. loc'.rw \in [Dirs -> Nat] /\ loc'.rw[d] = 0 /\ \A e \in Dirs : e # d => loc'.rw[e] = loc.rw[e] BY <1>1, <2>1 DEF Shape
  <2>3. \A e \in Dirs : loc'.rw[e] # 0 => loc'.rw[e] = loc.rw[e] /\ loc'.rw[e] # i BY <1>1, <2>2 DEF Shape
  <2>4. \A e \in Dirs : loc'.rw[e] # 0 => loc'.rw[e] \in 2 .. Len(ino') /\ ino'[loc'.rw[e]].live BY <1>1, <1>3, <1>6, <2>3 DEF Shape
  <2>5. \A e \in Dirs, g \in Dirs : loc'.rw[e] # 0 /\ loc'.rw[e] = loc'.rw[g] => e = g BY <1>1, <2>3 DEF Shape
  <2>6. \A j \in 2 .. Len(ino') : ino'[j].ents \in Ents BY <1>1, <1>3, <1>4, <1>6 DEF Shape
  <2>7. \A q \in Procs, e \in Dirs : (Holder(q) /\ loc.rw[e] = Rw(q) => Hash(proc[q].text) = e[1])'
    <3> SUFFICES ASSUME NEW q \in Procs, NEW e \in Dirs, Holder(q)', loc'.rw[e] = Rw(q)' PROVE Hash(proc'[q].text) = e[1]
      BY DEF Dirs
    <3>1. Holder(q) /\ Rw(q) \in 2 .. Len(ino) /\ loc'.rw[e] = Rw(q) BY <1>1, <1>8, Places
    <3>2. loc.rw[e] = Rw(q) BY <2>3, <3>1
    <3> QED BY <3>1, <3>2, <1>1 DEF Shape
  <2>8. \A q, s \in Procs : (Holder(q) /\ Holder(s) /\ Rw(q) = Rw(s) => SameHash(q, s))' BY <1>1, <1>8 DEF Shape, SameHash
  <2> QED BY <1>1, <1>3, <1>6, <1>8, <2>1, <2>2, <2>4, <2>5, <2>6, <2>7, <2>8 DEF Shape, Dirs
<1>10. ASSUME Orderly PROVE Orderly'
  <2>1. Clean(i) BY <1>2, <1>10 DEF Orderly
  <2>2. Clean(i)' BY <2>1, <1>4, <1>6, <1>7 DEF Clean
  <2>3. ASSUME NEW q \in Procs, Holder(q), Rw(q) = i PROVE Found(q)'
    <3>1. Found(q) BY <1>10 DEF Orderly
    <3>2. Rw(q)' = i /\ ino'[Rw(q)'] = new /\ proc' = proc BY <2>3, <1>1, <1>6, <1>8
    <3>3. Mine(q)' /\ By(Rw(q), proc[q].text)' BY <3>2, <1>4, <1>7 DEF Mine, By
    <3> QED BY <3>2, <3>3, <1>4, <1>7 DEF Found
  <2>4. FindIn(i) BY <2>3 DEF FindIn
  <2>5. KeepIn(i)
    <3> SUFFICES ASSUME NEW s \in Procs, Rw(s) = i PROVE ~Lost(s)' BY DEF KeepIn
    <3>1. Rw(s)' = i /\ ino'[Rw(s)'] = new BY <1>6, <1>8
    <3> QED BY <3>1, <1>4 DEF Lost
  <2>6. AgreeIn(i, new.live) BY <1>4 DEF AgreeIn
  <2> QED BY <1>1, <1>4, <1>5, <1>7, <1>8, <1>10, <2>2, <2>4, <2>5, <2>6, OrderlyTouched
<1> QED BY <1>1, <1>9, <1>10 DEF IInv
-----------------------------------------------------------------------------
(* ProcOk and the files at the start.  The read-only directory is inode 1.  *)
LEMMA InitIInv == ASSUME Init PROVE IInv
<1>1. PICK r \in RoDirs : /\ ino = <<[feat |-> r.feat, ents |-> r.ents, live |-> TRUE, writers |-> {}]>>
                          /\ loc = [rw |-> [d \in Dirs |-> 0], ro |-> [d \in Dirs |-> IF d = r.dir THEN 1 ELSE 0]]
  BY DEF Init
<1>2. PICK m \in Setups : proc = [p \in Procs |-> NewProc(m[p])] BY DEF Init
<1> DEFINE f == [feat |-> r.feat, ents |-> r.ents, live |-> TRUE, writers |-> {}]
<1>3. f \in Inodes /\ f.feat = r.feat /\ f.ents = r.ents
  <2>1. r.feat \in Seq(STRING) BY <1>1, RoDirsAssumption
  <2>2. r.ents \in {x.ents : x \in RoDirs} BY <1>1
  <2> QED BY <2>1, <2>2 DEF Inodes
<1>4. ino = <<f>> BY <1>1
<1> HIDE DEF f
<1>5. ino \in Seq(Inodes) /\ Len(ino) = 1 /\ DOMAIN ino = {1} /\ ino[1] = f BY <1>3, <1>4
<1>6. ASSUME NEW p \in Procs
      PROVE  /\ DOMAIN proc[p] = Fields /\ proc[p].pc = "features" /\ proc[p].at = "rw" /\ proc[p].mode = m[p] /\ proc[p].fds = <<>>
             /\ ProcOk(p) /\ ~Holder(p) /\ ~Opener(p) /\ ~User(p) /\ ~Worker(p)
  <2>1. proc[p] = NewProc(m[p]) BY <1>2
  <2>2. DOMAIN proc[p] = Fields /\ proc[p].pc = "features" /\ proc[p].at = "rw" /\ proc[p].mode = m[p] /\ proc[p].fds = <<>>
    BY <2>1 DEF NewProc, Fields
  <2>3. ~Holder(p) /\ ~Opener(p) /\ ~User(p) /\ ~Worker(p) BY <2>2 DEF Holder, Opener, InOpening, User, Worker, Working
  <2>4. proc[p].mode \in Modes BY <1>2, <2>2 DEF Modes
  <2>5. ProcOk(p) BY <2>2, <2>3, <2>4 DEF ProcOk, Before, Over
  <2> QED BY <2>2, <2>3, <2>5
<1>7. Shape
  <2>1. 1 \in DOMAIN ino /\ \A i \in 2 .. Len(ino) : ino[i].ents \in Ents BY <1>5
  <2>2. DOMAIN loc = {"rw", "ro"} /\ loc.rw \in [Dirs -> Nat] /\ loc.ro \in [Dirs -> {0, 1}] /\ \A d \in Dirs : loc.rw[d] = 0
    BY <1>1
  <2>3. DOMAIN proc = Procs /\ raced \in BOOLEAN BY <1>2 DEF Init
  <2> QED BY <1>5, <1>6, <2>1, <2>2, <2>3 DEF Shape
<1>8. Orderly
  <2>1. \A i \in 2 .. Len(ino) : Clean(i) BY <1>5
  <2>2. By(1, r.feat) BY <1>1, <1>3, <1>5, RoDirsAssumption DEF By
  <2>3. \A i \in 1 .. Len(ino) : ino[i].feat \notin {NoFile, <<>>} => By(i, ino[i].feat)
    <3> SUFFICES ASSUME NEW i \in 1 .. Len(ino) PROVE By(i, ino[i].feat) OBVIOUS
    <3>1. i = 1 BY <1>5
    <3> QED BY <3>1, <2>2, <1>3, <1>5
  <2>4. \A p \in Procs : Found(p) BY <1>6 DEF Found
  <2>5. \A p, q \in Procs : Apart(p, q) BY <1>6 DEF Apart
  <2> QED BY <2>1, <2>3, <2>4, <2>5 DEF Orderly
<1> QED BY <1>7, <1>8 DEF IInv

LEMMA NextIInv == ASSUME IInv, [Next]_vars PROVE IInv'
<1>1. CASE UNCHANGED vars
  <2>1. loc' = loc /\ ino' = ino /\ proc' = proc /\ raced' = raced BY <1>1 DEF vars
  <2>2. Shape' BY <2>1 DEF IInv, Shape, ProcOk, Holder, Rw, SameHash, Dirs
  <2>3. Orderly => Orderly'
    BY <2>1 DEF Orderly, Clean, By, Found, Apart, Mine, User, Worker, Holder, Opener, Lost, Rw, SameHash
  <2> QED BY <2>1, <2>2, <2>3 DEF IInv
<1>2. ASSUME NEW p \in Procs, Opening(p) PROVE IInv'
  <2>1. CASE ReadCacheFails(p) BY <2>1, FailKeeps DEF ReadCacheFails
  <2>2. CASE WriteFeaturesFails(p) BY <2>2, FailKeeps DEF WriteFeaturesFails
  <2> QED BY <1>2, <2>1, <2>2, LoadFeaturesKeeps, LookKeeps, CacheMissKeeps, NoMatchKeeps, OpenDirKeeps, MkDirKeeps,
             InitCacheFeaturesKeeps, ReadCacheKeeps, ClearCacheKeeps, CacheClearedKeeps, TruncateKeeps, WriteFeaturesKeeps DEF Opening
<1>3. ASSUME NEW p \in Procs, Using(p) PROVE IInv'
  <2>1. CASE Unref(p) BY <2>1, EndKeeps DEF Unref, Same, Over
  <2> QED BY <1>3, <2>1, AddRoDirKeeps, WriteEntryKeeps, ReplaceAllPolicyKeeps, ReplaceOneKeeps, ReplaceDoneKeeps DEF Using
<1>4. ASSUME NEW p \in Procs, Crash(p) PROVE IInv' BY <1>4, EndKeeps DEF Crash, Over
<1>5. ASSUME NEW d \in Dirs, PurgeFiles(d) \/ PurgeDir(d) PROVE IInv' BY <1>5, PurgeFilesKeeps, PurgeDirKeeps
<1> QED BY <1>1, <1>2, <1>3, <1>4, <1>5 DEF Next

(* A directory with a whole .features holds entries of these features only, *)
(* for any number of programs, hashes, read-only directories and writes     *)
(* (init_cache_features, create_cache), unless programs of the same hash    *)
(* met in the ways CacheMatches names.                                      *)
THEOREM CacheMatchesThm == Spec => []CacheMatches
<1>1. IInv => CacheMatches
  <2> SUFFICES ASSUME IInv, ~raced PROVE CacheMatches BY DEF CacheMatches
  <2>1. Orderly /\ DOMAIN ino = 1 .. Len(ino) BY DEF IInv, Shape
  <2> QED BY <2>1 DEF CacheMatches, Orderly, By
<1> QED BY <1>1, InitIInv, NextIInv, PTL DEF Spec
-----------------------------------------------------------------------------
(***************************************************************************)
(* Loads of all policies.  An entry of a directory is a policy under a     *)
(* name; what is still to be loaded of an item is what its directory holds *)
(* under its name.                                                         *)
(***************************************************************************)
Listing(e) == /\ DOMAIN e \subseteq Nat \ {DotFeatures} /\ IsFiniteSet(DOMAIN e)
              /\ \A n \in DOMAIN e : e[n].kind \in Kinds /\ IsPolicy(e[n].pol)
Content(i, n) == IF Loads(i, n) THEN ProfilesIn(ino[i].ents[n].pol.bytes) ELSE {}
Due(p) == UNION {Content(proc[p].fds[it.dir], it.name) : it \in Range(proc[p].items)}
InLoad(p) == proc[p].pc \in {"replace", "replaced"} /\ proc[p].ok /\ proc[p].clean
(* What is left of the overlay has each name once, where it can be opened.  *)
InOrder(p) == /\ ByName(proc[p].items)
              /\ \A it \in Range(proc[p].items) : it.name # DotFeatures => proc[p].fds[it.dir] = CacheOpen(p, it.name)
(* A load that is under way and undisturbed has loaded what it should but   *)
(* for what the rest of the overlay still holds.                            *)
Loading(p) == /\ proc[p].items \in Seq([dir : DOMAIN proc[p].fds, name : Nat])
              /\ proc[p].want = proc[p].loaded \union Due(p)
              /\ InOrder(p) /\ (proc[p].pc = "replaced" => proc[p].items = <<>>)
LInv == /\ \A i \in 1 .. Len(ino) : Listing(ino[i].ents)
        /\ \A p \in Procs : proc[p].fds \in Seq(1 .. Len(ino)) /\ (InLoad(p) => Loading(p))

(* A step keeps this if no load that goes on sees its directories change.   *)
Spared(q) == InLoad(q)' => /\ InLoad(q) /\ proc'[q].items = proc[q].items /\ proc'[q].want = proc[q].want /\ proc'[q].fds = proc[q].fds
                           /\ proc'[q].loaded = proc[q].loaded /\ proc'[q].pc = proc[q].pc
                           /\ \A i \in Range(proc[q].fds) : ino'[i].ents = ino[i].ents
Eased(q) == proc'[q].fds \in Seq(1 .. Len(ino')) /\ Spared(q)
LEMMA CacheOpenKept ==
    ASSUME NEW q, proc'[q].fds = proc[q].fds, \A i \in Range(proc[q].fds) : ino'[i].ents = ino[i].ents, NEW n, n # DotFeatures
    PROVE  CacheOpen(q, n)' = CacheOpen(q, n)
<1> PICK fds : fds = proc[q].fds OBVIOUS
<1>1. ASSUME NEW k \in DOMAIN fds PROVE n \in NamesIn(fds[k])' <=> n \in NamesIn(fds[k])
  <2>1. fds[k] \in Range(fds) BY DEF Range
  <2>2. ino'[fds[k]].ents = ino[fds[k]].ents BY <2>1
  <2> QED BY <2>2 DEF NamesIn
<1>2. {k \in DOMAIN fds : n \in NamesIn(fds[k])'} = {k \in DOMAIN fds : n \in NamesIn(fds[k])} BY <1>1
<1> QED BY <1>2 DEF CacheOpen
LEMMA InOrderKept ==
    ASSUME NEW q, InOrder(q), proc'[q].items = proc[q].items, proc'[q].fds = proc[q].fds,
           \A i \in Range(proc[q].fds) : ino'[i].ents = ino[i].ents
    PROVE  InOrder(q)'
<1>1. \A n : n # DotFeatures => CacheOpen(q, n)' = CacheOpen(q, n) BY CacheOpenKept
<1> QED BY <1>1 DEF InOrder, ByName

LEMMA LoadingKept == ASSUME NEW q, Loading(q), InLoad(q)', Spared(q) PROVE Loading(q)'
<1>1. /\ proc'[q].items = proc[q].items /\ proc'[q].want = proc[q].want /\ proc'[q].fds = proc[q].fds
      /\ proc'[q].loaded = proc[q].loaded /\ proc'[q].pc = proc[q].pc
  BY DEF Spared
<1> PICK items, fds : items = proc[q].items /\ fds = proc[q].fds OBVIOUS
<1>2. ASSUME NEW it \in Range(items) PROVE Content(fds[it.dir], it.name)' = Content(fds[it.dir], it.name)
  <2>1. it.dir \in DOMAIN fds
    <3>1. PICK S : S = [dir : DOMAIN fds, name : Nat] OBVIOUS
    <3>2. items \in Seq(S) BY <3>1 DEF Loading
    <3>3. it \in S BY <3>2 DEF Range
    <3> QED BY <3>1, <3>3
  <2>2. fds[it.dir] \in Range(fds) BY <2>1 DEF Range
  <2>3. ino'[fds[it.dir]].ents = ino[fds[it.dir]].ents BY <2>2 DEF Spared
  <2> QED BY <2>3 DEF Content, Loads
<1>3. Due(q)' = UNION {Content(fds[it.dir], it.name)' : it \in Range(items)} BY <1>1 DEF Due
<1>4. Due(q) = UNION {Content(fds[it.dir], it.name) : it \in Range(items)} BY DEF Due
<1>5. Due(q)' = Due(q) BY <1>2, <1>3, <1>4
<1>6. InOrder(q)' BY <1>1, InOrderKept DEF Loading, Spared
<1> QED BY <1>1, <1>5, <1>6 DEF Loading

LEMMA LInvKept ==
    ASSUME LInv, \A i \in 1 .. Len(ino') : Listing(ino'[i].ents), \A q \in Procs : Eased(q)
    PROVE  LInv'
<1> SUFFICES ASSUME NEW q \in Procs PROVE proc'[q].fds \in Seq(1 .. Len(ino')) /\ (InLoad(q)' => Loading(q)')
  BY DEF LInv, Listing
<1>1. Eased(q) /\ (InLoad(q) => Loading(q)) BY DEF LInv
<1>2. InLoad(q)' => Loading(q)' BY <1>1, LoadingKept DEF Eased, Spared
<1> QED BY <1>1, <1>2 DEF Eased

(* A program that stays or comes outside of a load, and leaves the files.   *)
LEMMA LInvSet ==
    ASSUME Shape, LInv, NEW p \in Procs, NEW r, Set(p, r), ino' = ino, r.pc \notin {"replace", "replaced"},
           r.fds \in Seq(1 .. Len(ino))
    PROVE  LInv'
<1>1. proc'[p] = r /\ \A q \in Procs : q # p => proc'[q] = proc[q] BY SetIs
<1>2. \A i \in 1 .. Len(ino') : Listing(ino'[i].ents) BY DEF LInv
<1>3. ASSUME NEW q \in Procs PROVE Eased(q)
  <2>1. CASE q = p BY <1>1, <2>1 DEF Eased, Spared, InLoad
  <2>2. CASE q # p
    <3>1. proc'[q] = proc[q] /\ proc[q].fds \in Seq(1 .. Len(ino)) BY <1>1, <2>2 DEF LInv
    <3> QED BY <3>1 DEF Eased, Spared, InLoad
  <2> QED BY <2>1, <2>2
<1> QED BY <1>2, <1>3, LInvKept

LEMMA LInvEnd == ASSUME Shape, LInv, NEW p \in Procs, NEW how \in Over, End(p, how), ino' = ino PROVE LInv'
<1> DEFINE r == [NewProc(proc[p].mode) EXCEPT !.pc = how]
<1>1. Set(p, r) BY DEF End
<1>2. r.pc = how /\ r.fds = <<>> BY DEF NewProc
<1> HIDE DEF r
<1>3. r.fds \in Seq(1 .. Len(ino)) /\ r.pc \notin {"replace", "replaced"} BY <1>2 DEF Over
<1> QED BY <1>1, <1>2, <1>3, LInvSet

LEMMA LInvFail == ASSUME Shape, LInv, NEW p \in Procs, Fail(p), ino' = ino PROVE LInv'
<1>1. CASE ~(proc[p].pc \in {"look", "scan", "open"} /\ proc[p].at = "ro") BY <1>1, LInvEnd DEF Fail, Over
<1>2. CASE proc[p].pc \in {"look", "scan", "open"} /\ proc[p].at = "ro"
  <2> DEFINE r == [proc[p] EXCEPT !.pc = "ready", !.left = {}, !.best = -1]
  <2>1. Set(p, r) BY <1>2 DEF Fail
  <2>2. ProcOk(p) BY DEF Shape
  <2>3. r.pc = "ready" /\ r.fds = proc[p].fds BY <2>2 DEF ProcOk, Fields
  <2>4. proc[p].fds \in Seq(1 .. Len(ino)) BY DEF LInv
  <2> HIDE DEF r
  <2> QED BY <2>1, <2>3, <2>4, LInvSet
<1> QED BY <1>1, <1>2


(* The steps of an opening that leave the files alone.                      *)
LEMMA LInvLook == ASSUME Shape, LInv, NEW p \in Procs, LoadFeatures(p) \/ Look(p) \/ CacheMiss(p) \/ NoMatch(p) PROVE LInv'
<1>1. ProcOk(p) /\ proc[p].fds \in Seq(1 .. Len(ino)) BY DEF Shape, LInv
<1>2. ino' = ino BY DEF LoadFeatures, Look, CacheMiss, NoMatch, Same
<1> DEFINE Is(r) == r.pc \in {"look", "open", "scan"} /\ r.fds = proc[p].fds
<1>3. Fail(p) \/ \E r : Set(p, r) /\ Is(r)
  <2>1. CASE LoadFeatures(p)
    <3> PICK text : Fail(p) \/ Set(p, [proc[p] EXCEPT !.pc = "look", !.text = text]) BY <2>1 DEF LoadFeatures
    <3> DEFINE r == [proc[p] EXCEPT !.pc = "look", !.text = text]
    <3>1. Is(r) BY <1>1 DEF ProcOk, Fields
    <3> QED BY <3>1
  <2>2. CASE Look(p)
    <3> PICK d, left : Fail(p) \/ Set(p, [proc[p] EXCEPT !.pc = "open", !.target = d]) \/ Set(p, [proc[p] EXCEPT !.pc = "scan", !.best = -1, !.left = left])
      BY <2>2 DEF Look
    <3> DEFINE r == [proc[p] EXCEPT !.pc = "open", !.target = d]
               s == [proc[p] EXCEPT !.pc = "scan", !.best = -1, !.left = left]
    <3>1. Is(r) /\ Is(s) BY <1>1 DEF ProcOk, Fields
    <3> QED BY <3>1
  <2>3. CASE CacheMiss(p)
    <3> PICK d, best : Fail(p) \/ Set(p, [proc[p] EXCEPT !.pc = "open", !.target = d, !.left = {}]) \/ Set(p, [proc[p] EXCEPT !.left = @ \ {d}, !.best = best])
      BY <2>3 DEF CacheMiss
    <3> DEFINE r == [proc[p] EXCEPT !.pc = "open", !.target = d, !.left = {}]
               s == [proc[p] EXCEPT !.left = @ \ {d}, !.best = best]
    <3>1. Is(r) BY <1>1 DEF ProcOk, Fields
    <3>2. Is(s) BY <1>1, <2>3 DEF ProcOk, Fields, CacheMiss
    <3> QED BY <3>1, <3>2
  <2>4. CASE NoMatch(p)
    <3> PICK d : Set(p, [proc[p] EXCEPT !.pc = "open", !.target = d]) BY <2>4 DEF NoMatch
    <3> DEFINE r == [proc[p] EXCEPT !.pc = "open", !.target = d]
    <3>1. Is(r) BY <1>1 DEF ProcOk, Fields
    <3> QED BY <3>1
  <2> QED BY <2>1, <2>2, <2>3, <2>4
<1>4. ASSUME NEW r, Set(p, r), Is(r) PROVE LInv' BY <1>1, <1>2, <1>4, LInvSet
<1> QED BY <1>2, <1>3, <1>4, LInvFail

LEMMA LInvOpenDir == ASSUME Shape, LInv, NEW p \in Procs, OpenDir(p) PROVE LInv'
<1>1. ProcOk(p) /\ proc[p].fds \in Seq(1 .. Len(ino)) /\ proc[p].pc = "open" BY DEF Shape, LInv, OpenDir
<1>2. ino' = ino BY DEF OpenDir, Same
<1> PICK i : i = Here(p)[proc[p].target] OBVIOUS
<1>3. i # 0 => i \in 1 .. Len(ino)
  <2>1. proc[p].target \in Dirs /\ proc[p].at \in {"rw", "ro"} BY <1>1 DEF ProcOk
  <2>2. loc.rw[proc[p].target] # 0 => loc.rw[proc[p].target] \in 2 .. Len(ino) BY <2>1 DEF Shape
  <2>3. loc.ro[proc[p].target] \in {0, 1} BY <2>1 DEF Shape
  <2>4. 1 \in 1 .. Len(ino) /\ Len(ino) \in Nat BY DEF Shape
  <2> QED BY <2>1, <2>2, <2>3, <2>4 DEF Here
<1>4. CASE i # 0
  <2> PICK pc \in {"check", "ready"} : Set(p, [proc[p] EXCEPT !.pc = pc, !.fds = Append(@, i)]) BY <1>4 DEF OpenDir
  <2> DEFINE r == [proc[p] EXCEPT !.pc = pc, !.fds = Append(@, i)]
  <2>1. Set(p, r) OBVIOUS
  <2>2. r.pc = pc /\ r.fds = Append(proc[p].fds, i) BY <1>1 DEF ProcOk, Fields
  <2> HIDE DEF r
  <2>3. Append(proc[p].fds, i) \in Seq(1 .. Len(ino)) BY <1>1, <1>3, <1>4
  <2> QED BY <1>2, <2>1, <2>2, <2>3, LInvSet
<1>5. CASE i = 0
  <2> DEFINE r == [proc[p] EXCEPT !.pc = "mkdir"]
  <2>1. Set(p, r) \/ Fail(p) BY <1>5 DEF OpenDir
  <2>2. r.pc = "mkdir" /\ r.fds = proc[p].fds BY <1>1 DEF ProcOk, Fields
  <2> HIDE DEF r
  <2> QED BY <1>1, <1>2, <2>1, <2>2, LInvSet, LInvFail
<1> QED BY <1>4, <1>5

LEMMA LInvInit == ASSUME Shape, LInv, NEW p \in Procs,
                         InitCacheFeatures(p) \/ ReadCache(p) \/ ReadCacheFails(p) \/ CacheCleared(p) \/ WriteFeaturesFails(p) \/ AddRoDir(p)
                  PROVE  LInv'
<1>1. ProcOk(p) /\ proc[p].fds \in Seq(1 .. Len(ino)) BY DEF Shape, LInv
<1>2. ino' = ino BY DEF InitCacheFeatures, ReadCache, ReadCacheFails, CacheCleared, WriteFeaturesFails, AddRoDir, Same
<1> DEFINE Is(r) == r.pc \in {"ready", "clear", "unlink", "truncate", "look"} /\ r.fds = proc[p].fds
<1>3. \A pc \in {"ready", "clear", "truncate"} : Is([proc[p] EXCEPT !.pc = pc]) BY <1>1 DEF ProcOk, Fields
<1>4. Fail(p) \/ \E r : Set(p, r) /\ Is(r)
  <2>1. CASE ReadCache(p)
    <3> PICK todo : Set(p, [proc[p] EXCEPT !.pc = "unlink", !.todo = todo, !.ok = TRUE]) BY <2>1 DEF ReadCache
    <3> DEFINE r == [proc[p] EXCEPT !.pc = "unlink", !.todo = todo, !.ok = TRUE]
    <3>1. Is(r) BY <1>1 DEF ProcOk, Fields
    <3> QED BY <3>1
  <2>2. CASE AddRoDir(p)
    <3> Set(p, [proc[p] EXCEPT !.pc = "look", !.at = "ro"]) BY <2>2 DEF AddRoDir
    <3> DEFINE r == [proc[p] EXCEPT !.pc = "look", !.at = "ro"]
    <3>1. Is(r) BY <1>1 DEF ProcOk, Fields
    <3> QED BY <3>1
  <2>3. CASE InitCacheFeatures(p) \/ CacheCleared(p)
    <3>1. Fail(p) \/ \E pc \in {"ready", "clear", "truncate"} : Set(p, [proc[p] EXCEPT !.pc = pc]) BY <2>3 DEF InitCacheFeatures, CacheCleared
    <3> HIDE DEF Is
    <3> QED BY <1>3, <3>1
  <2> QED BY <2>1, <2>2, <2>3 DEF ReadCacheFails, WriteFeaturesFails
<1>5. ASSUME NEW r, Set(p, r), Is(r) PROVE LInv' BY <1>1, <1>2, <1>5, LInvSet
<1> QED BY <1>2, <1>4, <1>5, LInvFail

-----------------------------------------------------------------------------
(* Steps that change a directory: a load that goes on does not hold it, or  *)
(* its entries stay.                                                        *)
Goes(q) == /\ proc'[q].fds = proc[q].fds
           /\ InLoad(q)' => /\ InLoad(q) /\ proc'[q].items = proc[q].items /\ proc'[q].want = proc[q].want
                            /\ proc'[q].loaded = proc[q].loaded /\ proc'[q].pc = proc[q].pc
LEMMA LInvTouched ==
    ASSUME Shape, LInv, NEW i, NEW new, Touched(i, new), Listing(new.ents), \A q \in Procs : Goes(q),
           \A q \in Procs : new.ents = ino[i].ents \/ (i \in Range(proc[q].fds) => ~InLoad(q)')
    PROVE  LInv'
<1>1. Len(ino) \in Nat /\ DOMAIN ino = 1 .. Len(ino) /\ i \in 1 .. Len(ino) /\ ino' = [ino EXCEPT ![i] = new] BY DEF Shape, Touched
<1>2. Len(ino') = Len(ino) /\ ino'[i] = new /\ \A j \in 1 .. Len(ino) : j # i => ino'[j] = ino[j]
  <2>1. ino \in Seq(Inodes) BY DEF Shape
  <2> QED BY <1>1, <2>1
<1>3. \A j \in 1 .. Len(ino') : Listing(ino'[j].ents) BY <1>2 DEF LInv
<1>4. ASSUME NEW q \in Procs PROVE Eased(q)
  <2>1. proc[q].fds \in Seq(1 .. Len(ino)) BY DEF LInv
  <2>2. \A j \in Range(proc[q].fds) : j \in 1 .. Len(ino) BY <2>1 DEF Range
  <2>3. InLoad(q)' => \A j \in Range(proc[q].fds) : ino'[j].ents = ino[j].ents BY <1>2, <2>2
  <2> QED BY <1>2, <2>1, <2>3 DEF Goes, Eased, Spared
<1> QED BY <1>3, <1>4, LInvKept

LEMMA DisturbGoes ==
    ASSUME Shape, NEW i, NEW procs, proc' = Disturb(procs, i), NEW q \in Procs, DOMAIN procs[q] = Fields,
           procs[q].fds = proc[q].fds, procs[q] = proc[q] \/ procs[q].pc \notin {"replace", "replaced"}
    PROVE  Goes(q) /\ (i \in Range(proc[q].fds) => ~InLoad(q)')
<1>1. CASE i \in Range(proc[q].fds)
  <2>1. proc'[q] = [procs[q] EXCEPT !.clean = FALSE] BY <1>1 DEF Disturb
  <2>2. ~proc'[q].clean /\ proc'[q].fds = proc[q].fds BY <2>1 DEF Fields
  <2> QED BY <2>2 DEF Goes, InLoad
<1>2. CASE i \notin Range(proc[q].fds)
  <2>1. proc'[q] = procs[q] BY <1>2 DEF Disturb
  <2> QED BY <1>2, <2>1 DEF Goes, InLoad
<1> QED BY <1>1, <1>2

LEMMA SetGoes ==
    ASSUME Shape, NEW p \in Procs, NEW pc, pc \notin {"replace", "replaced"}, Set(p, [proc[p] EXCEPT !.pc = pc]), NEW q \in Procs
    PROVE  Goes(q)
<1> DEFINE r == [proc[p] EXCEPT !.pc = pc]
<1>1. ProcOk(p) BY DEF Shape
<1>2. r.pc = pc /\ r.fds = proc[p].fds BY <1>1 DEF ProcOk, Fields
<1>3. Set(p, r) OBVIOUS
<1> HIDE DEF r
<1>4. proc'[p] = r /\ (q # p => proc'[q] = proc[q]) BY <1>3, SetIs
<1> QED BY <1>2, <1>4 DEF Goes, InLoad

LEMMA SeqLarger == ASSUME NEW S, NEW T, S \subseteq T, NEW s \in Seq(S) PROVE s \in Seq(T)
<1>1. Len(s) \in Nat /\ DOMAIN s = 1 .. Len(s) /\ \A k \in 1 .. Len(s) : s[k] \in T OBVIOUS
<1>2. s = [k \in 1 .. Len(s) |-> s[k]] OBVIOUS
<1>3. [k \in 1 .. Len(s) |-> s[k]] \in Seq(T) BY <1>1
<1> QED BY <1>2, <1>3

LEMMA LInvMkDir == ASSUME Shape, LInv, NEW p \in Procs, MkDir(p) PROVE LInv'
<1>1. Set(p, [proc[p] EXCEPT !.pc = "open"]) BY DEF MkDir
<1>2. \A q \in Procs : Goes(q) BY <1>1, SetGoes
<1>3. \A q \in Procs : proc[q].fds \in Seq(1 .. Len(ino)) BY DEF LInv
<1>4. CASE ino' = ino
  <2>1. \A q \in Procs : Eased(q) BY <1>2, <1>3, <1>4 DEF Goes, Eased, Spared
  <2>2. \A i \in 1 .. Len(ino') : Listing(ino'[i].ents) BY <1>4 DEF LInv
  <2> QED BY <2>1, <2>2, LInvKept
<1>5. CASE ino' = Append(ino, NewInode)
  <2>1. ino \in Seq(Inodes) BY DEF Shape
  <2>2. NewInode \in Inodes
    <3>1. <<"none">> \in Seq(STRING) \union {NoFile} BY DEF NoFile
    <3>2. NoEnts \in Ents BY DEF NoEnts, Ents
    <3> QED BY <3>1, <3>2 DEF NewInode, Inodes, NoFile
  <2>3. Len(ino) \in Nat /\ Len(ino') = Len(ino) + 1 /\ ino'[Len(ino) + 1] = NewInode /\ \A j \in 1 .. Len(ino) : ino'[j] = ino[j]
    BY <1>5, <2>1, <2>2
  <2>4. Listing(NewInode.ents)
    <3>1. NewInode.ents = NoEnts /\ DOMAIN NoEnts = {} BY DEF NewInode, NoEnts
    <3> QED BY <3>1, FS_EmptySet DEF Listing
  <2>5. \A i \in 1 .. Len(ino') : Listing(ino'[i].ents)
    <3> SUFFICES ASSUME NEW i \in 1 .. Len(ino') PROVE Listing(ino'[i].ents) OBVIOUS
    <3>1. CASE i = Len(ino) + 1 BY <3>1, <2>3, <2>4
    <3>2. CASE i \in 1 .. Len(ino) BY <3>2, <2>3 DEF LInv
    <3> QED BY <3>1, <3>2, <2>3
  <2>6. ASSUME NEW q \in Procs PROVE Eased(q)
    <3>1. proc[q].fds \in Seq(1 .. Len(ino)) BY <1>3
    <3>2. \A j \in Range(proc[q].fds) : j \in 1 .. Len(ino) BY <3>1 DEF Range
    <3>3. \A j \in Range(proc[q].fds) : ino'[j].ents = ino[j].ents BY <2>3, <3>2
    <3>4. 1 .. Len(ino) \subseteq 1 .. Len(ino') BY <2>3
    <3>5. proc[q].fds \in Seq(1 .. Len(ino')) BY <3>1, <3>4, SeqLarger
    <3> QED BY <1>2, <3>3, <3>5 DEF Goes, Eased, Spared
  <2> QED BY <2>5, <2>6, LInvKept
<1> QED BY <1>4, <1>5 DEF MkDir

LEMMA LInvTruncate == ASSUME Shape, LInv, NEW p \in Procs, Truncate(p) PROVE LInv'
<1>1. ProcOk(p) /\ proc[p].pc = "truncate" BY DEF Shape, Truncate
<1>2. Rw(p) \in 2 .. Len(ino) BY <1>1 DEF ProcOk, Holder, Before, Over
<1> PICK i : i = Rw(p) OBVIOUS
<1>3. ino[i] \in Inodes /\ DOMAIN ino = 1 .. Len(ino) /\ Len(ino) \in Nat BY <1>2 DEF Shape
<1>4. CASE ino[i].live
  <2>1. Set(p, [proc[p] EXCEPT !.pc = "write"]) BY <1>4 DEF Truncate
  <2>2. \A q \in Procs : Goes(q) BY <2>1, SetGoes
  <2> PICK new : new = [ino[i] EXCEPT !.feat = <<>>, !.writers = @ \union {p}] OBVIOUS
  <2>3. new.ents = ino[i].ents BY <1>3 DEF Inodes
  <2>4. ino' = [ino EXCEPT ![i] = new] BY <1>4 DEF Truncate
  <2>5. Touched(i, new) BY <2>4, <1>2 DEF Touched
  <2>6. Listing(new.ents) BY <2>3, <1>2 DEF LInv
  <2> QED BY <2>2, <2>3, <2>5, <2>6, LInvTouched
<1>5. CASE ~ino[i].live BY <1>5, LInvFail DEF Truncate
<1> QED BY <1>4, <1>5

LEMMA LInvWriteFeatures == ASSUME Shape, LInv, NEW p \in Procs, WriteFeatures(p) PROVE LInv'
<1>1. ProcOk(p) /\ proc[p].pc = "write" /\ Set(p, [proc[p] EXCEPT !.pc = "ready"]) BY DEF Shape, WriteFeatures
<1>2. Rw(p) \in 2 .. Len(ino) BY <1>1 DEF ProcOk, Holder, Before, Over
<1> PICK i : i = Rw(p) OBVIOUS
<1>3. ino[i] \in Inodes /\ DOMAIN ino = 1 .. Len(ino) /\ Len(ino) \in Nat BY <1>2 DEF Shape
<1>4. \A q \in Procs : Goes(q) BY <1>1, SetGoes
<1>5. \E new : new.ents = ino[i].ents /\ ino' = [ino EXCEPT ![i] = new]
  <2>1. CASE p \in ino[i].writers
    <3> PICK new : new = [ino[i] EXCEPT !.feat = Overwrite(@, proc[p].text), !.writers = @ \ {p}] OBVIOUS
    <3>1. new.ents = ino[i].ents BY <1>3 DEF Inodes
    <3>2. ino' = [ino EXCEPT ![i] = new] BY <2>1 DEF WriteFeatures
    <3> QED BY <3>1, <3>2
  <2>2. CASE p \notin ino[i].writers
    <3>1. ino' = ino BY <2>2 DEF WriteFeatures
    <3>2. ino' = [ino EXCEPT ![i] = ino[i]] BY <3>1, <1>3, <1>2 DEF Shape
    <3> QED BY <3>2
  <2> QED BY <2>1, <2>2
<1>6. PICK new : new.ents = ino[i].ents /\ ino' = [ino EXCEPT ![i] = new] BY <1>5
<1>7. Touched(i, new) BY <1>6, <1>2 DEF Touched
<1>8. Listing(new.ents) BY <1>6, <1>2 DEF LInv
<1> QED BY <1>4, <1>6, <1>7, <1>8, LInvTouched

LEMMA LInvClearCache == ASSUME Shape, LInv, NEW p \in Procs, ClearCache(p) PROVE LInv'
<1>1. ProcOk(p) /\ proc[p].pc = "unlink" /\ DOMAIN proc = Procs BY DEF Shape, ClearCache
<1>2. Rw(p) \in 2 .. Len(ino) BY <1>1 DEF ProcOk, Holder, Before, Over
<1> PICK i, n, todo, ok : /\ i = Rw(p) /\ n = Min(proc[p].todo) /\ todo = proc[p].todo \ {n} /\ ok = (proc[p].ok /\ n \in NamesIn(i))
  OBVIOUS
<1> PICK r : r = [proc[p] EXCEPT !.todo = todo, !.ok = ok] OBVIOUS
<1> PICK procs : procs = [proc EXCEPT ![p] = r] OBVIOUS
<1> PICK new : new = Without(ino[i], n) OBVIOUS
<1>3. ino[i] \in Inodes /\ DOMAIN ino = 1 .. Len(ino) /\ Len(ino) \in Nat BY <1>2 DEF Shape
<1>4. proc' = Disturb(procs, i) BY DEF ClearCache
<1>5. ino' = [ino EXCEPT ![i] = new] BY DEF ClearCache
<1>6. Touched(i, new) BY <1>2, <1>5 DEF Touched
<1>7. Listing(ino[i].ents) BY <1>2 DEF LInv
<1>8. Listing(new.ents)
  <2>1. CASE n = DotFeatures
    <3>1. new.ents = ino[i].ents BY <1>3, <2>1 DEF Without, Inodes
    <3> QED BY <3>1, <1>7
  <2>2. CASE n # DotFeatures
    <3>1. new.ents = [m \in DOMAIN ino[i].ents \ {n} |-> ino[i].ents[m]] BY <1>3, <2>2 DEF Without, Inodes
    <3>2. IsFiniteSet(DOMAIN ino[i].ents \ {n}) BY <1>7, FS_Subset DEF Listing
    <3> QED BY <3>1, <3>2, <1>7 DEF Listing
  <2> QED BY <2>1, <2>2
<1>9. DOMAIN r = Fields /\ r.fds = proc[p].fds /\ r.pc = "unlink" BY <1>1 DEF ProcOk, Fields
<1>10. procs[p] = r /\ \A q \in Procs : q # p => procs[q] = proc[q] BY <1>1
<1>11. ASSUME NEW q \in Procs PROVE Goes(q) /\ (i \in Range(proc[q].fds) => ~InLoad(q)')
  <2>1. DOMAIN proc[q] = Fields BY DEF Shape, ProcOk
  <2>2. DOMAIN procs[q] = Fields /\ procs[q].fds = proc[q].fds /\ (procs[q] = proc[q] \/ procs[q].pc \notin {"replace", "replaced"})
    BY <2>1, <1>9, <1>10
  <2> QED BY <2>2, <1>4, DisturbGoes
<1> QED BY <1>6, <1>8, <1>11, LInvTouched

LEMMA LInvWriteEntry == ASSUME Shape, LInv, NEW p \in Procs, WriteEntry(p) PROVE LInv'
<1>1. ProcOk(p) /\ proc[p].pc = "ready" BY DEF Shape, WriteEntry
<1>2. Rw(p) \in 2 .. Len(ino) BY <1>1 DEF ProcOk, Holder, Before, Over
<1> PICK i, text, old : i = Rw(p) /\ text = proc[p].text /\ old = ino[i].ents OBVIOUS
<1>3. ino[i] \in Inodes /\ DOMAIN ino = 1 .. Len(ino) /\ Len(ino) \in Nat BY <1>2 DEF Shape
<1>4. PICK n \in Names, c \in Policies, kind \in {"file", "empty"} :
        ino' = [ino EXCEPT ![i].ents = [m \in DOMAIN @ \union {n} |-> IF m = n THEN [kind |-> kind, pol |-> c, by |-> text] ELSE @[m]]]
  BY DEF WriteEntry
<1> PICK ents : ents = [m \in DOMAIN old \union {n} |-> IF m = n THEN [kind |-> kind, pol |-> c, by |-> text] ELSE old[m]] OBVIOUS
<1> PICK new : new = [ino[i] EXCEPT !.ents = ents] OBVIOUS
<1>5. new.ents = ents BY <1>3 DEF Inodes
<1>6. ino' = [ino EXCEPT ![i] = new] BY <1>4
<1>7. Touched(i, new) BY <1>2, <1>6 DEF Touched
<1>8. Listing(old) BY <1>2 DEF LInv
<1>9. Listing(new.ents)
  <2>1. IsFiniteSet(DOMAIN old \union {n}) BY <1>8, FS_AddElement DEF Listing
  <2>2. DOMAIN old \union {n} \subseteq Nat \ {DotFeatures} BY <1>8, NamesAssumption DEF Listing
  <2>3. IsPolicy(c) BY PoliciesAssumption
  <2>4. ASSUME NEW m \in DOMAIN ents PROVE ents[m].kind \in Kinds /\ IsPolicy(ents[m].pol)
    <3>1. CASE m = n BY <3>1, <2>3 DEF Kinds
    <3>2. CASE m # n BY <3>2, <1>8 DEF Listing
    <3> QED BY <3>1, <3>2
  <2> QED BY <1>5, <2>1, <2>2, <2>4 DEF Listing
<1>10. proc' = Disturb(proc, i) BY DEF WriteEntry
<1>11. ASSUME NEW q \in Procs PROVE Goes(q) /\ (i \in Range(proc[q].fds) => ~InLoad(q)')
  <2>1. DOMAIN proc[q] = Fields BY DEF Shape, ProcOk
  <2> QED BY <2>1, <1>10, DisturbGoes
<1> QED BY <1>7, <1>9, <1>11, LInvTouched

LEMMA LInvPurge == ASSUME Shape, LInv, NEW d \in Dirs, PurgeFiles(d) \/ PurgeDir(d) PROVE LInv'
<1> PICK i : i = loc.rw[d] OBVIOUS
<1>1. i \in 2 .. Len(ino) BY DEF Shape, PurgeFiles, PurgeDir
<1>2. ino[i] \in Inodes /\ DOMAIN ino = 1 .. Len(ino) /\ Len(ino) \in Nat BY <1>1 DEF Shape
<1>3. CASE PurgeFiles(d)
  <2> PICK new : new = [ino[i] EXCEPT !.feat = NoFile, !.ents = NoEnts, !.writers = {}] OBVIOUS
  <2>1. new.ents = NoEnts BY <1>2 DEF Inodes
  <2>2. Touched(i, new) BY <1>1, <1>3 DEF Touched, PurgeFiles
  <2>3. Listing(new.ents)
    <3>1. DOMAIN NoEnts = {} BY DEF NoEnts
    <3> QED BY <2>1, <3>1, FS_EmptySet DEF Listing
  <2>4. proc' = Disturb(proc, i) BY <1>3 DEF PurgeFiles
  <2>5. ASSUME NEW q \in Procs PROVE Goes(q) /\ (i \in Range(proc[q].fds) => ~InLoad(q)')
    <3>1. DOMAIN proc[q] = Fields BY DEF Shape, ProcOk
    <3> QED BY <3>1, <2>4, DisturbGoes
  <2> QED BY <2>2, <2>3, <2>5, LInvTouched
<1>4. CASE PurgeDir(d)
  <2> PICK new : new = [ino[i] EXCEPT !.live = FALSE] OBVIOUS
  <2>1. new.ents = ino[i].ents BY <1>2 DEF Inodes
  <2>2. Touched(i, new) BY <1>1, <1>4 DEF Touched, PurgeDir
  <2>3. Listing(new.ents) BY <2>1, <1>1 DEF LInv
  <2>4. proc' = proc BY <1>4 DEF PurgeDir
  <2>5. \A q \in Procs : Goes(q) BY <2>4 DEF Goes, InLoad
  <2> QED BY <2>1, <2>2, <2>3, <2>5, LInvTouched
<1> QED BY <1>3, <1>4

-----------------------------------------------------------------------------
(* The steps of a load.                                                     *)
LEMMA LInvLoad ==
    ASSUME Shape, LInv, NEW p \in Procs, NEW r, Set(p, r), ino' = ino, r.fds = proc[p].fds,
           InLoad(p)' => Loading(p)'
    PROVE  LInv'
<1>1. proc'[p] = r /\ \A q \in Procs : q # p => proc'[q] = proc[q] BY SetIs
<1>2. \A i \in 1 .. Len(ino') : Listing(ino'[i].ents) BY DEF LInv
<1>3. ASSUME NEW q \in Procs PROVE proc'[q].fds \in Seq(1 .. Len(ino')) /\ (InLoad(q)' => Loading(q)')
  <2>1. proc[q].fds \in Seq(1 .. Len(ino)) /\ (InLoad(q) => Loading(q)) BY DEF LInv
  <2>2. CASE q = p BY <1>1, <2>1, <2>2
  <2>3. CASE q # p
    <3>1. proc'[q] = proc[q] BY <1>1, <2>3
    <3>2. (InLoad(q)' <=> InLoad(q)) /\ Spared(q) BY <3>1 DEF InLoad, Spared
    <3> QED BY <2>1, <3>1, <3>2, LoadingKept
  <2> QED BY <2>2, <2>3
<1> QED BY <1>2, <1>3 DEF LInv

LEMMA NamesInIs == ASSUME LInv, NEW i \in 1 .. Len(ino) PROVE NamesIn(i) \in NameSets
<1>1. Listing(ino[i].ents) BY DEF LInv
<1> PICK dot : dot = (IF ino[i].feat = NoFile THEN {} ELSE {DotFeatures}) OBVIOUS
<1>2. IsFiniteSet(dot) BY FS_EmptySet, FS_Singleton
<1>3. IsFiniteSet(NamesIn(i)) BY <1>1, <1>2, FS_Union DEF NamesIn, Listing
<1>4. NamesIn(i) \subseteq Nat BY <1>1 DEF NamesIn, Listing, DotFeatures
<1> QED BY <1>3, <1>4 DEF NameSets

NamesBelow(p) == [k \in DOMAIN proc[p].fds |-> NamesIn(proc[p].fds[k])]
LEMMA NamesBelowIs ==
    ASSUME LInv, NEW p \in Procs
    PROVE  /\ NamesBelow(p) \in Seq(NameSets) /\ Len(NamesBelow(p)) = Len(proc[p].fds) /\ DOMAIN proc[p].fds = 1 .. Len(proc[p].fds)
           /\ Len(proc[p].fds) \in Nat /\ \A k \in DOMAIN proc[p].fds : NamesBelow(p)[k] = NamesIn(proc[p].fds[k])
<1>1. proc[p].fds \in Seq(1 .. Len(ino)) BY DEF LInv
<1> PICK fds : fds = proc[p].fds OBVIOUS
<1>2. Len(fds) \in Nat /\ DOMAIN fds = 1 .. Len(fds) /\ \A k \in 1 .. Len(fds) : fds[k] \in 1 .. Len(ino) BY <1>1
<1>3. \A k \in 1 .. Len(fds) : NamesIn(fds[k]) \in NameSets BY <1>2, NamesInIs
<1>4. [k \in 1 .. Len(fds) |-> NamesIn(fds[k])] \in Seq(NameSets) BY <1>2, <1>3
<1>5. NamesBelow(p) = [k \in 1 .. Len(fds) |-> NamesIn(fds[k])] BY <1>2 DEF NamesBelow
<1> QED BY <1>2, <1>4, <1>5

(* What aa_policy_cache_open finds under a name is what the overlay holds.  *)
LEMMA WantedIs ==
    ASSUME LInv, NEW p \in Procs
    PROVE  /\ Wanted(p) = UNION {Content(proc[p].fds[it.dir], it.name) : it \in Firsts(NamesBelow(p), Len(proc[p].fds))}
           /\ \A it \in Firsts(NamesBelow(p), Len(proc[p].fds)) : proc[p].fds[it.dir] = CacheOpen(p, it.name)
<1> PICK fds, dirs : fds = proc[p].fds /\ dirs = NamesBelow(p) OBVIOUS
<1>1. /\ Len(fds) \in Nat /\ DOMAIN fds = 1 .. Len(fds) /\ \A k \in 1 .. Len(fds) : dirs[k] = NamesIn(fds[k]) /\ dirs[k] \subseteq Nat
  <2>1. dirs \in Seq(NameSets) /\ Len(dirs) = Len(fds) /\ DOMAIN fds = 1 .. Len(fds) /\ Len(fds) \in Nat BY NamesBelowIs
  <2>2. \A k \in 1 .. Len(fds) : dirs[k] = NamesIn(fds[k]) BY <2>1, NamesBelowIs
  <2>3. \A k \in 1 .. Len(fds) : dirs[k] \in NameSets BY <2>1
  <2> QED BY <2>1, <2>2, <2>3 DEF NameSets
<1>2. ASSUME NEW it \in Firsts(dirs, Len(fds)) PROVE it.name \in Visible(p) /\ CacheOpen(p, it.name) = fds[it.dir]
  <2>1. it.dir \in 1 .. Len(fds) /\ it.name \in dirs[it.dir] /\ \A e \in 1 .. it.dir - 1 : it.name \notin dirs[e] BY DEF Firsts
  <2> PICK has : has = {k \in DOMAIN fds : it.name \in NamesIn(fds[k])} OBVIOUS
  <2>2. it.dir \in has /\ has \in SUBSET Nat BY <1>1, <2>1
  <2>3. Min(has) \in has /\ Min(has) <= it.dir BY <2>2, MinOf
  <2> PICK m : m = Min(has) OBVIOUS
  <2>4. m \in 1 .. Len(fds) /\ it.name \in dirs[m] /\ m <= it.dir BY <1>1, <2>3
  <2>5. m = it.dir BY <2>1, <2>4, <1>1
  <2>6. CacheOpen(p, it.name) = fds[it.dir] BY <2>2, <2>5 DEF CacheOpen
  <2>7. it.name \in Visible(p) BY <1>1, <2>1 DEF Visible
  <2> QED BY <2>6, <2>7
<1>3. ASSUME NEW n \in Visible(p) PROVE \E it \in Firsts(dirs, Len(fds)) : it.name = n /\ fds[it.dir] = CacheOpen(p, n)
  <2> PICK has : has = {k \in DOMAIN fds : n \in NamesIn(fds[k])} OBVIOUS
  <2>1. has # {} /\ has \in SUBSET Nat BY <1>1 DEF Visible
  <2> PICK m : m = Min(has) OBVIOUS
  <2>2. m \in has /\ \A k \in has : m <= k BY <2>1, MinOf
  <2>3. m \in 1 .. Len(fds) /\ n \in dirs[m] /\ n \in Nat BY <1>1, <2>2
  <2>4. \A e \in 1 .. m - 1 : n \notin dirs[e]
    <3> SUFFICES ASSUME NEW e \in 1 .. m - 1, n \in dirs[e] PROVE FALSE OBVIOUS
    <3>1. e \in 1 .. Len(fds) /\ e < m BY <2>3, <1>1
    <3>2. e \in has BY <3>1, <1>1
    <3>3. m <= e BY <3>2, <2>2
    <3> QED BY <3>1, <3>3, <2>3, <1>1
  <2> PICK it : it = [dir |-> m, name |-> n] OBVIOUS
  <2>5. it \in Items /\ it.dir = m /\ it.name = n BY <2>3 DEF Items
  <2>6. it \in Firsts(dirs, Len(fds)) BY <2>3, <2>4, <2>5 DEF Firsts
  <2>7. CacheOpen(p, n) = fds[m] BY <2>1 DEF CacheOpen
  <2> QED BY <2>5, <2>6, <2>7
<1>4. Wanted(p) = UNION {Content(CacheOpen(p, n), n) : n \in Visible(p)}
  <2>1. ASSUME NEW n \in Visible(p) PROVE HoldsPolicy(CacheOpen(p, n), n) <=> Loads(CacheOpen(p, n), n)
    <3>1. CASE n = DotFeatures BY <3>1 DEF HoldsPolicy, Loads
    <3>2. CASE n # DotFeatures
      <4>1. PICK it \in Firsts(dirs, Len(fds)) : it.name = n /\ fds[it.dir] = CacheOpen(p, n) BY <1>3
      <4>2. it.dir \in 1 .. Len(fds) /\ n \in NamesIn(fds[it.dir]) BY <1>1, <4>1 DEF Firsts
      <4> PICK i : i = CacheOpen(p, n) OBVIOUS
      <4>3. i \in 1 .. Len(ino) /\ n \in NamesIn(i)
        <5>1. fds \in Seq(1 .. Len(ino)) BY DEF LInv
        <5> QED BY <5>1, <4>1, <4>2
      <4>4. n \in DOMAIN ino[i].ents BY <4>3, <3>2 DEF NamesIn
      <4>5. ino[i].ents[n].kind \in Kinds BY <4>3, <4>4 DEF LInv, Listing
      <4> QED BY <3>2, <4>5 DEF HoldsPolicy, Loads, Kinds, IsBlacklisted
    <3> QED BY <3>1, <3>2
  <2> QED BY <2>1 DEF Wanted, Content
<1> QED BY <1>2, <1>3, <1>4

LEMMA SeqInto == ASSUME NEW S, NEW T, NEW s \in Seq(S), \A x \in Range(s) : x \in T PROVE s \in Seq(T)
<1>1. Len(s) \in Nat /\ DOMAIN s = 1 .. Len(s) /\ \A k \in 1 .. Len(s) : s[k] \in T BY DEF Range
<1>2. s = [k \in 1 .. Len(s) |-> s[k]] OBVIOUS
<1>3. [k \in 1 .. Len(s) |-> s[k]] \in Seq(T) BY <1>1
<1> QED BY <1>2, <1>3

LEMMA LInvReplaceAll == ASSUME Shape, LInv, NEW p \in Procs, ReplaceAllPolicy(p) PROVE LInv'
<1>1. ProcOk(p) /\ ino' = ino BY DEF Shape, ReplaceAllPolicy, Same
<1> PICK fds, dirs, o, want : fds = proc[p].fds /\ dirs = NamesBelow(p) /\ o = OverlayOf(dirs) /\ want = Wanted(p) OBVIOUS
<1>2. Overlay_(p) = o BY DEF Overlay_, NamesBelow
<1>3. dirs \in Seq(NameSets) /\ Len(dirs) = Len(fds) /\ DOMAIN fds = 1 .. Len(fds) /\ Len(fds) \in Nat BY NamesBelowIs
<1>4. o \in OverlayType /\ ByName(o.items) /\ Range(o.items) = Firsts(dirs, Len(fds)) BY <1>3, OverlayOfIs
<1> PICK items : items = o.items OBVIOUS
<1> PICK r : r = [proc[p] EXCEPT !.pc = "replace", !.items = items, !.ok = TRUE, !.loaded = {}, !.want = want, !.clean = TRUE]
  OBVIOUS
<1>5. Set(p, r) \/ End(p, "overrun") BY <1>2 DEF ReplaceAllPolicy
<1>6. r.fds = fds /\ r.items = items /\ r.loaded = {} /\ r.want = want /\ r.pc = "replace" BY <1>1 DEF ProcOk, Fields
<1>7. CASE Set(p, r)
  <2>1. proc'[p] = r BY <1>7, SetIs
  <2>2. items \in Seq(Items) BY <1>4 DEF OverlayType, Items
  <2>3. \A it \in Range(items) : it \in [dir : DOMAIN fds, name : Nat] BY <1>3, <1>4 DEF Firsts, Items
  <2>4. items \in Seq([dir : DOMAIN fds, name : Nat]) BY <2>2, <2>3, SeqInto
  <2>5. /\ want = UNION {Content(fds[it.dir], it.name) : it \in Range(items)}
        /\ \A it \in Range(items) : fds[it.dir] = CacheOpen(p, it.name)
    BY <1>4, WantedIs
  <2>6. \A i, n : Content(i, n)' = Content(i, n) BY <1>1 DEF Content, Loads
  <2>7. Due(p)' = UNION {Content(fds[it.dir], it.name)' : it \in Range(items)} BY <1>6, <2>1 DEF Due
  <2>8. Due(p)' = want BY <2>5, <2>6, <2>7
  <2>9. \A n : n # DotFeatures => CacheOpen(p, n)' = CacheOpen(p, n) BY <1>1, <1>6, <2>1, CacheOpenKept
  <2>10. InOrder(p)' BY <1>4, <1>6, <2>1, <2>5, <2>9 DEF InOrder, ByName
  <2>11. Loading(p)' BY <1>6, <2>1, <2>4, <2>8, <2>10 DEF Loading
  <2> QED BY <1>1, <1>6, <1>7, <2>11, LInvLoad
<1>8. CASE End(p, "overrun") BY <1>1, <1>8, LInvEnd DEF Over
<1> QED BY <1>5, <1>7, <1>8

LEMMA RangeTail == ASSUME NEW S, NEW s \in Seq(S), s # <<>> PROVE Tail(s) \in Seq(S) /\ Range(s) = Range(Tail(s)) \union {Head(s)}
<1>1. Len(s) \in Nat \ {0} /\ DOMAIN s = 1 .. Len(s) /\ Head(s) = s[1] OBVIOUS
<1>2. Tail(s) \in Seq(S) /\ Len(Tail(s)) = Len(s) - 1 /\ DOMAIN Tail(s) = 1 .. Len(s) - 1 /\ \A k \in 1 .. Len(s) - 1 : Tail(s)[k] = s[k + 1]
  BY <1>1
<1>3. ASSUME NEW k \in 1 .. Len(s) PROVE s[k] \in Range(Tail(s)) \union {Head(s)}
  <2>1. CASE k = 1 BY <2>1, <1>1
  <2>2. CASE k # 1
    <3>1. PICK j \in 1 .. Len(s) - 1 : k = j + 1 BY <2>2, <1>1
    <3>2. s[k] = Tail(s)[j] BY <3>1, <1>2
    <3> QED BY <3>2, <1>2 DEF Range
  <2> QED BY <2>1, <2>2
<1>4. ASSUME NEW k \in 1 .. Len(s) - 1 PROVE Tail(s)[k] \in Range(s)
  <2>1. k + 1 \in 1 .. Len(s) BY <1>1
  <2> QED BY <2>1, <1>1, <1>2 DEF Range
<1>5. Head(s) \in Range(s) BY <1>1 DEF Range
<1>6. \A x \in Range(s) : x \in Range(Tail(s)) \union {Head(s)} BY <1>1, <1>3 DEF Range
<1>7. \A x \in Range(Tail(s)) : x \in Range(s) BY <1>2, <1>4 DEF Range
<1> QED BY <1>2, <1>5, <1>6, <1>7

LEMMA ByNameTail == ASSUME NEW S, NEW s \in Seq(S), s # <<>>, ByName(s) PROVE ByName(Tail(s))
<1>1. /\ Len(s) \in Nat \ {0} /\ DOMAIN s = 1 .. Len(s) /\ DOMAIN Tail(s) = 1 .. Len(s) - 1
      /\ \A k \in 1 .. Len(s) - 1 : Tail(s)[k] = s[k + 1]
  OBVIOUS
<1> SUFFICES ASSUME NEW i \in 1 .. Len(s) - 1, NEW j \in 1 .. Len(s) - 1, i < j PROVE Tail(s)[i].name < Tail(s)[j].name
  BY <1>1 DEF ByName
<1>2. i + 1 \in DOMAIN s /\ j + 1 \in DOMAIN s /\ i + 1 < j + 1 BY <1>1
<1>3. s[i + 1].name < s[j + 1].name BY <1>2 DEF ByName
<1> QED BY <1>1, <1>3

LEMMA HeadIn == ASSUME NEW S, NEW s \in Seq(S), s # <<>> PROVE Head(s) \in S OBVIOUS
LEMMA ElementIn == ASSUME NEW S, NEW s \in Seq(S), NEW k \in DOMAIN s PROVE s[k] \in S OBVIOUS
(* An entry is taken by the kernel: it has loaded what the entry holds.     *)
Takes(p, item, i, n, w) == /\ InLoad(p) /\ proc[p].items # <<>> /\ item = Head(proc[p].items) /\ i = proc[p].fds[item.dir]
                           /\ n \in NamesIn(i) /\ Loads(i, n) /\ w \in WriteToIface(Ki(p), ino[i].ents[n].pol) /\ w.ok
LEMMA TakenIs ==
    ASSUME LInv, NEW p \in Procs, NEW item, NEW i, NEW n, NEW w, Takes(p, item, i, n, w)
    PROVE  w.loaded = Content(i, n)
<1>0. /\ InLoad(p) /\ proc[p].items # <<>> /\ item = Head(proc[p].items) /\ i = proc[p].fds[item.dir]
      /\ n \in NamesIn(i) /\ Loads(i, n) /\ w \in WriteToIface(Ki(p), ino[i].ents[n].pol) /\ w.ok
  BY DEF Takes
<1> PICK items, fds, T : items = proc[p].items /\ fds = proc[p].fds /\ T = 1 .. Len(ino) OBVIOUS
<1>1. Loading(p) /\ fds \in Seq(T) BY <1>0 DEF LInv
<1>2. item.dir \in DOMAIN fds
  <2>1. PICK S : S = [dir : DOMAIN fds, name : Nat] OBVIOUS
  <2>2. items \in Seq(S) BY <1>1, <2>1 DEF Loading
  <2>3. item \in S BY <1>0, <2>2, HeadIn
  <2> QED BY <2>1, <2>3
<1>3. i \in T BY <1>0, <1>1, <1>2, ElementIn
<1>4. Listing(ino[i].ents) BY <1>3 DEF LInv
<1>5. n \in DOMAIN ino[i].ents BY <1>0 DEF NamesIn, Loads
<1> PICK pol : pol = ino[i].ents[n].pol OBVIOUS
<1>6. IsPolicy(pol) BY <1>4, <1>5 DEF Listing
<1>7. w.loaded = ProfilesIn(pol.bytes) BY <1>0, <1>6, WriteToIfaceIs
<1> QED BY <1>0, <1>7 DEF Content

LEMMA LInvReplaceOne == ASSUME Shape, LInv, NEW p \in Procs, ReplaceOne(p) PROVE LInv'
<1>1. ProcOk(p) /\ ino' = ino /\ proc[p].pc = "replace" /\ proc[p].items # <<>> BY DEF Shape, ReplaceOne, Same
<1> PICK item, i, n : item = Head(proc[p].items) /\ i = proc[p].fds[item.dir] /\ n = item.name OBVIOUS
<1>0. ASSUME proc[p].ok, proc[p].clean, n \in NamesIn(i), Loads(i, n), NEW w, w \in WriteToIface(Ki(p), ino[i].ents[n].pol), w.ok
      PROVE  w.loaded = Content(i, n)
  <2>1. InLoad(p) BY <1>0, <1>1 DEF InLoad
  <2>2. Takes(p, item, i, n, w) BY <1>0, <1>1, <2>1 DEF Takes
  <2> QED BY <2>2, TakenIs
<1> PICK fds, items : fds = proc[p].fds /\ items = proc[p].items OBVIOUS
<1> PICK rest : rest = [proc[p] EXCEPT !.items = Tail(items)] OBVIOUS
<1>2. fds \in Seq(1 .. Len(ino)) /\ (InLoad(p) => Loading(p)) BY DEF LInv
<1>3. /\ rest.fds = fds /\ rest.items = Tail(items) /\ rest.ok = proc[p].ok /\ rest.clean = proc[p].clean
      /\ rest.want = proc[p].want /\ rest.loaded = proc[p].loaded /\ rest.pc = "replace" /\ DOMAIN rest = Fields
  BY <1>1 DEF ProcOk, Fields
<1> DEFINE After(r, gone) == /\ r.fds = fds /\ r.items = Tail(items) /\ r.pc = "replace" /\ r.clean = proc[p].clean
                             /\ r.want = proc[p].want /\ r.loaded = proc[p].loaded \union gone
                             /\ r.ok => proc[p].ok /\ gone = Content(i, n)
<1>4. ASSUME NEW r, NEW gone, Set(p, r), After(r, gone) PROVE LInv'
  <2>1. proc'[p] = r BY <1>4, SetIs
  <2>2. ASSUME InLoad(p)' PROVE Loading(p)'
    <3>1. InLoad(p) /\ gone = Content(i, n) BY <1>1, <1>4, <2>1, <2>2 DEF InLoad
    <3>2. PICK S : S = [dir : DOMAIN fds, name : Nat] OBVIOUS
    <3>3. items \in Seq(S) /\ proc[p].want = proc[p].loaded \union Due(p) BY <1>2, <3>1, <3>2 DEF Loading
    <3>4. Tail(items) \in Seq(S) /\ Range(items) = Range(Tail(items)) \union {item} BY <1>1, <3>3, RangeTail
    <3>5. \A j, m : Content(j, m)' = Content(j, m) BY <1>1 DEF Content, Loads
    <3>6. Due(p)' = UNION {Content(fds[it.dir], it.name)' : it \in Range(Tail(items))} BY <1>4, <2>1 DEF Due
    <3>7. Due(p) = UNION {Content(fds[it.dir], it.name) : it \in Range(items)} BY DEF Due
    <3>8. Due(p) = Due(p)' \union gone BY <3>1, <3>4, <3>5, <3>6, <3>7
    <3>9. proc'[p].want = proc'[p].loaded \union Due(p)' BY <1>4, <2>1, <3>3, <3>8
    <3>10. \A m : m # DotFeatures => CacheOpen(p, m)' = CacheOpen(p, m) BY <1>1, <1>4, <2>1, CacheOpenKept
    <3>11. InOrder(p)'
      <4>1. InOrder(p) BY <1>2, <3>1 DEF Loading
      <4>2. ByName(Tail(items)) BY <1>1, <3>3, <4>1, ByNameTail DEF InOrder
      <4>3. \A it \in Range(Tail(items)) : it.name # DotFeatures => fds[it.dir] = CacheOpen(p, it.name)' BY <3>4, <3>10, <4>1 DEF InOrder
      <4>4. proc'[p].items = Tail(items) /\ proc'[p].fds = fds BY <1>4, <2>1
      <4> QED BY <4>2, <4>3, <4>4 DEF InOrder, ByName
    <3> QED BY <1>4, <2>1, <3>2, <3>4, <3>9, <3>11 DEF Loading
  <2> QED BY <1>1, <1>2, <1>4, <2>2, LInvLoad
<1>5. CASE Set(p, rest) /\ (proc[p].ok => Content(i, n) = {})
  <2>1. After(rest, {}) BY <1>3, <1>5
  <2> HIDE DEF After
  <2> QED BY <1>4, <1>5, <2>1
<1>6. CASE Set(p, [rest EXCEPT !.ok = FALSE])
  <2> PICK r : r = [rest EXCEPT !.ok = FALSE] OBVIOUS
  <2>1. After(r, {}) BY <1>3 DEF Fields
  <2> HIDE DEF After
  <2> QED BY <1>4, <1>6, <2>1
<1>7. CASE /\ proc[p].ok /\ n \in NamesIn(i) /\ Loads(i, n)
           /\ \E r \in WriteToIface(Ki(p), ino[i].ents[n].pol) : Set(p, [rest EXCEPT !.ok = r.ok, !.loaded = @ \union r.loaded])
  <2>1. PICK w \in WriteToIface(Ki(p), ino[i].ents[n].pol) : Set(p, [rest EXCEPT !.ok = w.ok, !.loaded = @ \union w.loaded]) BY <1>7
  <2> PICK r : r = [rest EXCEPT !.ok = w.ok, !.loaded = @ \union w.loaded] OBVIOUS
  <2>2. proc[p].clean /\ w.ok => w.loaded = Content(i, n) BY <1>0, <1>7
  <2>3. /\ r.fds = fds /\ r.items = Tail(items) /\ r.pc = "replace" /\ r.clean = proc[p].clean
        /\ r.want = proc[p].want /\ r.loaded = proc[p].loaded \union w.loaded /\ r.ok = w.ok
    BY <1>3 DEF Fields
  <2>4. CASE proc[p].clean
    <3>1. After(r, w.loaded) BY <1>7, <2>2, <2>3, <2>4
    <3> HIDE DEF After
    <3> QED BY <1>4, <2>1, <3>1
  <2>5. CASE ~proc[p].clean
    <3>1. proc'[p] = r BY <2>1, SetIs
    <3>2. ~InLoad(p)' BY <2>3, <2>5, <3>1 DEF InLoad
    <3> QED BY <1>1, <1>2, <2>1, <2>3, <3>2, LInvLoad
  <2> QED BY <2>4, <2>5
<1>8. ~Loads(i, n) => Content(i, n) = {} BY DEF Content
<1>9. \/ ~proc[p].ok /\ Set(p, rest)
      \/ Set(p, [rest EXCEPT !.ok = FALSE])
      \/ ~Loads(i, n) /\ Set(p, rest)
      \/ /\ proc[p].ok /\ n \in NamesIn(i) /\ Loads(i, n)
         /\ \E r \in WriteToIface(Ki(p), ino[i].ents[n].pol) : Set(p, [rest EXCEPT !.ok = r.ok, !.loaded = @ \union r.loaded])
  BY DEF ReplaceOne
<1> QED BY <1>5, <1>6, <1>7, <1>8, <1>9

LEMMA LInvReplaceDone == ASSUME Shape, LInv, NEW p \in Procs, ReplaceDone(p) PROVE LInv'
<1>1. ProcOk(p) /\ ino' = ino /\ proc[p].pc = "replace" /\ proc[p].items = <<>> BY DEF Shape, ReplaceDone, Same
<1> PICK r : r = [proc[p] EXCEPT !.pc = "replaced"] OBVIOUS
<1>2. Set(p, r) BY DEF ReplaceDone
<1>3. proc'[p] = r BY <1>2, SetIs
<1>4. /\ r.fds = proc[p].fds /\ r.items = proc[p].items /\ r.pc = "replaced" /\ r.clean = proc[p].clean
      /\ r.want = proc[p].want /\ r.loaded = proc[p].loaded /\ r.ok = proc[p].ok
  BY <1>1 DEF ProcOk, Fields
<1>5. InLoad(p) => Loading(p) BY DEF LInv
<1>6. ASSUME InLoad(p)' PROVE Loading(p)'
  <2>1. Loading(p) BY <1>1, <1>3, <1>4, <1>5, <1>6 DEF InLoad
  <2>2. Due(p)' = Due(p)
    <3>1. Range(proc[p].items) = {} BY <1>1 DEF Range
    <3> QED BY <3>1, <1>3, <1>4 DEF Due
  <2>3. InOrder(p)' BY <1>1, <1>3, <1>4, <2>1, InOrderKept DEF Loading
  <2> QED BY <1>1, <1>3, <1>4, <2>1, <2>2, <2>3 DEF Loading
<1> QED BY <1>1, <1>2, <1>4, <1>5, <1>6, LInvLoad

-----------------------------------------------------------------------------
LEMMA InitLInv == ASSUME Init PROVE LInv
<1>1. PICK r \in RoDirs : ino = <<[feat |-> r.feat, ents |-> r.ents, live |-> TRUE, writers |-> {}]>> BY DEF Init
<1>2. PICK m \in Setups : proc = [p \in Procs |-> NewProc(m[p])] BY DEF Init
<1>3. Len(ino) = 1 /\ ino[1].ents = r.ents BY <1>1
<1>4. Listing(r.ents) BY RoDirsAssumption DEF Listing
<1>5. \A i \in 1 .. Len(ino) : Listing(ino[i].ents) BY <1>3, <1>4
<1>6. ASSUME NEW p \in Procs PROVE proc[p].fds \in Seq(1 .. Len(ino)) /\ ~InLoad(p)
  <2>1. proc[p].fds = <<>> /\ proc[p].pc = "features" BY <1>2 DEF NewProc
  <2> QED BY <2>1 DEF InLoad
<1> QED BY <1>5, <1>6 DEF LInv

LEMMA NextLInv == ASSUME IInv, LInv, [Next]_vars PROVE LInv'
<1>0. Shape BY DEF IInv
<1>1. CASE UNCHANGED vars
  <2>1. ino' = ino /\ proc' = proc BY <1>1 DEF vars
  <2>2. \A i \in 1 .. Len(ino') : Listing(ino'[i].ents) BY <2>1 DEF LInv
  <2>3. \A q \in Procs : Eased(q) BY <2>1 DEF LInv, Eased, Spared, InLoad
  <2> QED BY <2>2, <2>3, LInvKept
<1>2. ASSUME NEW p \in Procs, Opening(p) PROVE LInv'
  BY <1>0, <1>2, LInvLook, LInvOpenDir, LInvInit, LInvMkDir, LInvClearCache, LInvTruncate, LInvWriteFeatures DEF Opening
<1>3. ASSUME NEW p \in Procs, Using(p) PROVE LInv'
  <2>1. CASE Unref(p) BY <1>0, <2>1, LInvEnd DEF Unref, Same, Over
  <2> QED BY <1>0, <1>3, <2>1, LInvInit, LInvWriteEntry, LInvReplaceAll, LInvReplaceOne, LInvReplaceDone DEF Using
<1>4. ASSUME NEW p \in Procs, Crash(p) PROVE LInv' BY <1>0, <1>4, LInvEnd DEF Crash, Over
<1>5. ASSUME NEW d \in Dirs, PurgeFiles(d) \/ PurgeDir(d) PROVE LInv' BY <1>0, <1>5, LInvPurge
<1> QED BY <1>1, <1>2, <1>3, <1>4, <1>5 DEF Next

LEMMA LInvAlways == Spec => []LInv
BY InitIInv, InitLInv, NextIInv, NextLInv, PTL DEF Spec

(* What an undisturbed load has still to do has each name once, in the      *)
(* directory in which aa_policy_cache_open finds it, however many           *)
(* directories are merged and however their names interleave (insert,       *)
(* merge), and in every build: where the array does not grow there is no    *)
(* load.                                                                    *)
THEOREM OverlayRightThm == Spec => []OverlayRight
<1>1. LInv => OverlayRight
  <2> SUFFICES ASSUME LInv, NEW p \in Procs, proc[p].pc = "replace", proc[p].ok, proc[p].clean
               PROVE  /\ ByName(proc[p].items)
                      /\ \A i \in DOMAIN proc[p].items :
                           proc[p].items[i].name # DotFeatures => proc[p].fds[proc[p].items[i].dir] = CacheOpen(p, proc[p].items[i].name)
    BY DEF OverlayRight, ByName
  <2>1. InOrder(p) BY DEF LInv, InLoad, Loading
  <2> QED BY <2>1 DEF InOrder, Range
<1> QED BY <1>1, LInvAlways, PTL

(* A load of all that nobody disturbs and that succeeds has loaded what     *)
(* aa_policy_cache_open finds under every name, whatever the directories    *)
(* hold, however large the policies are and whichever way the kernel takes  *)
(* them (replace_all_cb, write_policy_buffer, next_profile_buffer).         *)
THEOREM LoadedIsVisibleThm == Spec => []LoadedIsVisible
<1>1. LInv => LoadedIsVisible
  <2> SUFFICES ASSUME LInv, NEW p \in Procs, proc[p].pc = "replaced", proc[p].ok, proc[p].clean PROVE proc[p].loaded = proc[p].want
    BY DEF LoadedIsVisible
  <2>1. Loading(p) BY DEF LInv, InLoad
  <2>2. Due(p) = {} BY <2>1 DEF Loading, Due, Range
  <2> QED BY <2>1, <2>2 DEF Loading
<1> QED BY <1>1, LInvAlways, PTL
=============================================================================
