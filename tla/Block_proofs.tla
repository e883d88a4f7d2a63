----------------------------- MODULE Block_proofs -----------------------------
(***************************************************************************)
(* For every policy, with any number of statements, blocks, conditionals,  *)
(* hats and qualifiers: what is kept for a whole profile, its limits and   *)
(* its named transitions, is what its blocks say, and merging duplicate    *)
(* rules keeps the policy.                                                 *)
(***************************************************************************)
EXTENDS Block, TLAPS, FiniteSetTheorems, WellFoundedInduction

(***************************************************************************)
(* Loops.  A loop has a result (RunIs), and what its steps keep holds of   *)
(* it (RunKeeps).                                                          *)
(***************************************************************************)
LEMMA LeastOf ==
    ASSUME NEW T \in SUBSET Nat, T # {}
    PROVE  \E n \in T : \A k \in T : n <= k
<1>1. PICK n \in T : \A k \in T : ~(<<k, n>> \in OpToRel(<, Nat))
  BY WFMin, NatLessThanWellFounded
<1>2. ASSUME NEW k \in T PROVE n <= k
  <2>1. k < n => <<k, n>> \in {ss \in Nat \X Nat : ss[1] < ss[2]} OBVIOUS
  <2>2. ~(k < n) BY <1>1, <2>1 DEF OpToRel
  <2> QED BY <2>2
<1> QED BY <1>2

(* g holds what the first m steps make of init. *)
Traces(g, m, steps, init) == g = [i \in 0 .. m |-> IF i = 0 THEN init ELSE steps[i][g[i - 1]]]
LEMMA TracesIs ==
    ASSUME NEW g, NEW m \in Nat, NEW steps, NEW init, Traces(g, m, steps, init)
    PROVE  DOMAIN g = 0 .. m /\ g[0] = init /\ \A i \in 1 .. m : g[i] = steps[i][g[i - 1]]
<1> DEFINE F == [i \in 0 .. m |-> IF i = 0 THEN init ELSE steps[i][g[i - 1]]]
<1>1. g = F BY DEF Traces
<1>2. DOMAIN F = 0 .. m /\ \A i \in 0 .. m : F[i] = IF i = 0 THEN init ELSE steps[i][g[i - 1]] OBVIOUS
<1>3. 0 \in 0 .. m /\ \A i \in 1 .. m : i \in 0 .. m /\ i # 0 OBVIOUS
<1> HIDE DEF F
<1> QED BY <1>1, <1>2, <1>3

LEMMA TraceExists ==
    ASSUME NEW n \in Nat, NEW steps, NEW init
    PROVE  \E g : Traces(g, n, steps, init)
<1> DEFINE T == {m \in Nat : ~ \E g : Traces(g, m, steps, init)}
<1> SUFFICES ASSUME T # {} PROVE FALSE BY Zenon
<1>1. PICK m \in T : \A k \in T : m <= k BY LeastOf
<1>2. m \in Nat /\ ~ \E g : Traces(g, m, steps, init) OBVIOUS
<1>3. m # 0
  <2> DEFINE g == [i \in 0 .. 0 |-> init]
  <2>1. g = [i \in 0 .. 0 |-> IF i = 0 THEN init ELSE steps[i][g[i - 1]]] OBVIOUS
  <2> HIDE DEF g
  <2>2. Traces(g, 0, steps, init) BY <2>1 DEF Traces
  <2> QED BY <1>2, <2>2
<1>4. m - 1 \in Nat /\ m - 1 \notin T BY <1>1, <1>2, <1>3
<1>5. PICK g : Traces(g, m - 1, steps, init) BY <1>4
<1>6. DOMAIN g = 0 .. m - 1 /\ g[0] = init /\ \A i \in 1 .. m - 1 : g[i] = steps[i][g[i - 1]] BY <1>4, <1>5, TracesIs
<1> DEFINE h == [i \in 0 .. m |-> IF i < m THEN g[i] ELSE steps[m][g[m - 1]]]
<1>7. ASSUME NEW i \in 0 .. m PROVE h[i] = IF i = 0 THEN init ELSE steps[i][h[i - 1]]
  <2>1. CASE i = 0 BY <1>2, <1>3, <1>6, <2>1
  <2>2. CASE i # 0 /\ i < m
    <3>1. h[i] = g[i] /\ h[i - 1] = g[i - 1] /\ i \in 1 .. m - 1 BY <1>2, <2>2
    <3> HIDE DEF h
    <3> QED BY <1>6, <2>2, <3>1
  <2>3. CASE i = m
    <3>1. h[i] = steps[m][g[m - 1]] /\ h[i - 1] = g[m - 1] BY <1>2, <1>3, <2>3
    <3> HIDE DEF h
    <3> QED BY <1>3, <2>3, <3>1
  <2> QED BY <1>2, <2>1, <2>2, <2>3
<1>8. h = [i \in 0 .. m |-> h[i]] OBVIOUS
<1> HIDE DEF h
<1>9. h = [i \in 0 .. m |-> IF i = 0 THEN init ELSE steps[i][h[i - 1]]] BY <1>7, <1>8
<1> QED BY <1>2, <1>9 DEF Traces

LEMMA RunIs ==
    ASSUME NEW n \in Nat, NEW steps, Len(steps) = n, NEW init
    PROVE  \E f : Traces(f, n, steps, init) /\ Run(steps, init) = f[n]
<1> DEFINE f == CHOOSE g : g = [i \in 0 .. Len(steps) |-> IF i = 0 THEN init ELSE steps[i][g[i - 1]]]
<1>1. Run(steps, init) = f[Len(steps)] BY DEF Run
<1>2. \E g : g = [i \in 0 .. Len(steps) |-> IF i = 0 THEN init ELSE steps[i][g[i - 1]]]
  <2>1. \E g : Traces(g, Len(steps), steps, init) BY TraceExists
  <2> QED BY <2>1 DEF Traces
<1>3. f = [i \in 0 .. Len(steps) |-> IF i = 0 THEN init ELSE steps[i][f[i - 1]]] BY <1>2
<1> HIDE DEF f
<1> QED BY <1>1, <1>3 DEF Traces

(* I[i] holds after step i. *)
LEMMA RunKeeps ==
    ASSUME NEW n \in Nat, NEW steps, Len(steps) = n, NEW init, NEW I, init \in I[0],
           \A i \in 1 .. n : \A x \in I[i - 1] : steps[i][x] \in I[i]
    PROVE  Run(steps, init) \in I[n]
<1>1. PICK f : Traces(f, n, steps, init) /\ Run(steps, init) = f[n] BY RunIs
<1>2. f[0] = init /\ \A i \in 1 .. n : f[i] = steps[i][f[i - 1]] BY <1>1, TracesIs
<1> DEFINE T == {m \in 0 .. n : f[m] \notin I[m]}
<1> SUFFICES ASSUME T # {} PROVE FALSE BY <1>1
<1>3. T \in SUBSET Nat OBVIOUS
<1>4. PICK m \in T : \A k \in T : m <= k BY <1>3, LeastOf
<1>5. m # 0 BY <1>2, <1>4
<1>6. m - 1 \in 0 .. n /\ m \in 1 .. n /\ m - 1 \notin T BY <1>4, <1>5
<1>7. f[m - 1] \in I[m - 1] BY <1>6
<1> QED BY <1>2, <1>4, <1>6, <1>7

(* The same with one I for all steps *)
LEMMA RunStays ==
    ASSUME NEW n \in Nat, NEW steps, Len(steps) = n, NEW I, NEW init \in I,
           \A i \in 1 .. n : \A x \in I : steps[i][x] \in I
    PROVE  Run(steps, init) \in I
<1> DEFINE J == [i \in 0 .. n |-> I]
<1>1. init \in J[0] /\ (\A i \in 1 .. n : \A x \in J[i - 1] : steps[i][x] \in J[i]) /\ J[n] = I OBVIOUS
<1> HIDE DEF J
<1> QED BY <1>1, RunKeeps
-----------------------------------------------------------------------------
(***************************************************************************)
(* The order in which the blocks are visited has nothing but blocks.       *)
(***************************************************************************)
LEMMA SeqInto == ASSUME NEW S, NEW T, S \subseteq T, NEW s \in Seq(S) PROVE s \in Seq(T)
OBVIOUS
LEMMA ElementIn == ASSUME NEW S, NEW s \in Seq(S), NEW i \in DOMAIN s PROVE s[i] \in S
OBVIOUS
LEMMA HeadIn == ASSUME NEW S, NEW s \in Seq(S), s # <<>> PROVE Head(s) \in S /\ Tail(s) \in Seq(S)
OBVIOUS
LEMMA SeqLen == ASSUME NEW S, NEW s \in Seq(S) PROVE Len(s) \in Nat /\ DOMAIN s = 1 .. Len(s)
OBVIOUS

LEMMA SeqMadeOf ==
    ASSUME NEW S, NEW n \in Nat, NEW s, s = [i \in 1 .. n |-> s[i]], \A i \in 1 .. n : s[i] \in S
    PROVE  s \in Seq(S) /\ Len(s) = n
OBVIOUS

LEMMA InOrderIn ==
    ASSUME NEW set, NEW n \in Nat
    PROVE  InOrder(set, n) \in Seq(set \cap (1 .. n))
<1> DEFINE I == Seq(set \cap (1 .. n))
           steps == [j \in 1 .. n |-> [s \in Seq(Nat) |-> IF j \in set THEN Append(s, j) ELSE s]]
<1>1. Len(steps) = n OBVIOUS
<1>2. ASSUME NEW j \in 1 .. n, NEW x \in I PROVE steps[j][x] \in I
  <2>1. set \cap (1 .. n) \subseteq Nat OBVIOUS
  <2>2. x \in Seq(Nat) BY <2>1, SeqInto
  <2>3. steps[j][x] = IF j \in set THEN Append(x, j) ELSE x BY <2>2
  <2> HIDE DEF steps
  <2> QED BY <2>3
<1>3. <<>> \in I OBVIOUS
<1>4. InOrder(set, n) = Run(steps, <<>>) BY DEF InOrder
<1> HIDE DEF I, steps
<1>5. Run(steps, <<>>) \in I BY <1>1, <1>2, <1>3, RunStays
<1> QED BY <1>4, <1>5 DEF I

IsTree(tree, n) == n \in Nat /\ Len(tree) = n /\ DOMAIN tree = 1 .. n
LEMMA KidsIn ==
    ASSUME NEW tree, NEW n, IsTree(tree, n), NEW i, NEW kind, NEW eval
    PROVE  Kids(tree, i, kind, eval) \in Seq(1 .. n)
<1> DEFINE kid(j) == /\ tree[j].kind = kind /\ Len(tree[j].path) = Len(tree[i].path) + 1
                     /\ tree[j].path[Len(tree[i].path)] = i
                     /\ kind = "cond" /\ eval => tree[j].set
           set == {j \in DOMAIN tree : kid(j)}
<1>1. Kids(tree, i, kind, eval) = InOrder(set, n) BY DEF Kids, IsTree
<1>2. set \cap (1 .. n) \subseteq 1 .. n OBVIOUS
<1> HIDE DEF set
<1>3. InOrder(set, n) \in Seq(set \cap (1 .. n)) BY InOrderIn DEF IsTree
<1>4. InOrder(set, n) \in Seq(1 .. n) BY <1>2, <1>3, SeqInto
<1> QED BY <1>1, <1>4

Walking(n) == [todo : Seq(1 .. n), done : Seq(1 .. n)]
LEMMA VisitIn ==
    ASSUME NEW tree, NEW n, IsTree(tree, n), NEW eval, NEW s \in Walking(n)
    PROVE  Visit(tree, eval, s) \in Walking(n)
<1>1. s.todo \in Seq(1 .. n) /\ s.done \in Seq(1 .. n) BY DEF Walking
<1>2. CASE s.todo = <<>> BY <1>2 DEF Visit
<1>3. CASE s.todo # <<>>
  <2>1. Head(s.todo) \in 1 .. n /\ Tail(s.todo) \in Seq(1 .. n) BY <1>1, <1>3, HeadIn
  <2>2. PICK a : a = Kids(tree, Head(s.todo), "block", eval) OBVIOUS
  <2>3. PICK b : b = Kids(tree, Head(s.todo), "cond", eval) OBVIOUS
  <2>4. a \in Seq(1 .. n) /\ b \in Seq(1 .. n) BY <2>2, <2>3, KidsIn
  <2>5. a \o b \o Tail(s.todo) \in Seq(1 .. n) /\ Append(s.done, Head(s.todo)) \in Seq(1 .. n) BY <1>1, <2>1, <2>4
  <2>6. Visit(tree, eval, s) = [todo |-> a \o b \o Tail(s.todo), done |-> Append(s.done, Head(s.todo))]
    BY <1>3, <2>2, <2>3 DEF Visit
  <2> QED BY <2>5, <2>6 DEF Walking
<1> QED BY <1>2, <1>3

LEMMA WalkIn ==
    ASSUME NEW tree, NEW n, IsTree(tree, n), NEW i \in 1 .. n, NEW eval
    PROVE  Walk(tree, i, eval) \in Seq(1 .. n)
<1> DEFINE steps == [k \in 1 .. Len(tree) |-> [s \in WalkState |-> Visit(tree, eval, s)]]
           init == [todo |-> <<i>>, done |-> <<>>]
<1>1. n \in Nat /\ Len(tree) = n BY DEF IsTree
<1>2. Len(steps) = n BY <1>1
<1>3. ASSUME NEW k \in 1 .. n, NEW x \in Walking(n) PROVE steps[k][x] \in Walking(n)
  <2>1. 1 .. n \subseteq Nat OBVIOUS
  <2>2. x.todo \in Seq(Nat) /\ x.done \in Seq(Nat) BY <2>1, SeqInto DEF Walking
  <2>3. x \in WalkState BY <2>2 DEF WalkState, Walking
  <2>4. steps[k][x] = Visit(tree, eval, x) BY <1>1, <2>3
  <2> HIDE DEF steps
  <2> QED BY <2>4, VisitIn
<1>4. init \in Walking(n) BY DEF Walking
<1>5. Walk(tree, i, eval) = Run(steps, init).done BY DEF Walk
<1> HIDE DEF steps, init
<1>6. Run(steps, init) \in Walking(n) BY <1>1, <1>2, <1>3, <1>4, RunStays
<1> QED BY <1>5, <1>6 DEF Walking
-----------------------------------------------------------------------------
(***************************************************************************)
(* Entries.  The type of an exec permission and the index of its target    *)
(* are there only together with the permission.                            *)
(***************************************************************************)
Objs == {"cp", "proc", "any"} \union {f.obj : f \in Files}
Perms == UserPerms \union OtherPerms \union SharedPerms
XPlaced(e) ==
  /\ "x" \notin e.perms => e.xu = 0 /\ e.perms \intersect {"i", "p", "c"} = {}
  /\ "ox" \notin e.perms => e.xo = 0 /\ e.perms \intersect {"oi", "op", "oc"} = {}
GoodEntries == {e \in Entries : XPlaced(e)}
GoodBlocks == {b \in BlockRecs : b.files \in Seq(GoodEntries)}

LEMMA NewEntryGood ==
    ASSUME NEW obj \in Objs, NEW perms \in SUBSET Perms, TypedWithX(perms), NEW nt \in Names
    PROVE  NewEntry(obj, perms, nt) \in GoodEntries
<1>1. PICK e : e = NewEntry(obj, perms, nt) OBVIOUS
<1>2. e \in Entries /\ e.perms = perms /\ e.xu = 0 /\ e.xo = 0 BY <1>1 DEF NewEntry, Entries, Objs, Perms, Modes, Audits
<1>3. XPlaced(e) BY <1>2 DEF XPlaced, TypedWithX
<1> QED BY <1>1, <1>2, <1>3 DEF GoodEntries

(* What may become of the mode and the audit of a rule *)
Implied(r, p) == {r, [r EXCEPT !.mode = "deny", !.audit = "unspec"], [r EXCEPT !.mode = "deny", !.audit = "implied"],
                  [r EXCEPT !.audit = p.audit]}
LEMMA ImpliedAuditIs == ASSUME NEW r, NEW p PROVE ImpliedAudit(r, p) \in Implied(r, p)
<1>1. \/ ImpliedAudit(r, p) = [r EXCEPT !.mode = "deny", !.audit = "unspec"]
      \/ ImpliedAudit(r, p) = [r EXCEPT !.mode = "deny", !.audit = "implied"]
      \/ ImpliedAudit(r, p) = [r EXCEPT !.audit = p.audit]
      \/ ImpliedAudit(r, p) = r
  BY Zenon DEF ImpliedAudit
<1> QED BY <1>1 DEF Implied

LEMMA ImpliedAuditEntry ==
    ASSUME NEW e \in Entries, NEW p \in PrefixRecs
    PROVE  /\ ImpliedAudit(e, p) \in Entries
           /\ ImpliedAudit(e, p).perms = e.perms /\ ImpliedAudit(e, p).xu = e.xu /\ ImpliedAudit(e, p).xo = e.xo
<1>1. ImpliedAudit(e, p) \in Implied(e, p) BY ImpliedAuditIs
<1>2. ASSUME NEW f \in Implied(e, p) PROVE f \in Entries /\ f.perms = e.perms /\ f.xu = e.xu /\ f.xo = e.xo
  BY DEF Implied, Entries, PrefixRecs, Modes, Audits
<1> QED BY <1>1, <1>2

LEMMA GenericAddPrefixGood ==
    ASSUME NEW e \in GoodEntries, NEW p \in PrefixRecs
    PROVE  GenericAddPrefix(e, p).r \in GoodEntries
<1> DEFINE f == [e EXCEPT !.mode = Given(p.mode, @), !.prio = IF p.prio # 0 THEN p.prio ELSE @]
<1>1. e \in Entries /\ XPlaced(e) BY DEF GoodEntries
<1>2. f \in Entries /\ f.perms = e.perms /\ f.xu = e.xu /\ f.xo = e.xo BY <1>1 DEF Entries, PrefixRecs, Given
<1>3. GenericAddPrefix(e, p).r = ImpliedAudit(f, p) BY DEF GenericAddPrefix
<1> HIDE DEF f
<1>4. PICK g : g = ImpliedAudit(f, p) OBVIOUS
<1>5. g \in Entries /\ g.perms = e.perms /\ g.xu = e.xu /\ g.xo = e.xo BY <1>2, <1>4, ImpliedAuditEntry
<1> QED BY <1>1, <1>3, <1>4, <1>5 DEF GoodEntries, XPlaced

LEMMA EntryAddPrefixGood ==
    ASSUME NEW e \in GoodEntries, NEW p \in PrefixRecs
    PROVE  EntryAddPrefix(e, p).r \in GoodEntries
<1>1. PICK g : g = GenericAddPrefix(e, p).r OBVIOUS
<1>2. g \in GoodEntries BY <1>1, GenericAddPrefixGood
<1>3. g \in Entries /\ XPlaced(g) BY <1>2 DEF GoodEntries
<1> DEFINE perms == CASE p.owner = "owner" -> g.perms \ OtherPerms
                      [] p.owner = "other" -> g.perms \ UserPerms
                      [] OTHER -> g.perms
           xu == IF p.owner = "other" THEN 0 ELSE g.xu
           xo == IF p.owner = "owner" THEN 0 ELSE g.xo
           f == [g EXCEPT !.perms = perms, !.xu = xu, !.xo = xo]
<1>4. EntryAddPrefix(e, p).r = f BY <1>1 DEF EntryAddPrefix
<1>5. perms \in SUBSET Perms /\ xu \in Nat /\ xo \in Nat BY <1>3 DEF Entries, Perms
<1>6. p.owner # "owner" \/ p.owner # "other" OBVIOUS
<1>7. /\ "x" \notin perms => xu = 0 /\ perms \intersect {"i", "p", "c"} = {}
      /\ "ox" \notin perms => xo = 0 /\ perms \intersect {"oi", "op", "oc"} = {}
  BY <1>3 DEF XPlaced, UserPerms, OtherPerms
<1> HIDE DEF perms, xu, xo
<1>8. f \in Entries /\ f.perms = perms /\ f.xu = xu /\ f.xo = xo BY <1>3, <1>5 DEF Entries, Perms
<1> QED BY <1>4, <1>7, <1>8 DEF GoodEntries, XPlaced

LEMMA AddPrefixRule ==
    ASSUME NEW kind, NEW r \in Rules, NEW p \in PrefixRecs
    PROVE  AddPrefix(kind, r, p).r \in Rules
<1> DEFINE f == [r EXCEPT !.prio = p.prio, !.mode = Given(p.mode, @), !.owner = Given(p.owner, @)]
<1>1. f \in Rules BY DEF Rules, PrefixRecs, Given
<1>2. AddPrefix(kind, r, p).r = ImpliedAudit(f, p) BY DEF AddPrefix
<1> HIDE DEF f
<1>3. ImpliedAudit(f, p) \in Implied(f, p) BY ImpliedAuditIs
<1>4. ASSUME NEW g \in Implied(f, p) PROVE g \in Rules BY <1>1 DEF Implied, Rules, PrefixRecs, Modes, Audits
<1> QED BY <1>2, <1>3, <1>4

LEMMA AddPrefixPrefix ==
    ASSUME NEW kind, NEW r \in PrefixRecs, NEW p \in PrefixRecs
    PROVE  AddPrefix(kind, r, p).r \in PrefixRecs
<1> DEFINE f == [r EXCEPT !.prio = p.prio, !.mode = Given(p.mode, @), !.owner = Given(p.owner, @)]
<1>1. f \in PrefixRecs BY DEF PrefixRecs, Given
<1>2. AddPrefix(kind, r, p).r = ImpliedAudit(f, p) BY DEF AddPrefix
<1> HIDE DEF f
<1>3. ImpliedAudit(f, p) \in Implied(f, p) BY ImpliedAuditIs
<1>4. ASSUME NEW g \in Implied(f, p) PROVE g \in PrefixRecs BY <1>1 DEF Implied, PrefixRecs, Modes, Audits
<1> QED BY <1>2, <1>3, <1>4

LEMMA JoinTable == ASSUME NEW S, NEW t \in Tables(S), NEW u \in Tables(S) PROVE Join(t, u) \in Tables(S)
<1>1. /\ DOMAIN t = {"allow", "audit", "deny", "quiet"}
      /\ \A f \in {"allow", "audit", "deny", "quiet"} : t[f] \in SUBSET S /\ u[f] \in SUBSET S
  BY DEF Tables
<1>2. Join(t, u) = [f \in {"allow", "audit", "deny", "quiet"} |-> t[f] \union u[f]] BY <1>1 DEF Join
<1>3. Join(t, u) = [allow |-> t.allow \union u.allow, audit |-> t.audit \union u.audit,
                    deny |-> t.deny \union u.deny, quiet |-> t.quiet \union u.quiet]
  BY <1>2
<1> QED BY <1>1, <1>3 DEF Tables

LEMMA AddCapabilitiesTable ==
    ASSUME NEW S, NEW t \in Tables(S), NEW p, NEW set \in SUBSET S
    PROVE  AddCapabilities(t, p, set) \in Tables(S) /\ AddCompatNet(t, p, set) \in Tables(S)
<1> DEFINE no == [allow |-> {}, audit |-> {}, deny |-> {}, quiet |-> {}]
           u == IF p.mode = "deny"
                THEN [no EXCEPT !.deny = set, !.quiet = IF AuditEq(p.audit, "force") THEN {} ELSE set]
                ELSE [no EXCEPT !.allow = set, !.audit = IF p.audit = "unspec" THEN {} ELSE set]
           v == IF p.mode = "deny"
                THEN [no EXCEPT !.deny = set, !.quiet = IF AuditEq(p.audit, "force") THEN {} ELSE set]
                ELSE [no EXCEPT !.allow = set, !.audit = IF AuditEq(p.audit, "force") THEN set ELSE {}]
<1>1. u \in Tables(S) /\ v \in Tables(S) BY DEF Tables
<1>2. AddCapabilities(t, p, set) = Join(t, u) /\ AddCompatNet(t, p, set) = Join(t, v)
  BY DEF AddCapabilities, AddCompatNet, NoTable
<1> HIDE DEF u, v
<1> QED BY <1>1, <1>2, JoinTable

LEMMA PrefixGroupsTable == ASSUME NEW S, NEW t \in Tables(S), NEW p PROVE PrefixGroups(t, p) \in Tables(S)
<1>1. PICK g : g = Groups(t) OBVIOUS
<1>2. g.allowPlain \in SUBSET S /\ g.allowAudit \in SUBSET S /\ g.denyQuiet \in SUBSET S /\ g.denyAudit \in SUBSET S
  BY <1>1 DEF Groups, Tables
<1> QED BY <1>1, <1>2 DEF PrefixGroups, Tables, NoTable
-----------------------------------------------------------------------------
(***************************************************************************)
(* Blocks stay blocks with such entries.                                   *)
(***************************************************************************)
LEMMA GoodEntriesIn == ASSUME NEW s \in Seq(GoodEntries) PROVE s \in Seq(Entries)
<1>1. GoodEntries \subseteq Entries BY DEF GoodEntries
<1> QED BY <1>1, SeqInto

LEMMA GoodIs ==
    ASSUME NEW b \in GoodBlocks
    PROVE  /\ b \in BlockRecs /\ b.files \in Seq(GoodEntries) /\ b.rules \in Seq(Rules) /\ b.pre \in PrefixRecs
           /\ b.caps \in Tables(AllCaps) /\ b.net \in Tables(AllTypes) /\ b.rlimits \in Limits /\ b.xtab \in Seq(Names)
           /\ b.prompt \in BOOLEAN
BY DEF GoodBlocks, BlockRecs

(* A block with other rules *)
Refiled(b, fs, pr) == [b EXCEPT !.files = fs, !.prompt = pr]
Reruled(b, rs, pr) == [b EXCEPT !.rules = rs, !.prompt = pr]
LEMMA WithFiles ==
    ASSUME NEW b \in GoodBlocks, NEW fs \in Seq(GoodEntries), NEW pr \in BOOLEAN
    PROVE  Refiled(b, fs, pr) \in GoodBlocks
<1>1. fs \in Seq(Entries) BY GoodEntriesIn
<1>2. [b EXCEPT !.files = fs, !.prompt = pr] \in BlockRecs BY <1>1, GoodIs DEF BlockRecs
<1>3. [b EXCEPT !.files = fs, !.prompt = pr].files = fs BY GoodIs DEF BlockRecs
<1> QED BY <1>2, <1>3 DEF GoodBlocks, Refiled
LEMMA WithRules ==
    ASSUME NEW b \in GoodBlocks, NEW rs \in Seq(Rules), NEW pr \in BOOLEAN
    PROVE  Reruled(b, rs, pr) \in GoodBlocks
BY GoodIs DEF Reruled, BlockRecs, GoodBlocks
LEMMA WithTables ==
    ASSUME NEW b \in GoodBlocks, NEW c \in Tables(AllCaps), NEW t \in Tables(AllTypes)
    PROVE  /\ [b EXCEPT !.caps = c] \in GoodBlocks /\ [b EXCEPT !.net = t] \in GoodBlocks
           /\ [b EXCEPT !.net = t, !.caps = c] \in GoodBlocks
BY GoodIs DEF BlockRecs, GoodBlocks

LEMMA AddEntryGood ==
    ASSUME NEW b \in GoodBlocks, NEW e \in GoodEntries
    PROVE  AddEntry(b, e) \in GoodBlocks
<1>1. b.files \in Seq(GoodEntries) BY GoodIs
<1>2. <<e>> \o b.files \in Seq(GoodEntries) BY <1>1
<1>3. PICK pr : pr \in BOOLEAN /\ pr = (b.prompt \/ e.mode = "prompt") OBVIOUS
<1>4. AddEntry(b, e) = Refiled(b, <<e>> \o b.files, pr) BY <1>3 DEF Refiled, AddEntry
<1> QED BY <1>2, <1>3, <1>4, WithFiles

LEMMA AddRuleGood ==
    ASSUME NEW b \in GoodBlocks, NEW r \in Rules
    PROVE  AddRule(b, r) \in GoodBlocks
<1>1. Append(b.rules, r) \in Seq(Rules) BY GoodIs
<1>2. PICK pr : pr \in BOOLEAN /\ pr = (b.prompt \/ r.mode = "prompt") OBVIOUS
<1>3. AddRule(b, r) = Reruled(b, Append(b.rules, r), pr) BY <1>2 DEF Reruled, AddRule
<1> QED BY <1>1, <1>2, <1>3, WithRules

LEMMA NewRuleIn ==
    ASSUME NEW kind \in RuleKinds, NEW obj \in RuleKinds \union AllTypes \union {"any"}
    PROVE  NewRule(kind, obj) \in Rules
BY DEF NewRule, Rules, Audits, Modes, Owners

LEMMA AddProcAccessGood == ASSUME NEW b \in GoodBlocks PROVE AddProcAccess(b) \in GoodBlocks
<1> DEFINE r == NewEntry("proc", {"r"}, NoName)
           w == NewEntry("proc", {"w"}, NoName)
<1>1. "proc" \in Objs /\ {"r"} \in SUBSET Perms /\ {"w"} \in SUBSET Perms /\ NoName \in Names
  BY DEF Objs, Perms, UserPerms, NoName, Names
<1>2. TypedWithX({"r"}) /\ TypedWithX({"w"}) BY DEF TypedWithX
<1>3. r \in GoodEntries /\ w \in GoodEntries BY <1>1, <1>2, NewEntryGood
<1>4. AddProcAccess(b) = AddEntry(AddEntry(b, r), w) BY DEF AddProcAccess
<1> HIDE DEF r, w
<1> QED BY <1>3, <1>4, AddEntryGood

LEMMA RulesAddPrefixGood ==
    ASSUME NEW b \in GoodBlocks, NEW p \in PrefixRecs
    PROVE  RulesAddPrefix(b, p).b \in GoodBlocks
<1> DEFINE fs == [i \in 1 .. Len(b.files) |-> EntryAddPrefix(b.files[i], p)]
           rs == [i \in 1 .. Len(b.rules) |-> AddPrefix(b.rules[i].kind, b.rules[i], p)]
           f == [i \in 1 .. Len(b.files) |-> fs[i].r]
           r == [i \in 1 .. Len(b.rules) |-> rs[i].r]
           n == ApplyCompatPrefix(b.net, p)
           c == CapsAddPrefix(b.caps, p).r
           pr == b.prompt \/ p.mode = "prompt"
<1>1. b.files \in Seq(GoodEntries) /\ b.rules \in Seq(Rules) BY GoodIs
<1>2. f \in Seq(GoodEntries)
  <2>1. \A i \in 1 .. Len(b.files) : b.files[i] \in GoodEntries BY <1>1
  <2>2. \A i \in 1 .. Len(b.files) : f[i] = EntryAddPrefix(b.files[i], p).r OBVIOUS
  <2>3. Len(b.files) \in Nat /\ f = [i \in 1 .. Len(b.files) |-> f[i]] BY <1>1
  <2> HIDE DEF f
  <2>4. \A i \in 1 .. Len(b.files) : f[i] \in GoodEntries BY <2>1, <2>2, EntryAddPrefixGood
  <2> QED BY <2>3, <2>4, SeqMadeOf
<1>3. r \in Seq(Rules)
  <2>1. \A i \in 1 .. Len(b.rules) : b.rules[i] \in Rules BY <1>1
  <2>2. \A i \in 1 .. Len(b.rules) : r[i] = AddPrefix(b.rules[i].kind, b.rules[i], p).r OBVIOUS
  <2>3. Len(b.rules) \in Nat /\ r = [i \in 1 .. Len(b.rules) |-> r[i]] BY <1>1
  <2> HIDE DEF r
  <2>4. \A i \in 1 .. Len(b.rules) : r[i] \in Rules BY <2>1, <2>2, AddPrefixRule
  <2> QED BY <2>3, <2>4, SeqMadeOf
<1>4. n \in Tables(AllTypes) /\ c \in Tables(AllCaps) BY GoodIs, PrefixGroupsTable DEF ApplyCompatPrefix, CapsAddPrefix
<1>5. pr \in BOOLEAN BY GoodIs
<1>6. RulesAddPrefix(b, p).b = [b EXCEPT !.files = f, !.rules = r, !.net = n, !.caps = c, !.prompt = pr]
  BY DEF RulesAddPrefix
<1> HIDE DEF fs, rs, f, r, n, c, pr
<1>7. f \in Seq(Entries) BY <1>2, GoodEntriesIn
<1>8. [b EXCEPT !.files = f, !.rules = r, !.net = n, !.caps = c, !.prompt = pr] \in BlockRecs
  BY <1>3, <1>4, <1>5, <1>7, GoodIs DEF BlockRecs
<1>9. [b EXCEPT !.files = f, !.rules = r, !.net = n, !.caps = c, !.prompt = pr].files = f BY GoodIs DEF BlockRecs
<1> QED BY <1>2, <1>6, <1>8, <1>9 DEF GoodBlocks

LEMMA BlockAddPrefixGood ==
    ASSUME NEW bs \in Seq(GoodBlocks), NEW i \in DOMAIN bs, NEW p \in PrefixRecs
    PROVE  BlockAddPrefix(bs, i, p).bs \in Seq(GoodBlocks) /\ Len(BlockAddPrefix(bs, i, p).bs) = Len(bs)
<1> DEFINE own == AddPrefix("block", bs[i].pre, p).r
           done == [j \in DOMAIN bs |-> IF j \in Under(i) THEN RulesAddPrefix(bs[j], p) ELSE [ok |-> TRUE, b |-> bs[j]]]
           s == [j \in 1 .. Len(bs) |-> IF j = i THEN [done[j].b EXCEPT !.pre = own] ELSE done[j].b]
<1>1. BlockAddPrefix(bs, i, p).bs = s BY DEF BlockAddPrefix
<1>2. Len(bs) \in Nat /\ DOMAIN bs = 1 .. Len(bs) /\ s = [j \in 1 .. Len(bs) |-> s[j]] OBVIOUS
<1>3. own \in PrefixRecs
  <2>1. bs[i].pre \in PrefixRecs BY ElementIn, GoodIs
  <2> QED BY <2>1, AddPrefixPrefix
<1>4. ASSUME NEW j \in 1 .. Len(bs) PROVE s[j] \in GoodBlocks
  <2>1. bs[j] \in GoodBlocks OBVIOUS
  <2>2. done[j].b \in GoodBlocks
    <3>1. done[j] = IF j \in Under(i) THEN RulesAddPrefix(bs[j], p) ELSE [ok |-> TRUE, b |-> bs[j]] BY <1>2
    <3> HIDE DEF done
    <3>2. RulesAddPrefix(bs[j], p).b \in GoodBlocks BY <2>1, RulesAddPrefixGood
    <3> QED BY <2>1, <3>1, <3>2
  <2>3. s[j] = IF j = i THEN [done[j].b EXCEPT !.pre = own] ELSE done[j].b OBVIOUS
  <2> HIDE DEF done, own, s
  <2>4. PICK b : b = done[j].b OBVIOUS
  <2>5. b \in GoodBlocks => [b EXCEPT !.pre = own] \in GoodBlocks BY <1>3, GoodIs DEF BlockRecs, GoodBlocks
  <2> QED BY <2>2, <2>3, <2>4, <2>5
<1> HIDE DEF s
<1> QED BY <1>1, <1>2, <1>4, SeqMadeOf

LEMMA MergeCompatRulesGood ==
    ASSUME NEW a \in GoodBlocks, NEW b \in GoodBlocks
    PROVE  MergeCompatRules(a, b).b \in GoodBlocks
<1> DEFINE c == Join(a.caps, b.caps)
           n == Join(a.net, b.net)
           l == [specified |-> a.rlimits.specified \union b.rlimits.specified,
                 limits |-> [x \in LimitNames |-> IF b.rlimits.limits[x] # 0 THEN b.rlimits.limits[x] ELSE a.rlimits.limits[x]]]
<1>1. c \in Tables(AllCaps) /\ n \in Tables(AllTypes) BY GoodIs, JoinTable
<1>2. a.rlimits \in Limits /\ b.rlimits \in Limits BY GoodIs
<1>3. l \in Limits BY <1>2 DEF Limits
<1>4. PICK pr : pr \in BOOLEAN /\ pr = (a.prompt \/ b.prompt) BY GoodIs
<1>5. MergeCompatRules(a, b).b = [a EXCEPT !.caps = c, !.net = n, !.prompt = pr, !.rlimits = l] BY <1>4 DEF MergeCompatRules
<1> HIDE DEF c, n, l
<1>6. [a EXCEPT !.caps = c, !.net = n, !.prompt = pr, !.rlimits = l] \in GoodBlocks
  BY <1>1, <1>3, <1>4, GoodIs DEF BlockRecs, GoodBlocks
<1> QED BY <1>5, <1>6

LEMMA AllImpliesGood ==
    ASSUME NEW b \in GoodBlocks, NEW all \in Rules
    PROVE  AllImplies(b, all) \in GoodBlocks
<1> DEFINE p == [prio |-> all.prio, audit |-> all.audit, mode |-> all.mode, owner |-> all.owner]
           perms == IF p.mode = "deny" THEN {"r"} ELSE {"r", "or"}
           exec == {"x", "ox"} \union (IF p.mode = "deny" THEN {} ELSE {"i", "oi"})
           q == [p EXCEPT !.prio = p.prio - 1]
           file == EntryAddPrefix(NewEntry("any", perms, NoName), p).r
           ix == EntryAddPrefix(NewEntry("any", exec, NoName), q).r
           ipc == AddPrefix("ipc", NewRule("ipc", "any"), p).r
           net == AddPrefix("net", NewRule("net", "any"), p).r
           b1 == AddEntry(AddEntry(AddRule(AddRule(b, ipc), net), file), ix)
<1>1. p \in PrefixRecs /\ q \in PrefixRecs BY DEF PrefixRecs, Rules
<1>2. perms \in SUBSET Perms /\ exec \in SUBSET Perms BY DEF Perms, UserPerms, OtherPerms
<1>3. TypedWithX(perms) /\ TypedWithX(exec) BY DEF TypedWithX
<1>4. AllImplies(b, all) = [b1 EXCEPT !.net = AddCompatNet(b1.net, p, AllTypes), !.caps = AddCapabilities(b1.caps, p, AllCaps)]
  BY DEF AllImplies
<1> HIDE DEF p, q, perms, exec
<1>5. "any" \in Objs /\ NoName \in Names BY DEF Objs, NoName, Names
<1>6. file \in GoodEntries /\ ix \in GoodEntries
  <2>1. NewEntry("any", perms, NoName) \in GoodEntries /\ NewEntry("any", exec, NoName) \in GoodEntries
    BY <1>2, <1>3, <1>5, NewEntryGood
  <2> QED BY <1>1, <2>1, EntryAddPrefixGood
<1>7. ipc \in Rules /\ net \in Rules
  <2>1. NewRule("ipc", "any") \in Rules /\ NewRule("net", "any") \in Rules BY NewRuleIn DEF RuleKinds
  <2> QED BY <1>1, <2>1, AddPrefixRule
<1> HIDE DEF file, ix, ipc, net
<1>8. b1 \in GoodBlocks
  <2>1. AddRule(b, ipc) \in GoodBlocks BY <1>7, AddRuleGood
  <2>2. AddRule(AddRule(b, ipc), net) \in GoodBlocks BY <1>7, <2>1, AddRuleGood
  <2>3. AddEntry(AddRule(AddRule(b, ipc), net), file) \in GoodBlocks BY <1>6, <2>2, AddEntryGood
  <2> QED BY <1>6, <2>3, AddEntryGood
<1> HIDE DEF b1
<1>9. AddCompatNet(b1.net, p, AllTypes) \in Tables(AllTypes) /\ AddCapabilities(b1.caps, p, AllCaps) \in Tables(AllCaps)
  BY <1>8, GoodIs, AddCapabilitiesTable
<1> QED BY <1>4, <1>8, <1>9, WithTables
-----------------------------------------------------------------------------
(***************************************************************************)
(* The loops over the blocks of a profile keep the blocks good.            *)
(***************************************************************************)
Sized(n) == {bs \in Seq(GoodBlocks) : Len(bs) = n}
LEMMA SizedIs ==
    ASSUME NEW n \in Nat, NEW bs \in Sized(n)
    PROVE  /\ bs \in Seq(GoodBlocks) /\ bs \in Seq(BlockRecs) /\ Len(bs) = n /\ DOMAIN bs = 1 .. n
           /\ \A j \in 1 .. n : bs[j] \in GoodBlocks
           /\ IsTree(Tree(bs), n)
<1>1. bs \in Seq(GoodBlocks) /\ Len(bs) = n BY DEF Sized
<1>2. GoodBlocks \subseteq BlockRecs BY DEF GoodBlocks
<1>3. bs \in Seq(BlockRecs) BY <1>1, <1>2, SeqInto
<1>4. DOMAIN bs = 1 .. n /\ \A j \in 1 .. n : bs[j] \in GoodBlocks BY <1>1
<1>5. Len(Tree(bs)) = n /\ DOMAIN Tree(bs) = 1 .. n BY <1>1 DEF Tree
<1> QED BY <1>1, <1>3, <1>4, <1>5 DEF IsTree

SetAt(bs, j, b) == [bs EXCEPT ![j] = b]
LEMMA SetAtSized ==
    ASSUME NEW n \in Nat, NEW bs \in Sized(n), NEW j \in 1 .. n, NEW b \in GoodBlocks
    PROVE  SetAt(bs, j, b) \in Sized(n) /\ SetAt(bs, j, b)[j] = b
<1>1. bs \in Seq(GoodBlocks) /\ Len(bs) = n BY DEF Sized
<1> QED BY <1>1 DEF Sized, SetAt

LEMMA AllsImplyGood ==
    ASSUME NEW b \in GoodBlocks, NEW rs \in Seq(Rules)
    PROVE  AllsImply(b, rs) \in GoodBlocks
<1> DEFINE steps == [k \in 1 .. Len(rs) |-> [c \in BlockRecs |-> IF rs[k].kind = "all" THEN AllImplies(c, rs[k]) ELSE c]]
<1>1. Len(rs) \in Nat /\ Len(steps) = Len(rs) OBVIOUS
<1>2. ASSUME NEW k \in 1 .. Len(rs), NEW c \in GoodBlocks PROVE steps[k][c] \in GoodBlocks
  <2>1. c \in BlockRecs /\ rs[k] \in Rules BY GoodIs
  <2>2. steps[k][c] = IF rs[k].kind = "all" THEN AllImplies(c, rs[k]) ELSE c BY <2>1
  <2> HIDE DEF steps
  <2> QED BY <2>1, <2>2, AllImpliesGood
<1>3. AllsImply(b, rs) = Run(steps, b) BY DEF AllsImply
<1> HIDE DEF steps
<1>4. PICK n1 : n1 = Len(steps) /\ n1 \in Nat BY <1>1
<1>5. \A k \in 1 .. n1 : \A c \in GoodBlocks : steps[k][c] \in GoodBlocks BY <1>1, <1>2, <1>4
<1>6. Run(steps, b) \in GoodBlocks BY <1>4, <1>5, RunStays
<1> QED BY <1>3, <1>6

LEMMA ImpliedInGood ==
    ASSUME NEW n \in Nat, NEW bs \in Sized(n), NEW order \in Seq(1 .. n), NEW b \in GoodBlocks
    PROVE  ImpliedIn(order, bs, b) \in GoodBlocks
<1> DEFINE steps == [k \in 1 .. Len(order) |-> [c \in BlockRecs |-> AllsImply(c, bs[order[k]].rules)]]
<1>1. Len(order) \in Nat /\ Len(steps) = Len(order) OBVIOUS
<1>2. ASSUME NEW k \in 1 .. Len(order), NEW c \in GoodBlocks PROVE steps[k][c] \in GoodBlocks
  <2>1. c \in BlockRecs /\ order[k] \in 1 .. n BY GoodIs
  <2>2. bs[order[k]] \in GoodBlocks BY <2>1, SizedIs
  <2>3. bs[order[k]].rules \in Seq(Rules) BY <2>2, GoodIs
  <2>4. steps[k][c] = AllsImply(c, bs[order[k]].rules) BY <2>1
  <2> HIDE DEF steps
  <2> QED BY <2>3, <2>4, AllsImplyGood
<1>3. ImpliedIn(order, bs, b) = Run(steps, b) BY DEF ImpliedIn
<1> HIDE DEF steps
<1>4. PICK n1 : n1 = Len(steps) /\ n1 \in Nat BY <1>1
<1>5. \A k \in 1 .. n1 : \A c \in GoodBlocks : steps[k][c] \in GoodBlocks BY <1>1, <1>2, <1>4
<1>6. Run(steps, b) \in GoodBlocks BY <1>4, <1>5, RunStays
<1> QED BY <1>3, <1>6

LEMMA AddImpliedToGood ==
    ASSUME NEW n \in Nat, NEW bs \in Sized(n), NEW root \in 1 .. n
    PROVE  AddImpliedTo(bs, root) \in Sized(n)
<1> DEFINE order == Walk(Tree(bs), root, TRUE)
           b == ImpliedIn(order, bs, bs[root])
           all == SetAt(bs, root, b)
<1>1. order \in Seq(1 .. n) BY SizedIs, WalkIn
<1> HIDE DEF order
<1>2. b \in GoodBlocks BY <1>1, SizedIs, ImpliedInGood
<1>3. all \in Sized(n) /\ all[root] = b BY <1>2, SetAtSized
<1>4. \/ AddImpliedTo(bs, root) = SetAt(all, root, AddProcAccess(all[root]))
      \/ AddImpliedTo(bs, root) = all
  BY Zenon DEF AddImpliedTo, SetAt, all, b, order
<1> HIDE DEF all, b
<1>5. AddProcAccess(all[root]) \in GoodBlocks BY <1>2, <1>3, AddProcAccessGood
<1> QED BY <1>3, <1>4, <1>5, SetAtSized

(* The roots are blocks. *)
LEMMA RootsIn ==
    ASSUME NEW n \in Nat, blocks \in Sized(n)
    PROVE  Roots \in Seq(1 .. n)
<1> DEFINE set == {i \in DOMAIN blocks : blocks[i].kind \in {"main", "hat"}}
<1>1. Len(blocks) = n BY SizedIs
<1>2. Roots = InOrder(set, n) BY <1>1 DEF Roots
<1>3. set \cap (1 .. n) \subseteq 1 .. n OBVIOUS
<1> HIDE DEF set
<1>4. InOrder(set, n) \in Seq(set \cap (1 .. n)) BY InOrderIn
<1> QED BY <1>2, <1>3, <1>4, SeqInto

AllImplied == Run([k \in 1 .. Len(Roots) |-> [bs \in Seq(BlockRecs) |-> AddImpliedTo(bs, Roots[k])]], blocks)
LEMMA AllImpliedGood ==
    ASSUME NEW n \in Nat, blocks \in Sized(n)
    PROVE  AllImplied \in Sized(n)
<1>1. PICK rs : rs = Roots OBVIOUS
<1> DEFINE steps == [k \in 1 .. Len(rs) |-> [bs \in Seq(BlockRecs) |-> AddImpliedTo(bs, rs[k])]]
<1>2. rs \in Seq(1 .. n) BY <1>1, RootsIn
<1>3. Len(rs) \in Nat /\ Len(steps) = Len(rs) BY <1>2
<1>4. ASSUME NEW k \in 1 .. Len(rs), NEW bs \in Sized(n) PROVE steps[k][bs] \in Sized(n)
  <2>1. bs \in Seq(BlockRecs) /\ rs[k] \in 1 .. n BY <1>2, SizedIs
  <2>2. steps[k][bs] = AddImpliedTo(bs, rs[k]) BY <2>1
  <2> HIDE DEF steps
  <2> QED BY <2>1, <2>2, AddImpliedToGood
<1>5. AllImplied = Run(steps, blocks) BY <1>1 DEF AllImplied
<1> HIDE DEF steps
<1> QED BY <1>3, <1>4, <1>5, RunStays

(***************************************************************************)
(* Named transitions                                                       *)
(***************************************************************************)
LEMMA AddEntryToXTableIs ==
    ASSUME NEW tab \in Seq(Names), NEW name \in Names
    PROVE  AddEntryToXTable(tab, name).tab \in Seq(Names) /\ AddEntryToXTable(tab, name).n \in Nat
<1>1. CASE \E i \in DOMAIN tab : tab[i] = name
  <2>1. PICK i : i = CHOOSE k \in DOMAIN tab : tab[k] = name OBVIOUS
  <2>2. i \in DOMAIN tab BY <1>1, <2>1
  <2>3. i \in Nat BY <2>2
  <2>4. AddEntryToXTable(tab, name) = [tab |-> tab, n |-> Local + i] BY <1>1, <2>1 DEF AddEntryToXTable
  <2> QED BY <2>3, <2>4 DEF Local
<1>2. CASE ~(\E i \in DOMAIN tab : tab[i] = name)
  <2>1. AddEntryToXTable(tab, name) = IF Len(tab) < ExecSlots THEN [tab |-> Append(tab, name), n |-> Local + Len(tab) + 1]
                                      ELSE [tab |-> tab, n |-> 0]
    BY <1>2, Zenon DEF AddEntryToXTable
  <2>2. Append(tab, name) \in Seq(Names) /\ Local + Len(tab) + 1 \in Nat BY DEF Local
  <2> QED BY <2>1, <2>2
<1> QED BY <1>1, <1>2

LEMMA AddNamedTransitionIs ==
    ASSUME NEW tab \in Seq(Names), NEW root, NEW e \in Entries
    PROVE  AddNamedTransition(tab, root, e).tab \in Seq(Names) /\ AddNamedTransition(tab, root, e).n \in Nat
<1>1. e.nt \in Names BY DEF Entries
<1>2. ProfName(root) \in {"P", "hat"} BY DEF ProfName
<1>3. [e.nt EXCEPT !.prof = ProfName(root)] \in Names BY <1>1, <1>2 DEF Names
<1>4. PICK nm : nm = IF ~e.nt.ns /\ ("c" \in e.perms \/ "oc" \in e.perms) THEN [e.nt EXCEPT !.prof = ProfName(root)] ELSE e.nt OBVIOUS
<1>5. nm \in Names BY <1>1, <1>3, <1>4
<1>6. \/ AddNamedTransition(tab, root, e) = [tab |-> tab, n |-> Local]
      \/ AddNamedTransition(tab, root, e) = AddEntryToXTable(tab, nm)
  BY <1>4, Zenon DEF AddNamedTransition
<1> QED BY <1>5, <1>6, AddEntryToXTableIs DEF Local

Retabled(b, t) == [b EXCEPT !.xtab = t]
LEMMA WithXtab ==
    ASSUME NEW b \in GoodBlocks, NEW t \in Seq(Names)
    PROVE  Retabled(b, t) \in GoodBlocks /\ Retabled(b, t).files = b.files
BY GoodIs DEF Retabled, BlockRecs, GoodBlocks

Replaced(b, k, e) == [b EXCEPT !.files[k] = e]
LEMMA WithFileAt ==
    ASSUME NEW b \in GoodBlocks, NEW k \in DOMAIN b.files, NEW e \in GoodEntries
    PROVE  Replaced(b, k, e) \in GoodBlocks /\ Len(Replaced(b, k, e).files) = Len(b.files)
<1>1. PICK fs : fs = [b.files EXCEPT ![k] = e] OBVIOUS
<1>2. b.files \in Seq(GoodEntries) BY GoodIs
<1>3. fs \in Seq(GoodEntries) /\ Len(fs) = Len(b.files) BY <1>1, <1>2
<1>4. b.prompt \in BOOLEAN BY GoodIs
<1>5. Replaced(b, k, e) = Refiled(b, fs, b.prompt) /\ Refiled(b, fs, b.prompt).files = fs
  BY <1>1, GoodIs DEF Replaced, Refiled, BlockRecs
<1> QED BY <1>3, <1>4, <1>5, WithFiles

Parsing(n) == [ok : BOOLEAN, bs : Sized(n)]
LEMMA ParsingIs ==
    ASSUME NEW n \in Nat, NEW a \in Parsing(n)
    PROVE  a \in ParseState /\ a.bs \in Sized(n) /\ a.ok \in BOOLEAN /\ a.bs \in Seq(BlockRecs)
<1>1. a.bs \in Sized(n) BY DEF Parsing
<1>2. a.bs \in Seq(BlockRecs) BY <1>1, SizedIs
<1> QED BY <1>1, <1>2 DEF Parsing, ParseState

(* The states of the loop over the files of block j *)
Naming(n, j, m) == {a \in Parsing(n) : Len(a.bs[j].files) = m}
LEMMA NameTransitionGood ==
    ASSUME NEW n \in Nat, NEW j \in 1 .. n, NEW root \in 1 .. n, NEW m \in Nat, NEW a \in Naming(n, j, m), NEW k \in 1 .. m
    PROVE  NameTransition(a, j, root, k) \in Naming(n, j, m)
<1>1. a \in Parsing(n) /\ Len(a.bs[j].files) = m BY DEF Naming
<1>2. PICK bs : bs = a.bs OBVIOUS
<1>3. bs \in Sized(n) /\ a.ok \in BOOLEAN /\ bs[j] \in GoodBlocks /\ bs[root] \in GoodBlocks
  BY <1>1, <1>2, ParsingIs, SizedIs
<1>4. bs[j].files \in Seq(GoodEntries) /\ bs[root].xtab \in Seq(Names) BY <1>3, GoodIs
<1>5. k \in DOMAIN bs[j].files BY <1>1, <1>2, <1>4
<1>6. PICK e : e = bs[j].files[k] OBVIOUS
<1>7. e \in GoodEntries /\ e \in Entries BY <1>4, <1>5, <1>6 DEF GoodEntries
<1>8. PICK x : x = AddNamedTransition(bs[root].xtab, root, e) OBVIOUS
<1>9. x.tab \in Seq(Names) /\ x.n \in Nat BY <1>4, <1>7, <1>8, AddNamedTransitionIs
<1> DEFINE done == [e EXCEPT !.nt = NoName, !.xu = IF "x" \in e.perms THEN x.n ELSE 0,
                             !.xo = IF "ox" \in e.perms THEN x.n ELSE 0]
           c == Retabled(bs[root], x.tab)
           bs1 == SetAt(bs, root, c)
           d == Replaced(bs1[j], k, done)
           bs2 == SetAt(bs1, j, d)
<1>10. \/ NameTransition(a, j, root, k) = a
       \/ NameTransition(a, j, root, k) = [a EXCEPT !.ok = FALSE]
       \/ NameTransition(a, j, root, k) = [a EXCEPT !.bs = bs2]
  <2>1. bs2 = [bs EXCEPT ![root].xtab = x.tab, ![j].files[k] = done] BY Zenon DEF SetAt, Retabled, Replaced
  <2> HIDE DEF bs2
  <2>2. NameTransition(a, j, root, k) = IF ~a.ok \/ e.nt = NoName THEN a
                                        ELSE IF x.n = 0 THEN [a EXCEPT !.ok = FALSE]
                                        ELSE [a EXCEPT !.bs = bs2]
    BY <1>2, <1>6, <1>8, <2>1 DEF NameTransition
  <2> QED BY <2>2, Zenon
<1>11. [a EXCEPT !.ok = FALSE] \in Naming(n, j, m) BY <1>1 DEF Naming, Parsing
<1>12. done \in GoodEntries
  <2>1. NoName \in Names BY DEF NoName, Names
  <2>2. done \in Entries /\ done.perms = e.perms BY <1>7, <1>9, <2>1 DEF Entries
  <2>3. done.xu = IF "x" \in e.perms THEN x.n ELSE 0 BY <1>7 DEF Entries
  <2>4. done.xo = IF "ox" \in e.perms THEN x.n ELSE 0 BY <1>7 DEF Entries
  <2> HIDE DEF done
  <2>5. XPlaced(e) BY <1>7 DEF GoodEntries
  <2>6. XPlaced(done) BY <2>2, <2>3, <2>4, <2>5 DEF XPlaced
  <2> QED BY <2>2, <2>6 DEF GoodEntries
<1> HIDE DEF done
<1>13. c \in GoodBlocks /\ c.files = bs[root].files BY <1>3, <1>9, WithXtab
<1> HIDE DEF c
<1>14. bs1 \in Sized(n) /\ bs1[root] = c BY <1>3, <1>13, SetAtSized
<1>15. bs1[j].files = bs[j].files
  <2>1. j # root => bs1[j] = bs[j] BY <1>3, SizedIs DEF SetAt
  <2> QED BY <1>13, <1>14, <2>1
<1> HIDE DEF bs1
<1>16. d \in GoodBlocks /\ Len(d.files) = m
  <2>1. bs1[j] \in GoodBlocks BY <1>14, SizedIs
  <2> QED BY <1>1, <1>2, <1>5, <1>12, <1>15, <2>1, WithFileAt
<1> HIDE DEF d
<1>17. bs2 \in Sized(n) /\ bs2[j] = d BY <1>14, <1>16, SetAtSized
<1> HIDE DEF bs2
<1>18. [a EXCEPT !.bs = bs2] \in Naming(n, j, m) BY <1>1, <1>16, <1>17 DEF Naming, Parsing
<1> QED BY <1>10, <1>11, <1>18

LEMMA PostParseFileGood ==
    ASSUME NEW n \in Nat, NEW j \in 1 .. n, NEW root \in 1 .. n, NEW a \in Parsing(n)
    PROVE  PostParseFile(a, j, root) \in Parsing(n)
<1>1. PICK m : m = Len(a.bs[j].files) OBVIOUS
<1> DEFINE steps == [k \in 1 .. m |-> [s \in ParseState |-> NameTransition(s, j, root, k)]]
           named == Run(steps, a)
<1>2. m \in Nat
  <2>1. a.bs[j] \in GoodBlocks BY ParsingIs, SizedIs
  <2>2. a.bs[j].files \in Seq(GoodEntries) BY <2>1, GoodIs
  <2> QED BY <1>1, <2>2
<1>3. Len(steps) = m BY <1>2
<1>4. ASSUME NEW k \in 1 .. m, NEW s \in Naming(n, j, m) PROVE steps[k][s] \in Naming(n, j, m)
  <2>1. s \in ParseState BY ParsingIs DEF Naming
  <2>2. steps[k][s] = NameTransition(s, j, root, k) BY <2>1
  <2> HIDE DEF steps
  <2> QED BY <1>2, <2>2, NameTransitionGood
<1>5. a \in Naming(n, j, m) BY <1>1 DEF Naming
<1>6. PICK nm : nm = named OBVIOUS
<1>7. \/ PostParseFile(a, j, root) = nm
      \/ PostParseFile(a, j, root) = [nm EXCEPT !.bs[root] = AddProcAccess(@)]
  BY <1>1, <1>6, Zenon DEF PostParseFile
<1> HIDE DEF steps
<1>8. named \in Naming(n, j, m) BY <1>2, <1>3, <1>4, <1>5, RunStays
<1>9. nm \in Parsing(n) BY <1>6, <1>8 DEF Naming
<1>10. nm.bs \in Sized(n) /\ nm.bs[root] \in GoodBlocks BY <1>9, ParsingIs, SizedIs
<1>11. SetAt(nm.bs, root, AddProcAccess(nm.bs[root])) \in Sized(n) BY <1>10, AddProcAccessGood, SetAtSized
<1>12. [nm EXCEPT !.bs = SetAt(nm.bs, root, AddProcAccess(nm.bs[root]))] \in Parsing(n) BY <1>9, <1>11 DEF Parsing
<1>13. [nm EXCEPT !.bs[root] = AddProcAccess(@)] = [nm EXCEPT !.bs = SetAt(nm.bs, root, AddProcAccess(nm.bs[root]))] BY DEF SetAt
<1> QED BY <1>7, <1>9, <1>12, <1>13, Zenon

LEMMA PostParseGood ==
    ASSUME NEW n \in Nat, NEW bs \in Sized(n), NEW root \in 1 .. n
    PROVE  PostParse(bs, root).bs \in Sized(n)
<1> DEFINE order == Walk(Tree(bs), root, TRUE)
           steps == [k \in 1 .. Len(order) |-> [s \in ParseState |-> PostParseFile(s, order[k], root)]]
           init == [ok |-> TRUE, bs |-> bs]
<1>1. order \in Seq(1 .. n) BY SizedIs, WalkIn
<1>2. PostParse(bs, root) = Run(steps, init) BY DEF PostParse, PostParseIn
<1> HIDE DEF order
<1>3. Len(order) \in Nat /\ Len(steps) = Len(order) BY <1>1
<1>4. ASSUME NEW k \in 1 .. Len(order), NEW s \in Parsing(n) PROVE steps[k][s] \in Parsing(n)
  <2>1. s \in ParseState /\ order[k] \in 1 .. n BY <1>1, ParsingIs
  <2>2. steps[k][s] = PostParseFile(s, order[k], root) BY <2>1
  <2> HIDE DEF steps
  <2> QED BY <2>1, <2>2, PostParseFileGood
<1>5. init \in Parsing(n) BY DEF Parsing
<1> HIDE DEF steps, init
<1>6. Run(steps, init) \in Parsing(n) BY <1>3, <1>4, <1>5, RunStays
<1> QED BY <1>2, <1>6, ParsingIs
-----------------------------------------------------------------------------
(***************************************************************************)
(* Merging two entries keeps what they say: where only one has an exec     *)
(* permission, the other has neither a type nor an index for it.           *)
(***************************************************************************)
LEMMA MaxIs == ASSUME NEW a \in Nat, NEW b \in Nat PROVE Max({a, b}) = IF a >= b THEN a ELSE b
<1>1. PICK m \in {a, b} : \A y \in {a, b} : m >= y
  <2>1. CASE a >= b BY <2>1
  <2>2. CASE b >= a BY <2>2
  <2> QED BY <2>1, <2>2
<1>2. Max({a, b}) \in {a, b} /\ \A y \in {a, b} : Max({a, b}) >= y BY <1>1 DEF Max
<1> QED BY <1>2

Merged(e, f) == [e EXCEPT !.perms = @ \union f.perms, !.xu = Max({@, f.xu}), !.xo = Max({@, f.xo})]
LEMMA MergedIs ==
    ASSUME NEW e \in GoodEntries, NEW f \in GoodEntries
    PROVE  /\ Merged(e, f) \in Entries /\ Merged(e, f).perms = e.perms \union f.perms
           /\ Merged(e, f).xu = (IF e.xu >= f.xu THEN e.xu ELSE f.xu)
           /\ Merged(e, f).xo = (IF e.xo >= f.xo THEN e.xo ELSE f.xo)
           /\ Merged(e, f).obj = e.obj /\ Merged(e, f).prio = e.prio /\ Merged(e, f).mode = e.mode
           /\ Merged(e, f).audit = e.audit
<1>1. /\ e \in Entries /\ f \in Entries /\ e.xu \in Nat /\ f.xu \in Nat /\ e.xo \in Nat /\ f.xo \in Nat
  BY DEF GoodEntries, Entries
<1>2. PICK u : u = Max({e.xu, f.xu}) OBVIOUS
<1>3. PICK o : o = Max({e.xo, f.xo}) OBVIOUS
<1>4. u = (IF e.xu >= f.xu THEN e.xu ELSE f.xu) /\ o = (IF e.xo >= f.xo THEN e.xo ELSE f.xo) BY <1>1, <1>2, <1>3, MaxIs
<1>5. u \in Nat /\ o \in Nat BY <1>1, <1>4
<1>6. Merged(e, f) = [e EXCEPT !.perms = e.perms \union f.perms, !.xu = u, !.xo = o] BY <1>2, <1>3 DEF Merged
<1>7. e.perms \union f.perms \in SUBSET Perms BY <1>1 DEF Entries, Perms
<1> QED BY <1>1, <1>4, <1>5, <1>6, <1>7 DEF Entries, Perms

LEMMA MergedSays ==
    ASSUME NEW e \in GoodEntries, NEW f \in GoodEntries, SameEntry(e, f), IsMergedXConsistent(e, f)
    PROVE  Merged(e, f) \in GoodEntries /\ EntrySays(Merged(e, f)) = EntrySays(e) \union EntrySays(f)
<1>1. PICK m : m = Merged(e, f) OBVIOUS
<1>2. /\ m \in Entries /\ m.perms = e.perms \union f.perms
      /\ m.xu = (IF e.xu >= f.xu THEN e.xu ELSE f.xu) /\ m.xo = (IF e.xo >= f.xo THEN e.xo ELSE f.xo)
      /\ m.obj = e.obj /\ m.prio = e.prio /\ m.mode = e.mode /\ m.audit = e.audit
  BY <1>1, MergedIs
<1>3. /\ e.xu \in Nat /\ f.xu \in Nat /\ e.xo \in Nat /\ f.xo \in Nat /\ XPlaced(e) /\ XPlaced(f) BY DEF GoodEntries, Entries
<1>4. XPlaced(m) BY <1>2, <1>3 DEF XPlaced
<1>5. ASSUME NEW q, NEW t PROVE Says(m, "file", q, t) = Says(e, "file", q, t) /\ Says(m, "file", q, t) = Says(f, "file", q, t)
  <2>1. f.obj = e.obj /\ f.prio = e.prio /\ f.mode = e.mode BY DEF SameEntry
  <2>2. AuditEq(e.audit, "force") = AuditEq(f.audit, "force") BY DEF SameEntry, AuditEq
  <2> QED BY <1>2, <2>1, <2>2 DEF Says
<1>6. "x" \in e.perms => XType(m, "x") = XType(e, "x") BY <1>2, <1>3 DEF XType, XPlaced, IsMergedXConsistent
<1>7. "x" \in f.perms => XType(m, "x") = XType(f, "x") BY <1>2, <1>3 DEF XType, XPlaced, IsMergedXConsistent
<1>8. "ox" \in e.perms => XType(m, "ox") = XType(e, "ox") BY <1>2, <1>3 DEF XType, XPlaced, IsMergedXConsistent
<1>9. "ox" \in f.perms => XType(m, "ox") = XType(f, "ox") BY <1>2, <1>3 DEF XType, XPlaced, IsMergedXConsistent
<1>10. ASSUME NEW q, q # "x", q # "ox" PROVE XType(m, q) = XType(e, q) /\ XType(m, q) = XType(f, q) BY <1>10 DEF XType
<1>11. ASSUME NEW q \in e.perms PROVE Says(m, "file", q, XType(m, q)) = Says(e, "file", q, XType(e, q))
  BY <1>5, <1>6, <1>8, <1>10
<1>12. ASSUME NEW q \in f.perms PROVE Says(m, "file", q, XType(m, q)) = Says(f, "file", q, XType(f, q))
  BY <1>5, <1>7, <1>9, <1>10
<1>13. EntrySays(m) = EntrySays(e) \union EntrySays(f) BY <1>2, <1>11, <1>12 DEF EntrySays
<1> QED BY <1>1, <1>2, <1>4, <1>13 DEF GoodEntries

LEMMA AppendSays ==
    ASSUME NEW out \in Seq(GoodEntries), NEW e \in GoodEntries
    PROVE  Append(out, e) \in Seq(GoodEntries) /\ FilesSay(Append(out, e)) = FilesSay(out) \union EntrySays(e)
<1>1. PICK s : s = Append(out, e) OBVIOUS
<1>2. PICK n : n = Len(out) /\ n \in Nat OBVIOUS
<1>3. /\ s \in Seq(GoodEntries) /\ DOMAIN out = 1 .. n /\ DOMAIN s = 1 .. n + 1 /\ s[n + 1] = e
      /\ \A k \in 1 .. n : s[k] = out[k]
  BY <1>1, <1>2
<1>4. ASSUME NEW x, x \in FilesSay(s) PROVE x \in FilesSay(out) \union EntrySays(e)
  <2>1. PICK k \in 1 .. n + 1 : x \in EntrySays(s[k]) BY <1>3, <1>4 DEF FilesSay
  <2>2. CASE k = n + 1 BY <1>3, <2>1, <2>2
  <2>3. CASE k \in 1 .. n BY <1>3, <2>1, <2>3 DEF FilesSay
  <2> QED BY <1>2, <2>2, <2>3
<1>5. ASSUME NEW x, x \in FilesSay(out) PROVE x \in FilesSay(s)
  <2>1. PICK k \in 1 .. n : x \in EntrySays(out[k]) BY <1>3, <1>5 DEF FilesSay
  <2>2. k \in 1 .. n + 1 BY <1>2
  <2> QED BY <1>3, <2>1, <2>2 DEF FilesSay
<1>6. n + 1 \in 1 .. n + 1 BY <1>2
<1>7. ASSUME NEW x, x \in EntrySays(e) PROVE x \in FilesSay(s) BY <1>3, <1>6, <1>7 DEF FilesSay
<1>8. FilesSay(s) = FilesSay(out) \union EntrySays(e) BY <1>4, <1>5, <1>7
<1> QED BY <1>1, <1>3, <1>8

LEMMA ReplaceSays ==
    ASSUME NEW out \in Seq(GoodEntries), NEW i \in DOMAIN out, NEW e, NEW m \in GoodEntries,
           EntrySays(m) = EntrySays(out[i]) \union EntrySays(e)
    PROVE  SetAt(out, i, m) \in Seq(GoodEntries) /\ FilesSay(SetAt(out, i, m)) = FilesSay(out) \union EntrySays(e)
<1>1. PICK s : s = SetAt(out, i, m) OBVIOUS
<1>2. s \in Seq(GoodEntries) /\ DOMAIN s = DOMAIN out /\ s[i] = m /\ \A k \in DOMAIN out : k # i => s[k] = out[k]
  BY <1>1 DEF SetAt
<1>3. ASSUME NEW x, x \in FilesSay(s) PROVE x \in FilesSay(out) \union EntrySays(e)
  <2>1. PICK k \in DOMAIN out : x \in EntrySays(s[k]) BY <1>2, <1>3 DEF FilesSay
  <2> QED BY <1>2, <2>1 DEF FilesSay
<1>4. ASSUME NEW x, x \in FilesSay(out) PROVE x \in FilesSay(s)
  <2>1. PICK k \in DOMAIN out : x \in EntrySays(out[k]) BY <1>4 DEF FilesSay
  <2> QED BY <1>2, <2>1 DEF FilesSay
<1>5. ASSUME NEW x, x \in EntrySays(e) PROVE x \in FilesSay(s) BY <1>2, <1>5 DEF FilesSay
<1>6. FilesSay(s) = FilesSay(out) \union EntrySays(e) BY <1>3, <1>4, <1>5
<1> QED BY <1>1, <1>2, <1>6

(* The states of merge_file after the first i of the entries fs *)
Said(fs, i) == UNION {EntrySays(fs[k]) : k \in 1 .. i}
Merging(fs, i) == {a \in FilesState : a.out \in Seq(GoodEntries) /\ (a.ok => FilesSay(a.out) = Said(fs, i))}
LEMMA MergingIs ==
    ASSUME NEW a, NEW ok \in BOOLEAN, NEW out \in Seq(GoodEntries), NEW n \in Nat, a = [ok |-> ok, out |-> out, n |-> n],
           NEW fs, NEW i, ok => FilesSay(out) = Said(fs, i)
    PROVE  a \in Merging(fs, i)
<1>1. out \in Seq(Entries) BY GoodEntriesIn
<1>2. a \in FilesState /\ a.out = out /\ a.ok = ok BY <1>1 DEF FilesState
<1> QED BY <1>2 DEF Merging

LEMMA MergeEntryKeeps ==
    ASSUME NEW fs \in Seq(GoodEntries), NEW k \in 1 .. Len(fs), NEW a \in Merging(fs, k - 1)
    PROVE  MergeEntry(a, fs[k]) \in Merging(fs, k)
<1>1. PICK e : e = fs[k] OBVIOUS
<1>2. e \in GoodEntries BY <1>1
<1>3. PICK ok : ok = a.ok OBVIOUS
<1>4. PICK out : out = a.out OBVIOUS
<1>5. PICK n : n = a.n OBVIOUS
<1>6. /\ ok \in BOOLEAN /\ out \in Seq(GoodEntries) /\ n \in Nat /\ a = [ok |-> ok, out |-> out, n |-> n]
      /\ ok => FilesSay(out) = Said(fs, k - 1)
  BY <1>3, <1>4, <1>5 DEF Merging, FilesState
<1>7. Said(fs, k) = Said(fs, k - 1) \union EntrySays(e)
  <2>1. ASSUME NEW x, x \in Said(fs, k) PROVE x \in Said(fs, k - 1) \union EntrySays(e)
    <3>1. PICK j \in 1 .. k : x \in EntrySays(fs[j]) BY <2>1 DEF Said
    <3>2. j = k \/ j \in 1 .. k - 1 OBVIOUS
    <3> QED BY <1>1, <3>1, <3>2 DEF Said
  <2>2. ASSUME NEW x, x \in Said(fs, k - 1) PROVE x \in Said(fs, k)
    <3>1. PICK j \in 1 .. k - 1 : x \in EntrySays(fs[j]) BY <2>2 DEF Said
    <3>2. j \in 1 .. k OBVIOUS
    <3> QED BY <3>1, <3>2 DEF Said
  <2>3. k \in 1 .. k OBVIOUS
  <2>4. ASSUME NEW x, x \in EntrySays(e) PROVE x \in Said(fs, k) BY <1>1, <2>3, <2>4 DEF Said
  <2> QED BY <2>1, <2>2, <2>4
<1> DEFINE hits == {j \in DOMAIN out : SameEntry(out[j], e)}
<1>8. PICK i : i = Min(hits) OBVIOUS
<1>9. PICK r : r = MergeEntry(a, e) OBVIOUS
<1>10. CASE ~ok
  <2>1. r = a BY <1>3, <1>9, <1>10 DEF MergeEntry
  <2> QED BY <1>1, <1>6, <1>9, <1>10, <2>1, MergingIs
<1>11. CASE ok /\ hits = {}
  <2>1. r = [a EXCEPT !.out = Append(out, e)] BY <1>3, <1>4, <1>9, <1>11 DEF MergeEntry
  <2>2. r = [ok |-> ok, out |-> Append(out, e), n |-> n] BY <1>6, <2>1
  <2>3. Append(out, e) \in Seq(GoodEntries) /\ FilesSay(Append(out, e)) = Said(fs, k) BY <1>2, <1>6, <1>7, <1>11, AppendSays
  <2> QED BY <1>1, <1>6, <1>9, <2>2, <2>3, MergingIs
<1>12. CASE ok /\ hits # {}
  <2>1. i \in hits
    <3>1. hits \in SUBSET Nat BY <1>6
    <3>2. \E j \in hits : \A y \in hits : j <= y BY <1>12, <3>1, LeastOf
    <3> QED BY <1>8, <3>2 DEF Min
  <2>2. i \in DOMAIN out /\ SameEntry(out[i], e) /\ out[i] \in GoodEntries BY <1>6, <2>1
  <2>3. CASE ~IsMergedXConsistent(out[i], e)
    <3>1. r = [a EXCEPT !.ok = FALSE] BY <1>3, <1>4, <1>8, <1>9, <1>12, <2>3 DEF MergeEntry
    <3>2. r = [ok |-> FALSE, out |-> out, n |-> n] BY <1>6, <3>1
    <3> QED BY <1>1, <1>6, <1>9, <3>2, MergingIs
  <2>4. CASE IsMergedXConsistent(out[i], e)
    <3>1. r = [a EXCEPT !.n = @ + 1, !.out[i].perms = @ \union e.perms,
                        !.out[i].xu = Max({@, e.xu}), !.out[i].xo = Max({@, e.xo})]
      BY <1>3, <1>4, <1>8, <1>9, <1>12, <2>4 DEF MergeEntry
    <3>2. PICK m : m = Merged(out[i], e) OBVIOUS
    <3>3. m \in GoodEntries /\ EntrySays(m) = EntrySays(out[i]) \union EntrySays(e) BY <1>2, <2>2, <2>4, <3>2, MergedSays
    <3>4. PICK s : s = SetAt(out, i, m) OBVIOUS
    <3>5. r = [ok |-> ok, out |-> s, n |-> n + 1] 
      <4>1. out[i] \in Entries BY <2>2 DEF GoodEntries
      <4> QED BY <1>6, <2>2, <3>1, <3>2, <3>4, <4>1 DEF SetAt, Merged, Entries
    <3>6. s \in Seq(GoodEntries) /\ FilesSay(s) = Said(fs, k) BY <1>6, <1>7, <1>12, <2>2, <3>3, <3>4, ReplaceSays
    <3>7. n + 1 \in Nat BY <1>6
    <3> QED BY <1>1, <1>6, <1>9, <3>5, <3>6, <3>7, MergingIs
  <2> QED BY <2>3, <2>4
<1> QED BY <1>6, <1>10, <1>11, <1>12

LEMMA MergeFileKeeps ==
    ASSUME NEW fs \in Seq(GoodEntries)
    PROVE  /\ MergeFile(fs).out \in Seq(GoodEntries) /\ MergeFile(fs).n \in Nat /\ MergeFile(fs).ok \in BOOLEAN
           /\ MergeFile(fs).ok => FilesSay(MergeFile(fs).out) = FilesSay(fs)
<1>1. PICK n : n = Len(fs) /\ n \in Nat OBVIOUS
<1> DEFINE steps == [k \in 1 .. Len(fs) |-> [a \in FilesState |-> MergeEntry(a, fs[k])]]
           init == [ok |-> TRUE, out |-> <<>>, n |-> 0]
           I == [i \in 0 .. n |-> Merging(fs, i)]
<1>2. Len(steps) = n BY <1>1
<1>3. ASSUME NEW k \in 1 .. n, NEW a \in I[k - 1] PROVE steps[k][a] \in I[k]
  <2>1. k - 1 \in 0 .. n /\ k \in 0 .. n BY <1>1
  <2>2. a \in Merging(fs, k - 1) BY <2>1
  <2>3. a \in FilesState BY <2>2 DEF Merging
  <2>4. steps[k][a] = MergeEntry(a, fs[k]) BY <1>1, <2>3
  <2>5. I[k] = Merging(fs, k) BY <2>1
  <2> HIDE DEF steps, I
  <2> QED BY <1>1, <2>2, <2>4, <2>5, MergeEntryKeeps
<1>4. init \in I[0]
  <2>1. FilesSay(<<>>) = {} BY DEF FilesSay
  <2>2. Said(fs, 0) = {} BY DEF Said
  <2>3. I[0] = Merging(fs, 0) BY <1>1
  <2> HIDE DEF I
  <2>4. <<>> \in Seq(GoodEntries) OBVIOUS
  <2>5. init \in Merging(fs, 0) BY <2>1, <2>2, <2>4, MergingIs
  <2> QED BY <2>3, <2>5
<1>5. MergeFile(fs) = Run(steps, init) BY DEF MergeFile
<1>6. I[n] = Merging(fs, n) BY <1>1
<1> HIDE DEF steps, init, I
<1>7. Run(steps, init) \in I[n] BY <1>1, <1>2, <1>3, <1>4, RunKeeps
<1>8. MergeFile(fs) \in Merging(fs, n) BY <1>5, <1>6, <1>7
<1>9. Said(fs, n) = FilesSay(fs) BY <1>1 DEF Said, FilesSay
<1> QED BY <1>8, <1>9 DEF Merging, FilesState

(***************************************************************************)
(* So does deleting one of two equal rules.                                *)
(***************************************************************************)
RuleSays(r) == Says(r, r.kind, "all", <<{}, 0>>)
Ruled(rs, i) == {RuleSays(rs[k]) : k \in 1 .. i}
Deleting(rs, i) == {a \in RulesState : RulesSay(a.out) = Ruled(rs, i)}
LEMMA MergeRuleKeeps ==
    ASSUME NEW rs \in Seq(Rules), NEW k \in 1 .. Len(rs), NEW a \in Deleting(rs, k - 1)
    PROVE  MergeRule(a, rs[k]) \in Deleting(rs, k)
<1>1. PICK r : r = rs[k] OBVIOUS
<1>2. r \in Rules BY <1>1
<1>3. PICK out : out = a.out OBVIOUS
<1>4. PICK n : n = a.n OBVIOUS
<1>5. out \in Seq(Rules) /\ n \in Nat /\ a = [out |-> out, n |-> n] /\ RulesSay(out) = Ruled(rs, k - 1)
  BY <1>3, <1>4 DEF Deleting, RulesState
<1>6. Ruled(rs, k) = Ruled(rs, k - 1) \union {RuleSays(r)}
  <2>1. \A j \in 1 .. k : j = k \/ j \in 1 .. k - 1 OBVIOUS
  <2>2. k \in 1 .. k /\ \A j \in 1 .. k - 1 : j \in 1 .. k OBVIOUS
  <2> QED BY <1>1, <2>1, <2>2 DEF Ruled
<1>7. RulesSay(out) = {RuleSays(out[j]) : j \in DOMAIN out} BY DEF RulesSay, RuleSays
<1>8. CASE \E i \in DOMAIN out : out[i] = r
  <2>1. MergeRule(a, r) = [out |-> out, n |-> n + 1] BY <1>3, <1>5, <1>8 DEF MergeRule
  <2>2. RuleSays(r) \in RulesSay(out) BY <1>7, <1>8
  <2>3. Ruled(rs, k) = RulesSay(out) BY <1>5, <1>6, <2>2
  <2> QED BY <1>1, <1>5, <2>1, <2>3 DEF Deleting, RulesState
<1>9. CASE ~ \E i \in DOMAIN out : out[i] = r
  <2>1. MergeRule(a, r) = [a EXCEPT !.out = Append(out, r)] BY <1>3, <1>9, Zenon DEF MergeRule
  <2>2. PICK s : s = Append(out, r) OBVIOUS
  <2>3. MergeRule(a, r) = [out |-> s, n |-> n] BY <1>5, <2>1, <2>2
  <2>4. PICK m : m = Len(out) /\ m \in Nat BY <1>5
  <2>5. /\ s \in Seq(Rules) /\ DOMAIN s = 1 .. m + 1 /\ DOMAIN out = 1 .. m /\ s[m + 1] = r
        /\ \A j \in 1 .. m : s[j] = out[j]
    BY <1>2, <1>5, <2>2, <2>4
  <2>6. RulesSay(s) = {RuleSays(s[j]) : j \in DOMAIN s} BY DEF RulesSay, RuleSays
  <2>7. RulesSay(s) = RulesSay(out) \union {RuleSays(r)}
    <3>1. m + 1 \in 1 .. m + 1 /\ \A j \in 1 .. m + 1 : j = m + 1 \/ j \in 1 .. m BY <2>4
    <3>2. \A j \in 1 .. m : j \in 1 .. m + 1 BY <2>4
    <3> QED BY <1>7, <2>5, <2>6, <3>1, <3>2
  <2>8. RulesSay(s) = Ruled(rs, k) BY <1>5, <1>6, <2>7
  <2> QED BY <1>1, <1>5, <2>3, <2>5, <2>8 DEF Deleting, RulesState
<1> QED BY <1>8, <1>9

LEMMA MergeRuleTKeeps ==
    ASSUME NEW rs \in Seq(Rules)
    PROVE  MergeRuleT(rs).out \in Seq(Rules) /\ MergeRuleT(rs).n \in Nat /\ RulesSay(MergeRuleT(rs).out) = RulesSay(rs)
<1>1. PICK n : n = Len(rs) /\ n \in Nat OBVIOUS
<1> DEFINE steps == [k \in 1 .. Len(rs) |-> [a \in RulesState |-> MergeRule(a, rs[k])]]
           init == [out |-> <<>>, n |-> 0]
           I == [i \in 0 .. n |-> Deleting(rs, i)]
<1>2. Len(steps) = n BY <1>1
<1>3. ASSUME NEW k \in 1 .. n, NEW a \in I[k - 1] PROVE steps[k][a] \in I[k]
  <2>1. k - 1 \in 0 .. n /\ k \in 0 .. n BY <1>1
  <2>2. a \in Deleting(rs, k - 1) BY <2>1
  <2>3. a \in RulesState BY <2>2 DEF Deleting
  <2>4. steps[k][a] = MergeRule(a, rs[k]) BY <1>1, <2>3
  <2>5. I[k] = Deleting(rs, k) BY <2>1
  <2> HIDE DEF steps, I
  <2> QED BY <1>1, <2>2, <2>4, <2>5, MergeRuleKeeps
<1>4. init \in I[0]
  <2>1. RulesSay(<<>>) = {} BY DEF RulesSay
  <2>2. Ruled(rs, 0) = {} BY DEF Ruled
  <2>3. I[0] = Deleting(rs, 0) BY <1>1
  <2> HIDE DEF I
  <2>4. init \in RulesState BY DEF RulesState
  <2> QED BY <2>1, <2>2, <2>3, <2>4 DEF Deleting
<1>5. MergeRuleT(rs) = Run(steps, init) BY DEF MergeRuleT
<1>6. I[n] = Deleting(rs, n) BY <1>1
<1> HIDE DEF steps, init, I
<1>7. Run(steps, init) \in I[n] BY <1>1, <1>2, <1>3, <1>4, RunKeeps
<1>8. MergeRuleT(rs) \in Deleting(rs, n) BY <1>5, <1>6, <1>7
<1>9. Ruled(rs, n) = RulesSay(rs) BY <1>1 DEF Ruled, RulesSay, RuleSays
<1> QED BY <1>8, <1>9 DEF Deleting, RulesState

(***************************************************************************)
(* The blocks of a profile, and all profiles                               *)
(***************************************************************************)
Remade(b, fs, rs) == [b EXCEPT !.files = fs, !.rules = rs]
LEMMA RemadeIs ==
    ASSUME NEW b \in GoodBlocks, NEW fs \in Seq(GoodEntries), NEW rs \in Seq(Rules)
    PROVE  /\ Remade(b, fs, rs) \in GoodBlocks
           /\ Remade(b, fs, rs).path = b.path /\ Remade(b, fs, rs).kind = b.kind /\ Remade(b, fs, rs).set = b.set
           /\ Remade(b, fs, rs).files = fs /\ Remade(b, fs, rs).rules = rs
<1>1. fs \in Seq(Entries) BY GoodEntriesIn
<1> QED BY <1>1, GoodIs DEF Remade, BlockRecs, GoodBlocks

(* Block c stands where b does and says the same. *)
Same(b, c) == /\ c.path = b.path /\ c.kind = b.kind /\ c.set = b.set
              /\ FilesSay(c.files) = FilesSay(b.files) /\ RulesSay(c.rules) = RulesSay(b.rules)
Keeping(bs, n) == {s \in [ok : BOOLEAN, stop : BOOLEAN, bs : Sized(n)] : \A j \in 1 .. n : Same(bs[j], s.bs[j])}
LEMMA KeepingIs ==
    ASSUME NEW n \in Nat, NEW bs, NEW s \in Keeping(bs, n)
    PROVE  /\ s \in MergeState /\ s.bs \in Sized(n) /\ s.ok \in BOOLEAN /\ s.stop \in BOOLEAN
           /\ s = [ok |-> s.ok, stop |-> s.stop, bs |-> s.bs] /\ \A j \in 1 .. n : Same(bs[j], s.bs[j])
<1>1. /\ s.bs \in Sized(n) /\ s.ok \in BOOLEAN /\ s.stop \in BOOLEAN
      /\ s = [ok |-> s.ok, stop |-> s.stop, bs |-> s.bs] /\ \A j \in 1 .. n : Same(bs[j], s.bs[j]) BY DEF Keeping
<1>2. s.bs \in Seq(BlockRecs) BY <1>1, SizedIs
<1> QED BY <1>1, <1>2 DEF MergeState
LEMMA KeepingMade ==
    ASSUME NEW n \in Nat, NEW bs, NEW cs \in Sized(n), NEW ok \in BOOLEAN, NEW stop \in BOOLEAN,
           \A j \in 1 .. n : Same(bs[j], cs[j])
    PROVE  [ok |-> ok, stop |-> stop, bs |-> cs] \in Keeping(bs, n)
BY DEF Keeping

LEMMA MergeBlockKeeps ==
    ASSUME NEW n \in Nat, NEW bs, NEW s \in Keeping(bs, n), NEW j \in 1 .. n
    PROVE  MergeBlock(s, j) \in Keeping(bs, n)
<1>1. PICK cs : cs = s.bs OBVIOUS
<1>2. PICK ok : ok = s.ok OBVIOUS
<1>3. PICK stop : stop = s.stop OBVIOUS
<1>4. /\ cs \in Sized(n) /\ ok \in BOOLEAN /\ stop \in BOOLEAN /\ s = [ok |-> ok, stop |-> stop, bs |-> cs]
      /\ \A i \in 1 .. n : Same(bs[i], cs[i])
  BY <1>1, <1>2, <1>3, KeepingIs
<1>5. PICK c : c = cs[j] OBVIOUS
<1>6. c \in GoodBlocks /\ c.files \in Seq(GoodEntries) /\ c.rules \in Seq(Rules) BY <1>4, <1>5, SizedIs, GoodIs
<1>7. PICK f : f = MergeFile(c.files) OBVIOUS
<1>8. PICK r : r = MergeRuleT(c.rules) OBVIOUS
<1>9. f.out \in Seq(GoodEntries) /\ f.n \in Nat /\ (f.ok => FilesSay(f.out) = FilesSay(c.files)) BY <1>6, <1>7, MergeFileKeeps
<1>10. r.out \in Seq(Rules) /\ r.n \in Nat /\ RulesSay(r.out) = RulesSay(c.rules) BY <1>6, <1>8, MergeRuleTKeeps
<1>11. CASE stop
  <2>1. MergeBlock(s, j) = s BY <1>3, <1>11 DEF MergeBlock
  <2> QED BY <2>1
<1>12. CASE ~stop /\ ~f.ok
  <2>1. MergeBlock(s, j) = [s EXCEPT !.ok = FALSE, !.stop = TRUE] BY <1>1, <1>3, <1>5, <1>7, <1>12 DEF MergeBlock
  <2>2. MergeBlock(s, j) = [ok |-> FALSE, stop |-> TRUE, bs |-> cs] BY <1>4, <2>1
  <2> QED BY <1>4, <2>2, KeepingMade
<1>13. CASE ~stop /\ f.ok
  <2>1. PICK st : st \in BOOLEAN /\ st = (f.n + r.n # 0) OBVIOUS
  <2>2. MergeBlock(s, j) = [s EXCEPT !.bs[j].files = f.out, !.bs[j].rules = r.out, !.stop = st]
    BY <1>1, <1>3, <1>5, <1>7, <1>8, <1>13, <2>1 DEF MergeBlock
  <2>3. PICK d : d = Remade(c, f.out, r.out) OBVIOUS
  <2>4. /\ d \in GoodBlocks /\ d.path = c.path /\ d.kind = c.kind /\ d.set = c.set /\ d.files = f.out /\ d.rules = r.out
    BY <1>6, <1>9, <1>10, <2>3, RemadeIs
  <2>5. PICK ds : ds = SetAt(cs, j, d) OBVIOUS
  <2>6. MergeBlock(s, j) = [ok |-> ok, stop |-> st, bs |-> ds]
    <3>1. DOMAIN cs = 1 .. n BY <1>4, SizedIs
    <3>2. PICK c1 : c1 = [c EXCEPT !.files = f.out] OBVIOUS
    <3>3. d = [c1 EXCEPT !.rules = r.out] BY <2>3, <3>2 DEF Remade
    <3>4. PICK ds1 : ds1 = [cs EXCEPT ![j] = c1] OBVIOUS
    <3>5. ds = [ds1 EXCEPT ![j] = d] /\ ds1[j] = c1 BY <2>5, <3>1, <3>4 DEF SetAt
    <3>6. [s EXCEPT !.bs[j].files = f.out] = [ok |-> ok, stop |-> stop, bs |-> ds1] BY <1>4, <1>5, <3>2, <3>4
    <3>7. PICK s1 : s1 = [s EXCEPT !.bs[j].files = f.out] OBVIOUS
    <3>8. [s1 EXCEPT !.bs[j].rules = r.out] = [ok |-> ok, stop |-> stop, bs |-> ds]
      <4>1. s1 = [ok |-> ok, stop |-> stop, bs |-> ds1] BY <3>6, <3>7
      <4>2. [s1 EXCEPT !.bs[j].rules = r.out] = [s1 EXCEPT !.bs = [s1.bs EXCEPT ![j] = [s1.bs[j] EXCEPT !.rules = r.out]]] OBVIOUS
      <4>3. s1.bs = ds1 BY <4>1
      <4>4. [s1.bs EXCEPT ![j] = [s1.bs[j] EXCEPT !.rules = r.out]] = ds BY <3>3, <3>5, <4>3
      <4>5. [s1 EXCEPT !.bs = ds] = [ok |-> ok, stop |-> stop, bs |-> ds] BY <4>1
      <4> QED BY <4>2, <4>4, <4>5
    <3>9. PICK s2 : s2 = [s1 EXCEPT !.bs[j].rules = r.out] OBVIOUS
    <3>10. MergeBlock(s, j) = [s2 EXCEPT !.stop = st] BY <2>2, <3>7, <3>9
    <3> QED BY <3>8, <3>9, <3>10
  <2>7. ds \in Sized(n) /\ ds[j] = d /\ \A i \in 1 .. n : i # j => ds[i] = cs[i]
    <3>1. ds \in Sized(n) /\ ds[j] = d BY <1>4, <2>4, <2>5, SetAtSized
    <3>2. DOMAIN cs = 1 .. n BY <1>4, SizedIs
    <3> QED BY <2>5, <3>1, <3>2 DEF SetAt
  <2>8. Same(bs[j], d) BY <1>4, <1>5, <1>9, <1>10, <1>13, <2>4 DEF Same
  <2>9. \A i \in 1 .. n : Same(bs[i], ds[i]) BY <1>4, <2>7, <2>8
  <2> QED BY <1>4, <2>1, <2>6, <2>7, <2>9, KeepingMade
<1> QED BY <1>4, <1>11, <1>12, <1>13

LEMMA MergeInKeeps ==
    ASSUME NEW n \in Nat, NEW bs, NEW a \in Keeping(bs, n), NEW order \in Seq(1 .. n)
    PROVE  MergeIn(order, a) \in Keeping(bs, n)
<1> DEFINE steps == [k \in 1 .. Len(order) |-> [s \in MergeState |-> MergeBlock(s, order[k])]]
           init == [a EXCEPT !.stop = ~a.ok]
<1>1. PICK m : m = Len(order) /\ m \in Nat OBVIOUS
<1>2. Len(steps) = m BY <1>1
<1>3. ASSUME NEW k \in 1 .. m, NEW s \in Keeping(bs, n) PROVE steps[k][s] \in Keeping(bs, n)
  <2>1. s \in MergeState /\ order[k] \in 1 .. n BY <1>1, KeepingIs
  <2>2. steps[k][s] = MergeBlock(s, order[k]) BY <1>1, <2>1
  <2> HIDE DEF steps
  <2> QED BY <2>1, <2>2, MergeBlockKeeps
<1>4. init \in Keeping(bs, n)
  <2>1. PICK st : st \in BOOLEAN /\ st = ~a.ok OBVIOUS
  <2>2. init = [ok |-> a.ok, stop |-> st, bs |-> a.bs] BY <2>1, KeepingIs
  <2> HIDE DEF init
  <2> QED BY <2>1, <2>2, KeepingIs, KeepingMade
<1>5. MergeIn(order, a) = Run(steps, init) BY DEF MergeIn
<1> HIDE DEF steps, init
<1>6. Run(steps, init) \in Keeping(bs, n) BY <1>1, <1>2, <1>3, <1>4, RunStays
<1> QED BY <1>5, <1>6

LEMMA MergeAllKeeps ==
    ASSUME NEW n \in Nat, blocks \in Sized(n)
    PROVE  MergeAll \in Keeping(blocks, n)
<1>1. PICK rs : rs = Roots OBVIOUS
<1> DEFINE steps == [k \in 1 .. Len(rs) |-> [a \in MergeState |-> MergeProfile(a, rs[k])]]
           init == [ok |-> TRUE, stop |-> FALSE, bs |-> blocks]
<1>2. rs \in Seq(1 .. n) BY <1>1, RootsIn
<1>3. PICK m : m = Len(rs) /\ m \in Nat BY <1>2
<1>4. Len(steps) = m BY <1>3
<1>5. ASSUME NEW k \in 1 .. m, NEW a \in Keeping(blocks, n) PROVE steps[k][a] \in Keeping(blocks, n)
  <2>1. a \in MergeState /\ rs[k] \in 1 .. n /\ a.bs \in Sized(n) BY <1>2, <1>3, KeepingIs
  <2>2. steps[k][a] = MergeProfile(a, rs[k]) BY <1>3, <2>1
  <2> HIDE DEF steps
  <2>3. Walk(Tree(a.bs), rs[k], FALSE) \in Seq(1 .. n) BY <2>1, SizedIs, WalkIn
  <2> QED BY <2>2, <2>3, MergeInKeeps DEF MergeProfile
<1>6. init \in Keeping(blocks, n) BY KeepingMade DEF Same
<1>7. MergeAll = Run(steps, init) BY <1>1 DEF MergeAll
<1> HIDE DEF steps, init
<1>8. Run(steps, init) \in Keeping(blocks, n) BY <1>3, <1>4, <1>5, <1>6, RunStays
<1> QED BY <1>7, <1>8

(* Blocks that say the same one by one say the same together. *)
LEMMA SamePolicy ==
    ASSUME NEW n \in Nat, NEW bs \in Sized(n), NEW cs \in Sized(n), \A j \in 1 .. n : Same(bs[j], cs[j]), NEW root \in 1 .. n
    PROVE  Policy(cs, root) = Policy(bs, root)
<1>1. Tree(cs) = Tree(bs) BY SizedIs DEF Tree, Same
<1>2. PICK w : w = Walk(Tree(bs), root, TRUE) OBVIOUS
<1>3. w \in Seq(1 .. n) BY <1>2, SizedIs, WalkIn
<1>4. Range(w) \subseteq 1 .. n BY <1>3 DEF Range
<1>5. \A j \in Range(w) : FilesSay(cs[j].files) = FilesSay(bs[j].files) /\ RulesSay(cs[j].rules) = RulesSay(bs[j].rules)
  BY <1>4 DEF Same
<1>6. PICK W : W = Range(w) OBVIOUS
<1>7. UNION {FilesSay(cs[j].files) \union RulesSay(cs[j].rules) : j \in W}
      = UNION {FilesSay(bs[j].files) \union RulesSay(bs[j].rules) : j \in W}
  BY <1>5, <1>6
<1> QED BY <1>1, <1>2, <1>6, <1>7 DEF Policy
-----------------------------------------------------------------------------
(***************************************************************************)
(* The invariant: every block that is parsed is a block with such entries, *)
(* and before the rules are merged the policy is the recorded one.         *)
(***************************************************************************)
Recorded == \A s \in before : s[1] \in 1 .. Len(blocks) /\ Policy(blocks, s[1]) = s[2]
BInv == /\ setup \in Setups /\ blocks \in Seq(GoodBlocks) /\ open \in Seq(1 .. Len(blocks)) /\ open # <<>>
        /\ phase \in {"parse", "implied", "merge", "done", "error"}
        /\ phase = "merge" => Recorded
        /\ MergeKeepsPolicy

LEMMA Opened ==
    ASSUME BInv
    PROVE  /\ Len(blocks) \in Nat /\ blocks \in Sized(Len(blocks)) /\ DOMAIN blocks = 1 .. Len(blocks)
           /\ Cur \in 1 .. Len(blocks) /\ blocks[Cur] \in GoodBlocks
           /\ Len(open) > 1 => /\ Parent \in 1 .. Len(blocks) /\ Front(open) \in Seq(1 .. Len(blocks)) /\ Front(open) # <<>>
<1>1. blocks \in Seq(GoodBlocks) /\ open \in Seq(1 .. Len(blocks)) /\ open # <<>> BY DEF BInv
<1>2. Len(blocks) \in Nat /\ blocks \in Sized(Len(blocks)) /\ DOMAIN blocks = 1 .. Len(blocks) BY <1>1 DEF Sized
<1>3. PICK S : S = 1 .. Len(blocks) OBVIOUS
<1>4. open \in Seq(S) /\ Len(open) \in Nat /\ Len(open) > 0 BY <1>1, <1>3
<1>5. Cur \in S BY <1>4 DEF Cur
<1>6. ASSUME Len(open) > 1 PROVE Parent \in S /\ Front(open) \in Seq(S) /\ Front(open) # <<>>
  <2>1. Parent \in S BY <1>4, <1>6 DEF Parent
  <2>2. Front(open) \in Seq(S) /\ Len(Front(open)) = Len(open) - 1 BY <1>4, <1>6 DEF Front
  <2>3. Front(open) # <<>> BY <1>4, <1>6, <2>2
  <2> QED BY <2>1, <2>2, <2>3
<1> QED BY <1>1, <1>2, <1>3, <1>5, <1>6

LEMMA ParseStep ==
    ASSUME BInv, setup' = setup, blocks' \in Seq(GoodBlocks), open' \in Seq(1 .. Len(blocks')), open' # <<>>,
           phase' \in {"parse", "implied", "error"}
    PROVE  BInv'
BY DEF BInv, MergeKeepsPolicy

(* A statement changes the block it is in. *)
LEMMA StmtStep ==
    ASSUME BInv, NEW kind, NEW what, NEW p, Written(kind, what, p), NEW b \in GoodBlocks, NEW r, Put(SetAt(blocks, Cur, b), r)
    PROVE  BInv'
<1>1. /\ blocks \in Sized(Len(blocks)) /\ Len(blocks) \in Nat /\ Cur \in 1 .. Len(blocks) BY Opened
<1>2. PICK n : n = Len(blocks) OBVIOUS
<1>3. PICK c : c = Cur OBVIOUS
<1>4. SetAt(blocks, c, b) \in Sized(n) BY <1>1, <1>2, <1>3, SetAtSized
<1>5. blocks' = SetAt(blocks, c, b) \/ blocks' = blocks BY <1>3 DEF Put
<1>6. blocks' \in Sized(n) BY <1>1, <1>2, <1>4, <1>5
<1>7. blocks' \in Seq(GoodBlocks) /\ Len(blocks') = n BY <1>6 DEF Sized
<1>8. setup' = setup /\ open' = open /\ phase' \in {"parse", "implied", "error"} BY DEF Written, Put
<1>9. open' \in Seq(1 .. Len(blocks')) /\ open' # <<>> BY <1>2, <1>7, <1>8 DEF BInv
<1> QED BY <1>7, <1>8, <1>9, ParseStep

LEMMA NewBlockGood ==
    ASSUME NEW path \in Seq(Nat), NEW kind \in {"main", "block", "cond", "hat"}, NEW set \in BOOLEAN
    PROVE  NewBlock(path, kind, set) \in GoodBlocks
<1>1. PICK b : b = NewBlock(path, kind, set) OBVIOUS
<1>2. NoLimits \in Limits BY DEF NoLimits, Limits
<1>3. NoPrefix \in PrefixRecs BY DEF NoPrefix, PrefixRecs, Audits, Modes, Owners
<1>4. NoTable \in Tables(AllCaps) /\ NoTable \in Tables(AllTypes) BY DEF NoTable, Tables
<1>5. b \in BlockRecs /\ b.files = <<>> BY <1>1, <1>2, <1>3, <1>4 DEF NewBlock, BlockRecs
<1>6. <<>> \in Seq(GoodEntries) OBVIOUS
<1> QED BY <1>1, <1>5, <1>6 DEF GoodBlocks

LEMMA InitBInv == Init => BInv
<1> SUFFICES ASSUME Init PROVE BInv OBVIOUS
<1>1. PICK b : b = NewBlock(<<1>>, "main", TRUE) OBVIOUS
<1>2. setup \in Setups /\ blocks = <<b>> /\ open = <<1>> /\ phase = "parse" BY <1>1 DEF Init
<1>3. <<1>> \in Seq(Nat) OBVIOUS
<1>4. b \in GoodBlocks BY <1>1, <1>3, NewBlockGood
<1>5. blocks \in Seq(GoodBlocks) /\ Len(blocks) = 1 BY <1>2, <1>4
<1>6. open \in Seq(1 .. Len(blocks)) /\ open # <<>> BY <1>2, <1>5
<1> QED BY <1>2, <1>5, <1>6 DEF BInv, MergeKeepsPolicy

(***************************************************************************)
(* The actions, one by one                                                 *)
(***************************************************************************)
LEMMA SetupIs ==
    ASSUME BInv
    PROVE  /\ setup.prefixes \subseteq PrefixRecs /\ setup.files \subseteq Files
           /\ setup.limits \subseteq [l : LimitNames, v : Int, unit : {"", "K", "s", "ms"}]
<1>1. setup \in Setups BY DEF BInv
<1> QED BY <1>1, SetupsAssumption DEF Files

LEMMA FileStep == ASSUME BInv, NEW f \in setup.files, NEW p \in setup.prefixes, FileStmt(f, p) PROVE BInv'
<1>1. p \in PrefixRecs /\ f \in Files BY SetupIs
<1>2. f.obj \in Objs /\ f.perms \in SUBSET Perms /\ TypedWithX(f.perms) /\ f.nt \in Names BY <1>1, SetupsAssumption DEF Objs, Perms
<1>3. PICK e : e = NewEntry(f.obj, f.perms, f.nt) OBVIOUS
<1>4. PICK r : r = EntryAddPrefix(e, p) OBVIOUS
<1>5. r.r \in GoodEntries BY <1>1, <1>2, <1>3, <1>4, NewEntryGood, EntryAddPrefixGood
<1>6. PICK b : b = AddEntry(blocks[Cur], r.r) OBVIOUS
<1>7. b \in GoodBlocks BY <1>5, <1>6, Opened, AddEntryGood
<1>8. Written("file", f, p) /\ Put(SetAt(blocks, Cur, b), r) BY <1>3, <1>4, <1>6 DEF FileStmt, SetAt
<1> QED BY <1>7, <1>8, StmtStep

LEMMA ChangeProfileStep == ASSUME BInv, NEW p \in setup.prefixes, ChangeProfileStmt(p) PROVE BInv'
<1>1. p \in PrefixRecs BY SetupIs
<1>2. "cp" \in Objs /\ {"cp"} \in SUBSET Perms /\ NoName \in Names /\ TypedWithX({"cp"})
  BY DEF Objs, Perms, SharedPerms, NoName, Names, TypedWithX
<1>3. PICK e : e = NewEntry("cp", {"cp"}, NoName) OBVIOUS
<1>4. PICK r : r = GenericAddPrefix(e, p) OBVIOUS
<1>5. r.r \in GoodEntries BY <1>1, <1>2, <1>3, <1>4, NewEntryGood, GenericAddPrefixGood
<1>6. PICK b : b = AddEntry(blocks[Cur], r.r) OBVIOUS
<1>7. b \in GoodBlocks BY <1>5, <1>6, Opened, AddEntryGood
<1>8. PICK k : k = [r EXCEPT !.ok = @ /\ p.owner = "unspec"] OBVIOUS
<1>9. Written("cp", "cp", p) /\ Put(SetAt(blocks, Cur, b), k) BY <1>3, <1>4, <1>6, <1>8 DEF ChangeProfileStmt, SetAt
<1> QED BY <1>7, <1>9, StmtStep

LEMMA RuleStep == ASSUME BInv, NEW kind \in RuleKinds, NEW p \in setup.prefixes, RuleStmt(kind, p) PROVE BInv'
<1>1. p \in PrefixRecs BY SetupIs
<1>2. PICK r : r = AddPrefix(kind, NewRule(kind, kind), p) OBVIOUS
<1>3. NewRule(kind, kind) \in Rules BY NewRuleIn
<1>4. r.r \in Rules BY <1>1, <1>2, <1>3, AddPrefixRule
<1>5. PICK b : b = AddRule(blocks[Cur], r.r) OBVIOUS
<1>6. b \in GoodBlocks BY <1>4, <1>5, Opened, AddRuleGood
<1>7. Written(kind, kind, p) /\ Put(SetAt(blocks, Cur, b), r) BY <1>2, <1>5 DEF RuleStmt, SetAt
<1> QED BY <1>6, <1>7, StmtStep

LEMMA NetStep == ASSUME BInv, NEW t \in AllTypes, NEW p \in setup.prefixes, NetStmt(t, p) PROVE BInv'
<1>1. p \in PrefixRecs BY SetupIs
<1>2. PICK r : r = AddPrefix("net", NewRule("net", t), p) OBVIOUS
<1>3. NewRule("net", t) \in Rules BY NewRuleIn DEF RuleKinds
<1>4. r.r \in Rules BY <1>1, <1>2, <1>3, AddPrefixRule
<1>5. PICK c : c = AddRule(blocks[Cur], r.r) OBVIOUS
<1>6. c \in GoodBlocks BY <1>4, <1>5, Opened, AddRuleGood
<1>7. PICK u : u = AddCompatNet(c.net, p, {t}) OBVIOUS
<1>8. u \in Tables(AllTypes) /\ c.caps \in Tables(AllCaps) BY <1>6, <1>7, GoodIs, AddCapabilitiesTable
<1>9. PICK b : b = [c EXCEPT !.net = u] OBVIOUS
<1>10. b \in GoodBlocks BY <1>6, <1>8, <1>9, WithTables
<1>11. Written("net", t, p) /\ Put(SetAt(blocks, Cur, b), r) BY <1>2, <1>5, <1>7, <1>9 DEF NetStmt, SetAt
<1> QED BY <1>10, <1>11, StmtStep

LEMMA CapStep == ASSUME BInv, NEW c \in AllCaps, NEW p \in setup.prefixes, CapStmt(c, p) PROVE BInv'
<1>1. PICK a : a = blocks[Cur] OBVIOUS
<1>2. a \in GoodBlocks BY <1>1, Opened
<1>3. PICK u : u = AddCapabilities(a.caps, p, {c}) OBVIOUS
<1>4. u \in Tables(AllCaps) /\ a.net \in Tables(AllTypes) BY <1>2, <1>3, GoodIs, AddCapabilitiesTable
<1>5. PICK b : b = [a EXCEPT !.caps = u] OBVIOUS
<1>6. b \in GoodBlocks BY <1>2, <1>4, <1>5, WithTables
<1>7. PICK r : r = [ok |-> p.owner = "unspec"] OBVIOUS
<1>8. Written("cap", c, p) /\ Put(SetAt(blocks, Cur, b), r) BY <1>1, <1>3, <1>5, <1>7 DEF CapStmt, SetAt
<1> QED BY <1>6, <1>8, StmtStep

LEMMA RlimitValueIs == ASSUME NEW l \in LimitNames, NEW w \in Int, NEW unit PROVE RlimitValue(l, w, unit) \in Int
<1>1. PICK n : n = RlimitValue(l, w, unit) OBVIOUS
<1>2. l = "nice" \/ l = "nofile" \/ l = "data" \/ l = "cpu" BY DEF LimitNames
<1>3. n = w \/ n = w + 2 \/ n = w * 4 \/ n = w \div 4 \/ n = -1 BY <1>1, <1>2, Zenon DEF RlimitValue
<1>4. w + 2 \in Int /\ w * 4 \in Int /\ w \div 4 \in Int OBVIOUS
<1> QED BY <1>1, <1>3, <1>4
LEMMA RlimitStep == ASSUME BInv, NEW v \in setup.limits, RlimitStmt(v.l, v.v, v.unit) PROVE BInv'
<1>1. v.l \in LimitNames /\ v.v \in Int BY SetupIs
<1>2. PICK l : l = v.l OBVIOUS
<1>3. PICK n : n = RlimitValue(l, v.v, v.unit) OBVIOUS
<1>4. n \in Int BY <1>1, <1>2, <1>3, RlimitValueIs
<1>5. PICK a : a = blocks[Cur] OBVIOUS
<1>6. a \in GoodBlocks BY <1>5, Opened
<1>7. a.rlimits \in Limits BY <1>6, GoodIs
<1>8. PICK m : m = [specified |-> a.rlimits.specified \union {l}, limits |-> [a.rlimits.limits EXCEPT ![l] = n]] OBVIOUS
<1>9. m \in Limits BY <1>1, <1>2, <1>4, <1>7, <1>8 DEF Limits
<1>10. PICK b : b = [a EXCEPT !.rlimits = m] OBVIOUS
<1>11. b \in GoodBlocks BY <1>6, <1>9, <1>10, GoodIs DEF BlockRecs, GoodBlocks
<1>12. PICK r : r = [ok |-> n # -1] OBVIOUS
<1>13. PICK w : w = [l |-> l, n |-> n] OBVIOUS
<1>14. Written("rlimit", w, NoPrefix) /\ Put(SetAt(blocks, Cur, b), r)
  BY <1>2, <1>3, <1>5, <1>8, <1>10, <1>12, <1>13 DEF RlimitStmt, SetAt
<1> QED BY <1>11, <1>14, StmtStep

LEMMA OpenStep ==
    ASSUME BInv, NEW kind \in {"main", "block", "cond", "hat"}, NEW set \in BOOLEAN, OpenBlock(kind, set)
    PROVE  BInv'
<1>1. PICK n : n = Len(blocks) OBVIOUS
<1>2. n \in Nat /\ blocks[Cur] \in GoodBlocks /\ blocks \in Seq(GoodBlocks) BY <1>1, Opened DEF BInv
<1>3. PICK path : path = Append(blocks[Cur].path, n + 1) OBVIOUS
<1>4. blocks[Cur].path \in Seq(Nat) BY <1>2 DEF GoodBlocks, BlockRecs
<1>5. path \in Seq(Nat) BY <1>2, <1>3, <1>4
<1>6. PICK b : b = NewBlock(path, kind, set) OBVIOUS
<1>7. b \in GoodBlocks BY <1>5, <1>6, NewBlockGood
<1>8. blocks' = Append(blocks, b) /\ open' = Append(open, n + 1) /\ setup' = setup /\ phase' = "parse"
  BY <1>1, <1>3, <1>6 DEF OpenBlock
<1>9. blocks' \in Seq(GoodBlocks) /\ Len(blocks') = n + 1 BY <1>1, <1>2, <1>7, <1>8
<1>10. open' \in Seq(1 .. Len(blocks')) /\ open' # <<>>
  <2>1. open \in Seq(1 .. n) BY <1>1 DEF BInv
  <2>2. 1 .. n \subseteq 1 .. n + 1 /\ n + 1 \in 1 .. n + 1 BY <1>2
  <2>3. open \in Seq(1 .. n + 1) BY <2>1, <2>2, SeqInto
  <2>4. Append(open, n + 1) \in Seq(1 .. n + 1) /\ Append(open, n + 1) # <<>> BY <2>2, <2>3
  <2> QED BY <1>8, <1>9, <2>4
<1> QED BY <1>8, <1>9, <1>10, ParseStep

(* A block closes when its blocks are put and the last one leaves open. *)
LEMMA CloseStep ==
    ASSUME BInv, phase = "parse", Len(open) > 1, Closed, NEW bs \in Sized(Len(blocks)),
           \/ blocks' = bs /\ phase' = phase
           \/ blocks' = blocks /\ phase' \in {"parse", "error"}
    PROVE  BInv'
<1>1. PICK n : n = Len(blocks) OBVIOUS
<1>2. blocks \in Sized(n) /\ bs \in Sized(n) BY <1>1, Opened
<1>3. blocks' \in Sized(n) /\ phase' \in {"parse", "implied", "error"} BY <1>2
<1>4. blocks' \in Seq(GoodBlocks) /\ Len(blocks') = n BY <1>3 DEF Sized
<1>5. Front(open) \in Seq(1 .. n) /\ Front(open) # <<>> BY <1>1, Opened
<1>6. open' = Front(open) /\ setup' = setup BY DEF Closed
<1>7. open' \in Seq(1 .. Len(blocks')) /\ open' # <<>> BY <1>4, <1>5, <1>6
<1> QED BY <1>3, <1>4, <1>6, <1>7, ParseStep

LEMMA CloseBlockStep == ASSUME BInv, NEW p \in setup.prefixes, CloseBlock(p) PROVE BInv'
<1>1. p \in PrefixRecs BY SetupIs
<1>2. phase = "parse" /\ Len(open) > 1 /\ Closed BY DEF CloseBlock
<1>3. PICK n : n = Len(blocks) OBVIOUS
<1>4. PICK c : c = Cur OBVIOUS
<1>5. PICK a : a = Parent OBVIOUS
<1>6. n \in Nat /\ blocks \in Sized(n) /\ c \in 1 .. n /\ a \in 1 .. n BY <1>2, <1>3, <1>4, <1>5, Opened
<1>7. ASSUME NEW bs \in Sized(n), NEW q \in PrefixRecs PROVE BlockAddPrefix(bs, c, q).bs \in Sized(n)
  <2>1. bs \in Seq(GoodBlocks) /\ Len(bs) = n /\ c \in DOMAIN bs BY <1>6, SizedIs
  <2> QED BY <2>1, BlockAddPrefixGood DEF Sized
<1>8. PICK one : one = BlockAddPrefix(blocks, c, p) OBVIOUS
<1>9. one.bs \in Sized(n) BY <1>1, <1>6, <1>7, <1>8
<1>10. one.bs[a].pre \in PrefixRecs BY <1>6, <1>9, SizedIs, GoodIs
<1>11. PICK two : two = BlockAddPrefix(one.bs, c, one.bs[a].pre) OBVIOUS
<1>12. two.bs \in Sized(n) BY <1>7, <1>9, <1>10, <1>11
<1>13. PICK mrg : mrg = MergeCompatRules(two.bs[a], two.bs[c]) OBVIOUS
<1>14. mrg.b \in GoodBlocks BY <1>6, <1>12, <1>13, SizedIs, MergeCompatRulesGood
<1>15. PICK bs : bs = SetAt(two.bs, a, mrg.b) OBVIOUS
<1>16. bs \in Sized(n) BY <1>6, <1>12, <1>14, <1>15, SetAtSized
<1>17. PICK r : r = [ok |-> one.ok /\ two.ok /\ mrg.ok] OBVIOUS
<1>18. Put(bs, r) BY <1>4, <1>5, <1>8, <1>11, <1>13, <1>15, <1>17 DEF CloseBlock, SetAt
<1>19. \/ blocks' = bs /\ phase' = phase
       \/ blocks' = blocks /\ phase' \in {"parse", "error"}
  BY <1>18 DEF Put
<1> QED BY <1>2, <1>3, <1>16, <1>19, CloseStep

LEMMA CloseCondStep == ASSUME BInv, CloseCond PROVE BInv'
<1>1. phase = "parse" /\ Len(open) > 1 /\ Closed BY DEF CloseCond
<1>2. PICK n : n = Len(blocks) OBVIOUS
<1>3. n \in Nat /\ blocks \in Sized(n) /\ Cur \in 1 .. n /\ Parent \in 1 .. n BY <1>1, <1>2, Opened
<1>4. PICK mrg : mrg = MergeCompatRules(blocks[Parent], blocks[Cur]) OBVIOUS
<1>5. mrg.b \in GoodBlocks BY <1>3, <1>4, SizedIs, MergeCompatRulesGood
<1>6. PICK bs : bs = SetAt(blocks, Parent, mrg.b) OBVIOUS
<1>7. bs \in Sized(n) BY <1>3, <1>5, <1>6, SetAtSized
<1>8. Put(bs, mrg) \/ (blocks' = blocks /\ phase' = phase) BY <1>4, <1>6 DEF CloseCond, SetAt
<1>9. \/ blocks' = bs /\ phase' = phase
      \/ blocks' = blocks /\ phase' \in {"parse", "error"}
  BY <1>1, <1>8 DEF Put
<1> QED BY <1>1, <1>2, <1>7, <1>9, CloseStep

LEMMA CloseHatStep == ASSUME BInv, CloseHat PROVE BInv'
<1>1. phase = "parse" /\ Len(open) > 1 /\ Closed BY DEF CloseHat
<1>2. PICK n : n = Len(blocks) OBVIOUS
<1>3. n \in Nat /\ blocks \in Sized(n) /\ Cur \in 1 .. n BY <1>2, Opened
<1>4. PICK r : r = PostParse(blocks, Cur) OBVIOUS
<1>5. r.bs \in Sized(n) BY <1>3, <1>4, PostParseGood
<1>6. Put(r.bs, r) BY <1>4 DEF CloseHat
<1>7. \/ blocks' = r.bs /\ phase' = phase
      \/ blocks' = blocks /\ phase' \in {"parse", "error"}
  BY <1>6 DEF Put
<1> QED BY <1>1, <1>2, <1>5, <1>7, CloseStep

LEMMA EndProfileStep == ASSUME BInv, EndProfile PROVE BInv'
<1>1. PICK n : n = Len(blocks) OBVIOUS
<1>2. n \in Nat /\ blocks \in Sized(n) /\ 1 \in 1 .. n BY <1>1, Opened
<1>3. PICK r : r = PostParse(blocks, 1) OBVIOUS
<1>4. r.bs \in Sized(n) BY <1>2, <1>3, PostParseGood
<1>5. (blocks' = r.bs \/ blocks' = blocks) /\ phase' \in {"parse", "implied", "error"} /\ setup' = setup /\ open' = open
  BY <1>3 DEF EndProfile
<1>6. blocks' \in Seq(GoodBlocks) /\ Len(blocks') = n BY <1>2, <1>4, <1>5 DEF Sized
<1>7. open' \in Seq(1 .. Len(blocks')) /\ open' # <<>> BY <1>1, <1>5, <1>6 DEF BInv
<1> QED BY <1>5, <1>6, <1>7, ParseStep

LEMMA ImpliedStep == ASSUME BInv, AddImpliedRules PROVE BInv'
<1>1. PICK n : n = Len(blocks) OBVIOUS
<1>2. n \in Nat /\ blocks \in Sized(n) BY <1>1, Opened
<1>3. PICK R : R = Range(Roots) OBVIOUS
<1>4. R \subseteq 1 .. n BY <1>2, <1>3, RootsIn DEF Range
<1>5. /\ blocks' = AllImplied /\ before' = {<<r, Policy(blocks', r)>> : r \in R} /\ phase' = "merge"
      /\ setup' = setup /\ open' = open
  BY <1>3 DEF AddImpliedRules, AllImplied
<1>6. blocks' \in Sized(n) BY <1>2, <1>5, AllImpliedGood
<1>7. blocks' \in Seq(GoodBlocks) /\ Len(blocks') = n BY <1>6 DEF Sized
<1>8. open' \in Seq(1 .. Len(blocks')) /\ open' # <<>> BY <1>1, <1>5, <1>7 DEF BInv
<1>9. \A s \in before' : s[1] \in 1 .. Len(blocks') /\ Policy(blocks', s[1]) = s[2] BY <1>4, <1>5, <1>7
<1>10. Recorded' BY <1>9 DEF Recorded
<1>11. MergeKeepsPolicy' BY <1>5 DEF MergeKeepsPolicy
<1> QED BY <1>5, <1>7, <1>8, <1>10, <1>11 DEF BInv

LEMMA MergeStep == ASSUME BInv, MergeRules PROVE BInv'
<1>1. PICK n : n = Len(blocks) OBVIOUS
<1>2. n \in Nat /\ blocks \in Sized(n) BY <1>1, Opened
<1>3. PICK a : a = MergeAll OBVIOUS
<1>4. a \in Keeping(blocks, n) BY <1>2, <1>3, MergeAllKeeps
<1>5. a.bs \in Sized(n) /\ \A j \in 1 .. n : Same(blocks[j], a.bs[j]) BY <1>2, <1>4, KeepingIs
<1>6. /\ phase = "merge" /\ setup' = setup /\ open' = open /\ before' = before
      /\ blocks' = (IF a.ok THEN a.bs ELSE blocks) /\ phase' = (IF a.ok THEN "done" ELSE "error")
  BY <1>3 DEF MergeRules
<1>7. blocks' \in Sized(n) BY <1>2, <1>5, <1>6
<1>8. blocks' \in Seq(GoodBlocks) /\ Len(blocks') = n BY <1>7 DEF Sized
<1>9. open' \in Seq(1 .. Len(blocks')) /\ open' # <<>> BY <1>1, <1>6, <1>8 DEF BInv
<1>10. ASSUME phase' = "done", NEW s, s \in before' PROVE Policy(blocks', s[1]) = s[2]
  <2>1. s[1] \in 1 .. n /\ Policy(blocks, s[1]) = s[2] BY <1>1, <1>6, <1>10 DEF BInv, Recorded
  <2>2. blocks' = a.bs BY <1>6, <1>10
  <2>3. Policy(a.bs, s[1]) = Policy(blocks, s[1]) BY <1>2, <1>5, <2>1, SamePolicy
  <2> QED BY <2>1, <2>2, <2>3
<1>11. MergeKeepsPolicy' BY <1>10 DEF MergeKeepsPolicy
<1> QED BY <1>6, <1>8, <1>9, <1>11 DEF BInv

LEMMA NextBInv == ASSUME BInv, [Next]_vars PROVE BInv'
<1>1. ASSUME NEW f \in setup.files, NEW p \in setup.prefixes, FileStmt(f, p) PROVE BInv' BY <1>1, FileStep
<1>2. ASSUME NEW p \in setup.prefixes, ChangeProfileStmt(p) PROVE BInv' BY <1>2, ChangeProfileStep
<1>3. ASSUME NEW p \in setup.prefixes, RuleStmt("ipc", p) PROVE BInv' BY <1>3, RuleStep DEF RuleKinds
<1>4. ASSUME NEW p \in setup.prefixes, RuleStmt("all", p) PROVE BInv' BY <1>4, RuleStep DEF RuleKinds
<1>5. ASSUME NEW t \in AllTypes, NEW p \in setup.prefixes, NetStmt(t, p) PROVE BInv' BY <1>5, NetStep
<1>6. ASSUME NEW c \in AllCaps, NEW p \in setup.prefixes, CapStmt(c, p) PROVE BInv' BY <1>6, CapStep
<1>7. ASSUME NEW v \in setup.limits, RlimitStmt(v.l, v.v, v.unit) PROVE BInv' BY <1>7, RlimitStep
<1>8. CASE Statement BY <1>1, <1>2, <1>3, <1>4, <1>5, <1>6, <1>7, <1>8 DEF Statement
<1>9. CASE OpenSub BY <1>9, OpenStep DEF OpenSub
<1>10. CASE OpenHat BY <1>10, OpenStep DEF OpenHat
<1>11. ASSUME NEW val \in BOOLEAN, OpenIf(val) PROVE BInv' BY <1>11, OpenStep DEF OpenIf
<1>12. ASSUME NEW val \in BOOLEAN, OpenElse(val) PROVE BInv'
  <2>1. PICK set : set \in BOOLEAN /\ set = (val /\ chain = "no") OBVIOUS
  <2>2. OpenBlock("cond", set) BY <1>12, <2>1 DEF OpenElse
  <2> QED BY <2>1, <2>2, OpenStep
<1>13. ASSUME NEW p \in setup.prefixes, CloseBlock(p) PROVE BInv' BY <1>13, CloseBlockStep
<1>14. CASE CloseCond BY <1>14, CloseCondStep
<1>15. CASE CloseHat BY <1>15, CloseHatStep
<1>16. CASE Blocks BY <1>9, <1>10, <1>11, <1>12, <1>13, <1>14, <1>15, <1>16 DEF Blocks
<1>17. CASE EndProfile BY <1>17, EndProfileStep
<1>18. CASE AddImpliedRules BY <1>18, ImpliedStep
<1>19. CASE MergeRules BY <1>19, MergeStep
<1>20. CASE UNCHANGED vars
  <2>1. /\ setup' = setup /\ blocks' = blocks /\ open' = open /\ phase' = phase /\ before' = before BY <1>20 DEF vars
  <2> QED BY <2>1 DEF BInv, Recorded, MergeKeepsPolicy
<1>21. CASE Finished BY <1>20, <1>21 DEF Finished
<1> QED BY <1>8, <1>16, <1>17, <1>18, <1>19, <1>20, <1>21 DEF Next

(* Merging duplicate rules changes no permission, no exec type, no mode and *)
(* no logging of a profile and its hats, for every policy that parses       *)
(* (merge_duplicated_rules, merge_file, merge_rule_t).                      *)
THEOREM MergeKeepsPolicyThm == Spec => []MergeKeepsPolicy
<1>1. Init => BInv BY InitBInv
<1>2. BInv /\ [Next]_vars => BInv' BY NextBInv
<1>3. BInv => MergeKeepsPolicy BY DEF BInv
<1> QED BY <1>1, <1>2, <1>3, PTL DEF Spec
-----------------------------------------------------------------------------
(***************************************************************************)
(* The tables of a profile.  TInv relates the blocks to the statements as  *)
(* they were written: which limits have reached a block, which entry is    *)
(* the one of a statement, and where its named transition leads.           *)
(***************************************************************************)
(* What the tree of blocks is: a path leads from the profile's main block   *)
(* to its block through the paths of those on it.                           *)
InBranch(t, j) == t[j].kind = "block" \/ (t[j].kind = "cond" /\ t[j].set)
Pathed(t, n, j) ==
  LET p == t[j].path
  IN  /\ p \in Seq(1 .. n) /\ p # <<>> /\ p[1] = 1 /\ p[Len(p)] = j
      /\ \A k \in 1 .. Len(p) : Len(t[p[k]].path) = k /\ \A m \in 1 .. k : t[p[k]].path[m] = p[m]
Rooted(t, n) == n \in Nat /\ n > 0 /\ t[1].kind = "main" /\ t[1].path = <<1>> /\ \A j \in 1 .. n : Pathed(t, n, j)
(* Block j is below r, through blocks and chosen branches only. *)
Reached(t, r, j) ==
  LET p == t[j].path
      k == Len(t[r].path)
  IN  k <= Len(p) /\ p[k] = r /\ \A m \in k + 1 .. Len(p) : InBranch(t, p[m])
(* ... all of which have been closed. *)
Counted(t, op, r, j) ==
  /\ Reached(t, r, j)
  /\ \A m \in Len(t[r].path) + 1 .. Len(t[j].path) : t[j].path[m] \notin Range(op)

(* The statements as they were written *)
Whats == Files \union RuleKinds \union AllTypes \union AllCaps \union {"cp"} \union [l : LimitNames, n : Int]
StmtRecs == [kind : {"file", "cp", "cap", "rlimit"} \union RuleKinds, what : Whats, pre : PrefixRecs, path : Seq(Nat)]
HomeOf(s) == s.path[Len(s.path)]
History(t, n, ss) ==
  /\ ss \in Seq(StmtRecs)
  /\ \A m \in DOMAIN ss : /\ HomeOf(ss[m]) \in 1 .. n /\ ss[m].path = t[HomeOf(ss[m])].path
                          /\ ss[m].kind = "file" => ss[m].what \in Files
                          /\ ss[m].kind = "rlimit" => ss[m].what \in [l : LimitNames, n : Int]

(* The limits of a block are those set in it or handed outwards to it. *)
LimitsOf(t, op, ss, i, l) ==
  {m \in DOMAIN ss : ss[m].kind = "rlimit" /\ ss[m].what.l = l /\ Counted(t, op, i, HomeOf(ss[m]))}
Holds(ss, lim, l, ms) ==
  /\ l \in lim.specified <=> ms # {}
  /\ lim.limits[l] = IF ms = {} THEN 0 ELSE ss[Max(ms)].what.n
LimitsHeld(t, op, ss, bs, n) ==
  \A i \in 1 .. n : \A l \in LimitNames : Holds(ss, bs[i].rlimits, l, LimitsOf(t, op, ss, i, l))

(* The entry of a file statement: the statements of a block, first to last, *)
(* are at the end of its files, last to first.                              *)
FilesUpTo(ss, i, m) == {x \in 1 .. m : IsFile(ss[x]) /\ HomeOf(ss[x]) = i}
RankOf(ss, m) == Cardinality(FilesUpTo(ss, HomeOf(ss[m]), m))
EntryOf(bs, ss, m) == LET fs == bs[HomeOf(ss[m])].files IN fs[Len(fs) - RankOf(ss, m) + 1]
Fulls(root, f) == IF ~f.nt.ns /\ f.perms \intersect {"c", "oc"} # {} THEN [f.nt EXCEPT !.prof = ProfName(root)] ELSE f.nt
LeadsTo(tab, root, f, i) ==
  \/ i = Local /\ [ns |-> FALSE, prof |-> ProfName(root), tail |-> f.obj] = Fulls(root, f)
  \/ i # Local /\ i - Local \in DOMAIN tab /\ tab[i - Local] = Fulls(root, f)
Left(f, e) == \E gone \in {{}, OtherPerms, UserPerms, UserPerms \union OtherPerms} : e.perms = f.perms \ gone
NamedRight(tab, root, f, e) ==
  /\ e.nt = NoName
  /\ (f.nt # NoName /\ f.nt.prof \in {"", ProfName(root)}) =>
       /\ ("x" \in e.perms => LeadsTo(tab, root, f, e.xu))
       /\ ("ox" \in e.perms => LeadsTo(tab, root, f, e.xo))
Right(tab, root, f, e) == e.obj = f.obj /\ Left(f, e) /\ (e.nt = f.nt \/ NamedRight(tab, root, f, e))
RootOf(t, j) == t[j].path[Max({k \in 1 .. Len(t[j].path) : t[t[j].path[k]].kind \in {"main", "hat"}})]
EntriesRight(t, n, ss, bs) ==
  /\ \A i \in 1 .. n : Cardinality(FilesUpTo(ss, i, Len(ss))) <= Len(bs[i].files)
  /\ \A m \in DOMAIN ss : ss[m].kind = "file" =>
       LET r == RootOf(t, HomeOf(ss[m])) IN Right(bs[r].xtab, r, ss[m].what, EntryOf(bs, ss, m))
(* The files of an open block are those of its statements and no others. *)
OnlyWritten(op, ss, bs) == \A i \in Range(op) : Cardinality(FilesUpTo(ss, i, Len(ss))) = Len(bs[i].files)
(* A profile or hat that has ended has replaced its names. *)
NamesDone(t, op, ss, bs) ==
  \A m \in DOMAIN ss : LET r == RootOf(t, HomeOf(ss[m])) IN
    ss[m].kind = "file" /\ r \notin Range(op) /\ Reached(t, r, HomeOf(ss[m])) => EntryOf(bs, ss, m).nt = NoName

(* The open blocks are the path of the current one. *)
IsOpen(t, n, op, c) == c \in 1 .. n /\ op = t[c].path
Fine(bs, t, n, op, c, ss) ==
  /\ Rooted(t, n) /\ History(t, n, ss) /\ IsOpen(t, n, op, c) /\ LimitsHeld(t, op, ss, bs, n)
  /\ EntriesRight(t, n, ss, bs) /\ OnlyWritten(op, ss, bs) /\ NamesDone(t, op, ss, bs)
(* When the profile has ended nothing is open any more. *)
Final(bs, t, n, ss) ==
  /\ Rooted(t, n) /\ History(t, n, ss) /\ LimitsHeld(t, <<1>>, ss, bs, n)
  /\ EntriesRight(t, n, ss, bs) /\ NamesDone(t, <<>>, ss, bs)
TInv == /\ phase = "parse" => Fine(blocks, Tree(blocks), Len(blocks), open, Cur, stmts)
        /\ phase = "implied" => Final(blocks, Tree(blocks), Len(blocks), stmts)

-----------------------------------------------------------------------------
(***************************************************************************)
(* Sequences without repetition, and the walk: a block and all that is     *)
(* below it is visited.                                                    *)
(***************************************************************************)
LEMMA MaxOf ==
    ASSUME NEW n \in Nat, NEW S \in SUBSET (1 .. n), S # {}
    PROVE  Max(S) \in S /\ \A y \in S : Max(S) >= y
<1> DEFINE T == {n - x : x \in S}
<1>1. T \in SUBSET Nat /\ T # {}
  <2>1. \A x \in S : x \in 1 .. n OBVIOUS
  <2>2. \A x \in 1 .. n : n - x \in Nat OBVIOUS
  <2> QED BY <2>1, <2>2
<1>2. PICK d \in T : \A k \in T : d <= k BY <1>1, LeastOf
<1>3. PICK x \in S : d = n - x BY <1>2
<1>4. ASSUME NEW y \in S PROVE x >= y
  <2>1. x \in 1 .. n /\ y \in 1 .. n OBVIOUS
  <2>2. d <= n - y BY <1>2
  <2> QED BY <1>3, <2>1, <2>2
<1>5. \E z \in S : \A y \in S : z >= y BY <1>4
<1> QED BY <1>5 DEF Max

LEMMA RangeIn == ASSUME NEW S, NEW s \in Seq(S) PROVE Range(s) \subseteq S /\ \A i \in 1 .. Len(s) : s[i] \in Range(s)
BY DEF Range
LEMMA RangeAppend == ASSUME NEW S, NEW s \in Seq(S), NEW e \in S PROVE Range(Append(s, e)) = Range(s) \union {e}
<1>1. PICK a : a = Append(s, e) OBVIOUS
<1>2. a \in Seq(S) /\ Len(a) = Len(s) + 1 /\ (\A i \in 1 .. Len(s) : a[i] = s[i]) /\ a[Len(s) + 1] = e BY <1>1
<1>3. Len(s) \in Nat /\ DOMAIN a = 1 .. Len(s) + 1 /\ DOMAIN s = 1 .. Len(s) BY <1>2
<1>4. ASSUME NEW x \in Range(a) PROVE x \in Range(s) \union {e}
  <2>1. PICK i \in 1 .. Len(s) + 1 : x = a[i] BY <1>3 DEF Range
  <2>2. i \in 1 .. Len(s) \/ i = Len(s) + 1 BY <1>3
  <2> QED BY <1>2, <1>3, <2>1, <2>2 DEF Range
<1>5. ASSUME NEW x \in Range(s) PROVE x \in Range(a)
  <2>1. PICK i \in 1 .. Len(s) : x = s[i] BY <1>3 DEF Range
  <2>2. i \in 1 .. Len(s) + 1 BY <1>3
  <2> QED BY <1>2, <1>3, <2>1, <2>2 DEF Range
<1>6. e \in Range(a)
  <2>1. Len(s) + 1 \in 1 .. Len(s) + 1 BY <1>3
  <2> QED BY <1>2, <1>3, <2>1 DEF Range
<1> QED BY <1>1, <1>4, <1>5, <1>6

(* A sequence without repetitions *)
Once(s) == \A i, j \in DOMAIN s : s[i] = s[j] => i = j
LEMMA ConcatOnce ==
    ASSUME NEW S, NEW u \in Seq(S), NEW v \in Seq(S)
    PROVE  /\ u \o v \in Seq(S) /\ Range(u \o v) = Range(u) \union Range(v)
           /\ Once(u) /\ Once(v) /\ Range(u) \cap Range(v) = {} => Once(u \o v)
<1>1. PICK w : w = u \o v OBVIOUS
<1>2. PICK a : a = Len(u) /\ a \in Nat OBVIOUS
<1>3. PICK b : b = Len(v) /\ b \in Nat OBVIOUS
<1>4. w \in Seq(S) /\ Len(w) = a + b /\ \A i \in 1 .. a + b : w[i] = IF i <= a THEN u[i] ELSE v[i - a] BY <1>1, <1>2, <1>3
<1>5. DOMAIN w = 1 .. a + b /\ DOMAIN u = 1 .. a /\ DOMAIN v = 1 .. b BY <1>2, <1>3, <1>4
<1>6. ASSUME NEW i \in 1 .. a + b PROVE (i \in 1 .. a /\ w[i] = u[i]) \/ (i - a \in 1 .. b /\ w[i] = v[i - a] /\ i > a)
  BY <1>2, <1>3, <1>4
<1>7. ASSUME NEW i \in 1 .. a PROVE i \in 1 .. a + b /\ w[i] = u[i] BY <1>2, <1>3, <1>4
<1>8. ASSUME NEW i \in 1 .. b PROVE i + a \in 1 .. a + b /\ w[i + a] = v[i]
  <2>1. i + a \in 1 .. a + b /\ ~(i + a <= a) /\ (i + a) - a = i BY <1>2, <1>3
  <2> QED BY <2>1, <1>4
<1>9. Range(w) = Range(u) \union Range(v)
  <2>1. ASSUME NEW x \in Range(w) PROVE x \in Range(u) \union Range(v) BY <1>5, <1>6 DEF Range
  <2>2. ASSUME NEW x \in Range(u) PROVE x \in Range(w) BY <1>5, <1>7 DEF Range
  <2>3. ASSUME NEW x \in Range(v) PROVE x \in Range(w) BY <1>5, <1>8 DEF Range
  <2> QED BY <2>1, <2>2, <2>3
<1>10. ASSUME Once(u), Once(v), Range(u) \cap Range(v) = {}, NEW i \in 1 .. a + b, NEW j \in 1 .. a + b, w[i] = w[j]
       PROVE  i = j
  <2>1. CASE i \in 1 .. a /\ w[i] = u[i]
    <3>1. CASE j \in 1 .. a /\ w[j] = u[j] BY <1>5, <1>10, <2>1, <3>1 DEF Once
    <3>2. CASE j - a \in 1 .. b /\ w[j] = v[j - a]
      <4>1. u[i] \in Range(u) /\ v[j - a] \in Range(v) BY <1>5, <2>1, <3>2 DEF Range
      <4> QED BY <1>10, <2>1, <3>2, <4>1
    <3> QED BY <1>6, <3>1, <3>2
  <2>2. CASE i - a \in 1 .. b /\ w[i] = v[i - a]
    <3>1. CASE j \in 1 .. a /\ w[j] = u[j]
      <4>1. u[j] \in Range(u) /\ v[i - a] \in Range(v) BY <1>5, <2>2, <3>1 DEF Range
      <4> QED BY <1>10, <2>2, <3>1, <4>1
    <3>2. CASE j - a \in 1 .. b /\ w[j] = v[j - a]
      <4>1. i - a = j - a BY <1>5, <1>10, <2>2, <3>2 DEF Once
      <4> QED BY <4>1, <1>2
    <3> QED BY <1>6, <3>1, <3>2
  <2> QED BY <1>6, <2>1, <2>2
<1> QED BY <1>1, <1>4, <1>5, <1>9, <1>10 DEF Once

LEMMA InOrderRange ==
    ASSUME NEW set, NEW n \in Nat
    PROVE  Range(InOrder(set, n)) = set \cap (1 .. n) /\ Once(InOrder(set, n))
<1> DEFINE J == [i \in 0 .. n |-> {s \in Seq(Nat) : Range(s) = set \cap (1 .. i) /\ Once(s)}]
           steps == [j \in 1 .. n |-> [s \in Seq(Nat) |-> IF j \in set THEN Append(s, j) ELSE s]]
<1>1. Len(steps) = n OBVIOUS
<1>2. ASSUME NEW j \in 1 .. n, NEW x \in J[j - 1] PROVE steps[j][x] \in J[j]
  <2>1. j - 1 \in 0 .. n /\ j \in 0 .. n /\ j \in Nat OBVIOUS
  <2>2. x \in Seq(Nat) /\ Range(x) = set \cap (1 .. j - 1) /\ Once(x) BY <2>1
  <2>3. steps[j][x] = IF j \in set THEN Append(x, j) ELSE x BY <2>2
  <2>4. J[j] = {s \in Seq(Nat) : Range(s) = set \cap (1 .. j) /\ Once(s)} BY <2>1
  <2> HIDE DEF steps, J
  <2>5. 1 .. j = (1 .. j - 1) \union {j} BY <2>1
  <2>6. CASE j \notin set BY <2>2, <2>3, <2>4, <2>5, <2>6
  <2>7. CASE j \in set
    <3>1. PICK a : a = Append(x, j) OBVIOUS
    <3>2. PICK m : m = Len(x) /\ m \in Nat BY <2>2
    <3>3. a \in Seq(Nat) /\ DOMAIN a = 1 .. m + 1 /\ DOMAIN x = 1 .. m /\ (\A i \in 1 .. m : a[i] = x[i]) /\ a[m + 1] = j
      BY <2>1, <2>2, <3>1, <3>2
    <3>4. Range(a) = Range(x) \union {j} BY <2>1, <2>2, <3>1, RangeAppend
    <3>5. \A i \in 1 .. m : a[i] # j
      <4>1. ASSUME NEW i \in 1 .. m PROVE a[i] \in 1 .. j - 1 BY <2>2, <3>3 DEF Range
      <4>2. j \notin 1 .. j - 1 BY <2>1
      <4> QED BY <4>1, <4>2
    <3>6. Once(a)
      <4>1. ASSUME NEW i \in 1 .. m + 1, NEW k \in 1 .. m + 1, a[i] = a[k] PROVE i = k
        <5>1. (i \in 1 .. m \/ i = m + 1) /\ (k \in 1 .. m \/ k = m + 1) BY <3>2
        <5>2. CASE i \in 1 .. m /\ k \in 1 .. m BY <2>2, <3>3, <4>1, <5>2 DEF Once
        <5> QED BY <3>3, <3>5, <4>1, <5>1, <5>2
      <4> QED BY <3>3, <4>1 DEF Once
    <3>7. Range(a) = set \cap (1 .. j) BY <2>2, <2>5, <2>7, <3>4
    <3> QED BY <2>3, <2>4, <2>7, <3>1, <3>3, <3>6, <3>7
  <2> QED BY <2>6, <2>7
<1>3. <<>> \in J[0] BY DEF Range, Once
<1>4. InOrder(set, n) = Run(steps, <<>>) BY DEF InOrder
<1>5. J[n] = {s \in Seq(Nat) : Range(s) = set \cap (1 .. n) /\ Once(s)} OBVIOUS
<1> HIDE DEF J, steps
<1>6. Run(steps, <<>>) \in J[n] BY <1>1, <1>2, <1>3, RunKeeps
<1> QED BY <1>4, <1>5, <1>6

LEMMA PathIs ==
    ASSUME NEW t, NEW n, Rooted(t, n), NEW j \in 1 .. n, NEW p, p = t[j].path
    PROVE  /\ p \in Seq(1 .. n) /\ Len(p) \in Nat /\ Len(p) > 0 /\ DOMAIN p = 1 .. Len(p) /\ p[1] = 1 /\ p[Len(p)] = j
           /\ \A k \in 1 .. Len(p) : p[k] \in 1 .. n /\ Len(t[p[k]].path) = k
           /\ \A k \in 1 .. Len(p) : \A m \in 1 .. k : t[p[k]].path[m] = p[m]
<1>1. /\ p \in Seq(1 .. n) /\ p # <<>> /\ p[1] = 1 /\ p[Len(p)] = j
      /\ \A k \in 1 .. Len(p) : Len(t[p[k]].path) = k /\ \A m \in 1 .. k : t[p[k]].path[m] = p[m]
  BY DEF Rooted, Pathed
<1>2. PICK S : S = 1 .. n OBVIOUS
<1>3. p \in Seq(S) BY <1>1, <1>2
<1>4. Len(p) \in Nat /\ Len(p) > 0 /\ DOMAIN p = 1 .. Len(p) /\ \A k \in 1 .. Len(p) : p[k] \in S BY <1>1, <1>3
<1> QED BY <1>1, <1>2, <1>4

(* A child of block i that a walk with eval goes on to *)
IsKid(t, i, c) == InBranch(t, c) /\ Len(t[c].path) = Len(t[i].path) + 1 /\ t[c].path[Len(t[i].path)] = i
AllKids(t, i) == Kids(t, i, "block", TRUE) \o Kids(t, i, "cond", TRUE)
LEMMA AllKidsIs ==
    ASSUME NEW t, NEW n, IsTree(t, n), NEW i
    PROVE  AllKids(t, i) \in Seq(1 .. n) /\ Range(AllKids(t, i)) = {c \in 1 .. n : IsKid(t, i, c)} /\ Once(AllKids(t, i))
<1> DEFINE kid(j, kind) == /\ t[j].kind = kind /\ Len(t[j].path) = Len(t[i].path) + 1
                           /\ t[j].path[Len(t[i].path)] = i
                           /\ kind = "cond" /\ TRUE => t[j].set
           A == {j \in DOMAIN t : kid(j, "block")}
           B == {j \in DOMAIN t : kid(j, "cond")}
<1>1. Kids(t, i, "block", TRUE) = InOrder(A, n) /\ Kids(t, i, "cond", TRUE) = InOrder(B, n) BY DEF Kids, IsTree
<1>2. n \in Nat /\ DOMAIN t = 1 .. n BY DEF IsTree
<1>3. A \cap (1 .. n) = A /\ B \cap (1 .. n) = B /\ A \cap B = {} BY <1>2
<1>4. A \union B = {c \in 1 .. n : IsKid(t, i, c)} BY <1>2 DEF IsKid, InBranch
<1> HIDE DEF A, B
<1>5. PICK a : a = InOrder(A, n) OBVIOUS
<1>6. PICK b : b = InOrder(B, n) OBVIOUS
<1>7. Range(a) = A /\ Once(a) /\ Range(b) = B /\ Once(b) BY <1>2, <1>3, <1>5, <1>6, InOrderRange
<1>8. a \in Seq(1 .. n) /\ b \in Seq(1 .. n) BY <1>1, <1>5, <1>6, KidsIn
<1>9. AllKids(t, i) = a \o b BY <1>1, <1>5, <1>6 DEF AllKids
<1> QED BY <1>3, <1>4, <1>7, <1>8, <1>9, ConcatOnce

LEMMA KidReached ==
    ASSUME NEW t, NEW n, Rooted(t, n), NEW r \in 1 .. n, NEW i \in 1 .. n, NEW c \in 1 .. n, Reached(t, r, i), IsKid(t, i, c)
    PROVE  Reached(t, r, c) /\ c # r /\ t[c].path[Len(t[c].path) - 1] = i
<1>1. PICK q : q = t[c].path OBVIOUS
<1>2. PICK p : p = t[i].path OBVIOUS
<1>3. PICK k : k = Len(t[r].path) OBVIOUS
<1>4. k \in Nat /\ k > 0 BY <1>3, PathIs
<1>5. k <= Len(p) /\ p[k] = r /\ \A m \in k + 1 .. Len(p) : InBranch(t, p[m]) BY <1>2, <1>3 DEF Reached
<1>6. InBranch(t, c) /\ Len(q) = Len(p) + 1 /\ q[Len(p)] = i BY <1>1, <1>2 DEF IsKid
<1>7. Len(p) \in Nat /\ Len(p) > 0 /\ p[Len(p)] = i BY <1>2, PathIs
<1>8. q[Len(q)] = c /\ \A x \in 1 .. Len(q) : \A m \in 1 .. x : t[q[x]].path[m] = q[m] BY <1>1, PathIs
<1>9. Len(p) \in 1 .. Len(q) BY <1>6, <1>7
<1>10. \A m \in 1 .. Len(p) : p[m] = q[m] BY <1>2, <1>6, <1>8, <1>9
<1>11. q[k] = r BY <1>4, <1>5, <1>7, <1>10
<1>12. ASSUME NEW m \in k + 1 .. Len(q) PROVE InBranch(t, q[m])
  <2>1. (m \in 1 .. Len(p) /\ m \in k + 1 .. Len(p)) \/ m = Len(q) BY <1>4, <1>6, <1>7
  <2> QED BY <1>5, <1>6, <1>8, <1>10, <2>1
<1>13. Reached(t, r, c)
  <2>1. k <= Len(q) BY <1>4, <1>5, <1>6, <1>7
  <2> QED BY <1>1, <1>3, <1>11, <1>12, <2>1 DEF Reached
<1>14. c # r BY <1>1, <1>3, <1>4, <1>5, <1>6, <1>7
<1>15. Len(q) - 1 = Len(p) BY <1>6, <1>7
<1> QED BY <1>1, <1>6, <1>13, <1>14, <1>15

(* After turn i of a walk from r *)
Walked(t, n, r, i, s) ==
  LET met == Range(s.todo) \union Range(s.done)
  IN  /\ s \in Walking(n) /\ Once(s.todo) /\ Range(s.todo) \cap Range(s.done) = {} /\ r \in met
      /\ Cardinality(Range(s.done)) = Len(s.done)
      /\ \A j \in met : Reached(t, r, j) /\ (j # r => t[j].path[Len(t[j].path) - 1] \in Range(s.done))
      /\ \A j \in Range(s.done) : \A c \in 1 .. n : IsKid(t, j, c) => c \in met
      /\ s.todo # <<>> => Len(s.done) = i
LEMMA VisitWalks ==
    ASSUME NEW t, NEW n, Rooted(t, n), IsTree(t, n), NEW r \in 1 .. n, NEW i \in 1 .. n, NEW s, Walked(t, n, r, i - 1, s)
    PROVE  Walked(t, n, r, i, Visit(t, TRUE, s))
<1>1. PICK todo : todo = s.todo OBVIOUS
<1>2. PICK done : done = s.done OBVIOUS
<1>3. PICK T : T = Range(todo) OBVIOUS
<1>4. PICK D : D = Range(done) OBVIOUS
<1>5. /\ s \in Walking(n) /\ Once(todo) /\ T \cap D = {} /\ r \in T \union D /\ Cardinality(D) = Len(done)
      /\ \A j \in T \union D : Reached(t, r, j) /\ (j # r => t[j].path[Len(t[j].path) - 1] \in D)
      /\ \A j \in D : \A c \in 1 .. n : IsKid(t, j, c) => c \in T \union D
      /\ todo # <<>> => Len(done) = i - 1
  BY <1>1, <1>2, <1>3, <1>4 DEF Walked
<1>6. todo \in Seq(1 .. n) /\ done \in Seq(1 .. n) BY <1>1, <1>2, <1>5 DEF Walking
<1>7. CASE todo = <<>>
  <2>1. Visit(t, TRUE, s) = s BY <1>1, <1>7 DEF Visit
  <2> QED BY <1>1, <1>7, <2>1 DEF Walked
<1>8. CASE todo # <<>>
  <2>1. PICK h : h = Head(todo) OBVIOUS
  <2>2. PICK tl : tl = Tail(todo) OBVIOUS
  <2>3. h \in 1 .. n /\ tl \in Seq(1 .. n) BY <1>6, <1>8, <2>1, <2>2, HeadIn
  <2>4. T = Range(tl) \union {h} /\ h \notin Range(tl) /\ Once(tl)
    <3>1. PICK m : m = Len(tl) /\ m \in Nat BY <2>3
    <3>2. /\ DOMAIN tl = 1 .. m /\ DOMAIN todo = 1 .. m + 1 /\ todo[1] = h /\ \A k \in 1 .. m : tl[k] = todo[k + 1]
      BY <1>6, <1>8, <2>1, <2>2, <3>1
    <3>3. \A k \in 1 .. m : k + 1 \in 1 .. m + 1 /\ k + 1 # 1 BY <3>1
    <3>4. 1 \in 1 .. m + 1 BY <3>1
    <3>5. ASSUME NEW x \in T PROVE x \in Range(tl) \union {h}
      <4>1. PICK k \in 1 .. m + 1 : x = todo[k] BY <1>3, <3>2 DEF Range
      <4>2. k # 1 => k - 1 \in 1 .. m /\ (k - 1) + 1 = k BY <3>1
      <4>3. k # 1 => tl[k - 1] = x BY <3>2, <4>1, <4>2
      <4> QED BY <3>2, <4>1, <4>2, <4>3 DEF Range
    <3>6. Range(tl) \subseteq T /\ h \in T BY <1>3, <3>2, <3>3, <3>4 DEF Range
    <3>7. h \notin Range(tl)
      <4>1. ASSUME NEW k \in 1 .. m PROVE tl[k] # h BY <1>5, <3>2, <3>3, <3>4 DEF Once
      <4> QED BY <3>2, <4>1 DEF Range
    <3>8. Once(tl)
      <4>1. ASSUME NEW k \in 1 .. m, NEW x \in 1 .. m, tl[k] = tl[x] PROVE k = x
        <5>1. todo[k + 1] = todo[x + 1] BY <3>2, <4>1
        <5>2. k + 1 = x + 1 BY <1>5, <3>2, <3>3, <5>1 DEF Once
        <5> QED BY <5>2
      <4> QED BY <3>2, <4>1 DEF Once
    <3> QED BY <3>5, <3>6, <3>7, <3>8
  <2>5. PICK ks : ks = AllKids(t, h) OBVIOUS
  <2>6. PICK K : K = {c \in 1 .. n : IsKid(t, h, c)} OBVIOUS
  <2>7. ks \in Seq(1 .. n) /\ Range(ks) = K /\ Once(ks) BY <2>5, <2>6, AllKidsIs
  <2>8. PICK todo1 : todo1 = ks \o tl OBVIOUS
  <2>9. PICK done1 : done1 = Append(done, h) OBVIOUS
  <2>10. Visit(t, TRUE, s) = [todo |-> todo1, done |-> done1]
    BY <1>1, <1>2, <1>8, <2>1, <2>2, <2>5, <2>8, <2>9 DEF Visit, AllKids
  <2>11. PICK v : v = [todo |-> todo1, done |-> done1] OBVIOUS
  <2>12. v.todo = todo1 /\ v.done = done1 BY <2>11
  <2>13. h \in T /\ h \notin D BY <1>5, <2>4
  <2>14. Range(done1) = D \union {h} /\ done1 \in Seq(1 .. n) /\ Len(done1) = Len(done) + 1
    <3>1. PICK S : S = 1 .. n OBVIOUS
    <3>2. done \in Seq(S) /\ h \in S BY <1>6, <2>3, <3>1
    <3>3. Range(done1) = D \union {h} BY <1>4, <2>9, <3>2, RangeAppend
    <3>4. done1 \in Seq(S) /\ Len(done1) = Len(done) + 1 BY <2>9, <3>2
    <3> QED BY <3>1, <3>3, <3>4
  <2>15. ASSUME NEW c \in K PROVE c \notin T \union D /\ Reached(t, r, c) /\ c # r /\ t[c].path[Len(t[c].path) - 1] = h
    <3>1. c \in 1 .. n /\ IsKid(t, h, c) BY <2>6
    <3>2. Reached(t, r, c) /\ c # r /\ t[c].path[Len(t[c].path) - 1] = h BY <1>5, <2>3, <2>13, <3>1, KidReached
    <3> QED BY <1>5, <2>13, <3>2
  <2>16. Range(todo1) = K \union Range(tl) /\ Once(todo1) /\ todo1 \in Seq(1 .. n)
    <3>1. K \cap Range(tl) = {} BY <2>4, <2>15
    <3> QED BY <2>3, <2>4, <2>7, <2>8, <3>1, ConcatOnce
  <2>17. Range(todo1) \union Range(done1) = K \union T \union D BY <2>4, <2>14, <2>16
  <2>18. Range(todo1) \cap Range(done1) = {}
    <3>1. h \notin K BY <2>13, <2>15
    <3>2. Range(tl) \cap D = {} BY <1>5, <2>4
    <3> QED BY <2>4, <2>14, <2>15, <2>16, <3>1, <3>2
  <2>19. Cardinality(Range(done1)) = Len(done1)
    <3>1. D \subseteq 1 .. n BY <1>4, <1>6, RangeIn
    <3>2. IsFiniteSet(1 .. n) BY FS_Interval DEF Rooted
    <3>3. IsFiniteSet(D) BY <3>1, <3>2, FS_Subset
    <3>4. Cardinality(D \union {h}) = Cardinality(D) + 1 BY <2>13, <3>3, FS_AddElement
    <3> QED BY <1>5, <2>14, <3>4
  <2>20. ASSUME NEW j \in K \union T \union D
         PROVE  Reached(t, r, j) /\ (j # r => t[j].path[Len(t[j].path) - 1] \in D \union {h})
    BY <1>5, <2>15
  <2>21. ASSUME NEW j \in D \union {h}, NEW c \in 1 .. n, IsKid(t, j, c) PROVE c \in K \union T \union D
    BY <1>5, <2>6, <2>21
  <2>22. Len(done1) = i BY <1>5, <1>8, <2>14
  <2>23. v \in Walking(n) BY <2>11, <2>14, <2>16 DEF Walking
  <2>24. r \in K \union T \union D BY <1>5
  <2>25. Walked(t, n, r, i, v)
    BY <2>12, <2>14, <2>16, <2>17, <2>18, <2>19, <2>20, <2>21, <2>22, <2>23, <2>24 DEF Walked
  <2> QED BY <2>10, <2>11, <2>25
<1> QED BY <1>7, <1>8

(* A walk from r visits exactly what is reached from r. *)
LEMMA WalkReaches ==
    ASSUME NEW t, NEW n, Rooted(t, n), IsTree(t, n), NEW r \in 1 .. n
    PROVE  Range(Walk(t, r, TRUE)) = {j \in 1 .. n : Reached(t, r, j)}
<1> DEFINE steps == [k \in 1 .. n |-> [s \in WalkState |-> Visit(t, TRUE, s)]]
           init == [todo |-> <<r>>, done |-> <<>>]
           J == [i \in 0 .. n |-> {s \in Walking(n) : Walked(t, n, r, i, s)}]
<1>1. n \in Nat /\ Len(t) = n BY DEF IsTree
<1>2. Len(steps) = n BY <1>1
<1>3. ASSUME NEW i \in 1 .. n, NEW s \in J[i - 1] PROVE steps[i][s] \in J[i]
  <2>1. i - 1 \in 0 .. n /\ i \in 0 .. n BY <1>1
  <2>2. s \in Walking(n) /\ Walked(t, n, r, i - 1, s) BY <2>1
  <2>3. 1 .. n \subseteq Nat OBVIOUS
  <2>4. s.todo \in Seq(Nat) /\ s.done \in Seq(Nat) BY <2>2, <2>3, SeqInto DEF Walking
  <2>5. s \in WalkState BY <2>2, <2>4 DEF WalkState, Walking
  <2>6. steps[i][s] = Visit(t, TRUE, s) BY <2>5
  <2>7. J[i] = {v \in Walking(n) : Walked(t, n, r, i, v)} BY <2>1
  <2> HIDE DEF steps, J
  <2>8. Walked(t, n, r, i, Visit(t, TRUE, s)) BY <2>2, VisitWalks
  <2>9. Visit(t, TRUE, s) \in Walking(n) BY <2>2, VisitIn
  <2> QED BY <2>6, <2>7, <2>8, <2>9
<1>4. init \in J[0]
  <2>1. init.todo = <<r>> /\ init.done = <<>> /\ init \in Walking(n) BY DEF Walking
  <2>2. Range(<<r>>) = {r} /\ Range(<<>>) = {} /\ Once(<<r>>) BY DEF Range, Once
  <2>3. Cardinality({}) = 0 BY FS_EmptySet
  <2>4. Reached(t, r, r)
    <3>1. PICK p : p = t[r].path OBVIOUS
    <3>2. Len(p) \in Nat /\ Len(p) > 0 /\ p[Len(p)] = r BY <3>1, PathIs
    <3> QED BY <3>1, <3>2 DEF Reached
  <2>5. J[0] = {v \in Walking(n) : Walked(t, n, r, 0, v)} BY <1>1
  <2> HIDE DEF J, init
  <2>6. Walked(t, n, r, 0, init) BY <2>1, <2>2, <2>3, <2>4 DEF Walked
  <2> QED BY <2>1, <2>5, <2>6
<1>5. Walk(t, r, TRUE) = Run(steps, init).done BY <1>1 DEF Walk
<1>6. J[n] = {v \in Walking(n) : Walked(t, n, r, n, v)} BY <1>1
<1> HIDE DEF steps, init, J
<1>7. PICK s : s = Run(steps, init) OBVIOUS
<1>8. s \in J[n] BY <1>1, <1>2, <1>3, <1>4, <1>7, RunKeeps
<1>9. PICK D : D = Range(s.done) OBVIOUS
<1>10. /\ s.done \in Seq(1 .. n) /\ s.todo \in Seq(1 .. n) /\ Range(s.todo) \cap D = {} /\ r \in Range(s.todo) \union D
       /\ Cardinality(D) = Len(s.done) /\ (\A j \in D : Reached(t, r, j))
       /\ (\A j \in D : \A c \in 1 .. n : IsKid(t, j, c) => c \in Range(s.todo) \union D)
       /\ s.todo # <<>> => Len(s.done) = n
  BY <1>6, <1>8, <1>9 DEF Walked, Walking
<1>11. D \subseteq 1 .. n BY <1>9, <1>10, RangeIn
<1>12. s.todo = <<>>
  <2> SUFFICES ASSUME s.todo # <<>> PROVE FALSE OBVIOUS
  <2>1. IsFiniteSet(1 .. n) /\ Cardinality(1 .. n) = n
    <3>1. Cardinality(1 .. n) = IF 1 > n THEN 0 ELSE n - 1 + 1 BY <1>1, FS_Interval
    <3> QED BY <1>1, <3>1, FS_Interval
  <2>2. D = 1 .. n BY <1>10, <1>11, <2>1, FS_Subset
  <2>3. Head(s.todo) \in 1 .. n /\ Head(s.todo) \in Range(s.todo)
    <3>1. PICK S : S = 1 .. n OBVIOUS
    <3>2. PICK todo : todo = s.todo OBVIOUS
    <3>3. todo \in Seq(S) /\ todo # <<>> BY <1>10, <3>1, <3>2
    <3>4. Head(todo) = todo[1] /\ 1 \in 1 .. Len(todo) BY <3>3
    <3>5. todo[1] \in Range(todo) /\ Range(todo) \subseteq S BY <3>3, <3>4, RangeIn
    <3> QED BY <3>1, <3>2, <3>4, <3>5
  <2> QED BY <1>10, <2>2, <2>3
<1>13. r \in D /\ \A j \in D : \A c \in 1 .. n : IsKid(t, j, c) => c \in D
  <2>1. Range(s.todo) = {} BY <1>12 DEF Range
  <2> QED BY <1>10, <2>1
<1>14. ASSUME NEW j \in 1 .. n, Reached(t, r, j), j \notin D PROVE FALSE
  <2>1. PICK p : p = t[j].path OBVIOUS
  <2>2. PICK k : k = Len(t[r].path) OBVIOUS
  <2>3. k \in Nat /\ k > 0 BY <2>2, PathIs
  <2>4. k <= Len(p) /\ p[k] = r /\ \A m \in k + 1 .. Len(p) : InBranch(t, p[m]) BY <1>14, <2>1, <2>2 DEF Reached
  <2>5. /\ Len(p) \in Nat /\ p[Len(p)] = j
        /\ \A x \in 1 .. Len(p) : p[x] \in 1 .. n /\ Len(t[p[x]].path) = x
        /\ \A x \in 1 .. Len(p) : \A m \in 1 .. x : t[p[x]].path[m] = p[m]
    BY <2>1, PathIs
  <2> DEFINE T == {m \in k .. Len(p) : p[m] \notin D}
  <2>6. T \in SUBSET Nat /\ T # {} BY <1>14, <2>3, <2>4, <2>5
  <2>7. PICK m \in T : \A x \in T : m <= x BY <2>6, LeastOf
  <2>8. m \in k .. Len(p) /\ p[m] \notin D /\ m # k BY <1>13, <2>4, <2>7
  <2>9. m - 1 \in k .. Len(p) /\ m - 1 \notin T BY <2>3, <2>7, <2>8
  <2>10. p[m - 1] \in D BY <2>9
  <2>11. m \in 1 .. Len(p) /\ m - 1 \in 1 .. Len(p) /\ m \in k + 1 .. Len(p) /\ m - 1 \in 1 .. m BY <2>3, <2>5, <2>8, <2>9
  <2>12. IsKid(t, p[m - 1], p[m])
    <3>1. Len(t[p[m]].path) = m /\ Len(t[p[m - 1]].path) = m - 1 /\ t[p[m]].path[m - 1] = p[m - 1] BY <2>5, <2>11
    <3>2. m = (m - 1) + 1 BY <2>11
    <3>3. InBranch(t, p[m]) BY <2>4, <2>11
    <3> QED BY <3>1, <3>2, <3>3 DEF IsKid
  <2>13. p[m] \in 1 .. n BY <2>5, <2>11
  <2> QED BY <1>13, <2>8, <2>10, <2>12, <2>13
<1>15. D = {j \in 1 .. n : Reached(t, r, j)} BY <1>10, <1>11, <1>14
<1> QED BY <1>5, <1>7, <1>9, <1>15

-----------------------------------------------------------------------------
(***************************************************************************)
(* The tree of the blocks                                                  *)
(***************************************************************************)
LEMMA TreeAt ==
    ASSUME NEW n \in Nat, NEW bs \in Sized(n), NEW j \in 1 .. n
    PROVE  Tree(bs)[j].path = bs[j].path /\ Tree(bs)[j].kind = bs[j].kind /\ Tree(bs)[j].set = bs[j].set
<1>1. Len(bs) = n BY SizedIs
<1> QED BY <1>1 DEF Tree

LEMMA SameTree ==
    ASSUME NEW n \in Nat, NEW bs \in Sized(n), NEW cs \in Sized(n),
           \A j \in 1 .. n : cs[j].path = bs[j].path /\ cs[j].kind = bs[j].kind /\ cs[j].set = bs[j].set
    PROVE  Tree(cs) = Tree(bs)
BY SizedIs DEF Tree

(* The last block that a path has of main and hat blocks is the root. *)
LEMMA RootIs ==
    ASSUME NEW t, NEW n, Rooted(t, n), NEW j \in 1 .. n
    PROVE  /\ RootOf(t, j) \in 1 .. n /\ t[RootOf(t, j)].kind \in {"main", "hat"}
           /\ Len(t[RootOf(t, j)].path) \in 1 .. Len(t[j].path) /\ t[j].path[Len(t[RootOf(t, j)].path)] = RootOf(t, j)
           /\ \A m \in Len(t[RootOf(t, j)].path) + 1 .. Len(t[j].path) : t[t[j].path[m]].kind \notin {"main", "hat"}
<1>1. PICK p : p = t[j].path OBVIOUS
<1>2. /\ Len(p) \in Nat /\ Len(p) > 0 /\ p[1] = 1 /\ \A k \in 1 .. Len(p) : p[k] \in 1 .. n /\ Len(t[p[k]].path) = k
  BY <1>1, PathIs
<1> DEFINE S == {k \in 1 .. Len(p) : t[p[k]].kind \in {"main", "hat"}}
<1>3. S \in SUBSET (1 .. Len(p)) /\ 1 \in S BY <1>2 DEF Rooted
<1>4. PICK k : k = Max(S) OBVIOUS
<1>5. k \in S /\ \A y \in S : k >= y BY <1>2, <1>3, <1>4, MaxOf
<1>6. RootOf(t, j) = p[k] BY <1>1, <1>4 DEF RootOf
<1>7. k \in 1 .. Len(p) /\ t[p[k]].kind \in {"main", "hat"} BY <1>5
<1>8. ASSUME NEW m \in k + 1 .. Len(p) PROVE t[p[m]].kind \notin {"main", "hat"}
  <2>1. m \in 1 .. Len(p) /\ ~(k >= m) BY <1>2, <1>7
  <2> QED BY <1>5, <2>1
<1>9. Len(t[p[k]].path) = k /\ p[k] \in 1 .. n BY <1>2, <1>7
<1> QED BY <1>1, <1>6, <1>7, <1>8, <1>9

LEMMA RootOnce ==
    ASSUME NEW t, NEW n, Rooted(t, n), NEW j \in 1 .. n, NEW k \in 1 .. Len(t[j].path), t[t[j].path[k]].kind \in {"main", "hat"},
           \A m \in k + 1 .. Len(t[j].path) : t[t[j].path[m]].kind \notin {"main", "hat"}
    PROVE  RootOf(t, j) = t[j].path[k]
<1>1. PICK x : x = Len(t[RootOf(t, j)].path) OBVIOUS
<1>2. /\ x \in 1 .. Len(t[j].path) /\ t[j].path[x] = RootOf(t, j) /\ t[RootOf(t, j)].kind \in {"main", "hat"}
      /\ \A m \in x + 1 .. Len(t[j].path) : t[t[j].path[m]].kind \notin {"main", "hat"}
  BY <1>1, RootIs
<1>3. PICK len : len = Len(t[j].path) /\ len \in Nat BY PathIs
<1>4. k \in 1 .. len /\ x \in 1 .. len BY <1>2, <1>3
<1>5. ~(x > k) BY <1>2, <1>3, <1>4
<1>6. ~(k > x) BY <1>2, <1>3, <1>4
<1>7. x = k BY <1>4, <1>5, <1>6
<1> QED BY <1>2, <1>7

LEMMA ReachedRoot ==
    ASSUME NEW t, NEW n, Rooted(t, n), NEW r \in 1 .. n, t[r].kind \in {"main", "hat"}, NEW j \in 1 .. n, Reached(t, r, j)
    PROVE  RootOf(t, j) = r
<1>1. PICK k : k = Len(t[r].path) /\ k \in Nat /\ k > 0 BY PathIs
<1>2. PICK p : p = t[j].path OBVIOUS
<1>3. Len(p) \in Nat BY <1>2, PathIs
<1>4. k <= Len(p) /\ p[k] = r /\ \A m \in k + 1 .. Len(p) : InBranch(t, p[m]) BY <1>1, <1>2 DEF Reached
<1>5. k \in 1 .. Len(p) BY <1>1, <1>3, <1>4
<1>6. \A m \in k + 1 .. Len(p) : t[p[m]].kind \notin {"main", "hat"} BY <1>4 DEF InBranch
<1> QED BY <1>2, <1>4, <1>5, <1>6, RootOnce

(* The definitions of the model, by the tree *)
LEMMA RootAgrees ==
    ASSUME NEW n \in Nat, blocks \in Sized(n), Rooted(Tree(blocks), n), NEW j \in 1 .. n
    PROVE  Root(j) = RootOf(Tree(blocks), j)
<1>1. PICK t : t = Tree(blocks) OBVIOUS
<1>2. PICK p : p = t[j].path OBVIOUS
<1>3. p = blocks[j].path BY <1>1, <1>2, TreeAt
<1>4. DOMAIN p = 1 .. Len(p) /\ \A k \in 1 .. Len(p) : p[k] \in 1 .. n BY <1>1, <1>2, PathIs
<1>5. \A k \in 1 .. Len(p) : blocks[p[k]].kind = t[p[k]].kind BY <1>1, <1>4, TreeAt
<1>6. {k \in DOMAIN p : blocks[p[k]].kind \in {"main", "hat"}} = {k \in 1 .. Len(p) : t[p[k]].kind \in {"main", "hat"}}
  BY <1>4, <1>5
<1> QED BY <1>1, <1>2, <1>3, <1>6 DEF Root, RootOf

LEMMA EffectiveIs ==
    ASSUME NEW n \in Nat, blocks \in Sized(n), NEW t, t = Tree(blocks), Rooted(t, n), NEW s, HomeOf(s) \in 1 .. n,
           s.path = t[HomeOf(s)].path
    PROVE  Effective(s) <=> Reached(t, RootOf(t, HomeOf(s)), HomeOf(s))
<1>1. PICK j : j = HomeOf(s) OBVIOUS
<1>2. PICK p : p = t[j].path OBVIOUS
<1>3. j \in 1 .. n /\ s.path = p /\ Last(s.path) = j BY <1>1, <1>2 DEF HomeOf, Last
<1>4. PICK r : r = RootOf(t, j) OBVIOUS
<1>5. PICK k : k = Len(t[r].path) OBVIOUS
<1>6. /\ r \in 1 .. n /\ k \in 1 .. Len(p) /\ p[k] = r /\ \A m \in k + 1 .. Len(p) : t[p[m]].kind \notin {"main", "hat"}
  <2>1. /\ RootOf(t, j) \in 1 .. n
        /\ Len(t[RootOf(t, j)].path) \in 1 .. Len(t[j].path) /\ t[j].path[Len(t[RootOf(t, j)].path)] = RootOf(t, j)
        /\ \A m \in Len(t[RootOf(t, j)].path) + 1 .. Len(t[j].path) : t[t[j].path[m]].kind \notin {"main", "hat"}
    BY <1>3, RootIs
  <2> QED BY <1>2, <1>4, <1>5, <2>1, Zenon
<1>7. Len(p) \in Nat /\ DOMAIN p = 1 .. Len(p) /\ \A m \in 1 .. Len(p) : p[m] \in 1 .. n BY <1>2, <1>3, PathIs
<1>8. \A m \in 1 .. Len(p) : blocks[p[m]].kind = t[p[m]].kind /\ blocks[p[m]].set = t[p[m]].set BY <1>7, TreeAt
<1>9. Root(Last(s.path)) = r BY <1>3, <1>4, RootAgrees
<1>10. Len(blocks[r].path) = k BY <1>5, <1>6, TreeAt
<1>11. Effective(s) <=> \A m \in 1 .. Len(p) : m > k /\ t[p[m]].kind = "cond" => t[p[m]].set
  BY <1>3, <1>7, <1>8, <1>9, <1>10 DEF Effective, ChosenBelow
<1>12. \A m \in k + 1 .. Len(p) : t[p[m]].kind \in {"block", "cond"}
  <2>1. ASSUME NEW m \in k + 1 .. Len(p) PROVE t[p[m]].kind \in {"main", "hat", "block", "cond"}
    <3>1. m \in 1 .. Len(p) BY <1>6, <1>7
    <3>2. blocks[p[m]] \in GoodBlocks /\ blocks[p[m]].kind = t[p[m]].kind BY <1>7, <1>8, <3>1, SizedIs
    <3> QED BY <3>2 DEF GoodBlocks, BlockRecs
  <2> QED BY <1>6, <2>1
<1>13. \A m \in 1 .. Len(p) : m > k <=> m \in k + 1 .. Len(p) BY <1>6, <1>7
<1>14. k <= Len(p) BY <1>6, <1>7
<1>15. \A m \in k + 1 .. Len(p) : InBranch(t, p[m]) <=> (t[p[m]].kind = "cond" => t[p[m]].set) BY <1>12 DEF InBranch
<1>16. Reached(t, r, j) <=> \A m \in k + 1 .. Len(p) : InBranch(t, p[m]) BY <1>2, <1>5, <1>6, <1>14 DEF Reached
<1>17. \A m \in k + 1 .. Len(p) : m \in 1 .. Len(p) BY <1>6, <1>7
<1> QED BY <1>1, <1>4, <1>11, <1>13, <1>15, <1>16, <1>17

-----------------------------------------------------------------------------
(***************************************************************************)
(* Limits: what a block is handed when the ones in it close.               *)
(***************************************************************************)
LEMMA OpenIs ==
    ASSUME NEW t, NEW n, Rooted(t, n), NEW op, NEW c, IsOpen(t, n, op, c)
    PROVE  /\ op \in Seq(1 .. n) /\ Len(op) \in Nat /\ Len(op) > 0 /\ DOMAIN op = 1 .. Len(op) /\ op[Len(op)] = c
           /\ c \in Range(op) /\ (\A k \in 1 .. Len(op) : op[k] \in 1 .. n /\ Len(t[op[k]].path) = k)
           /\ \A k \in 1 .. Len(op) : \A m \in 1 .. k : t[op[k]].path[m] = op[m]
<1>1. /\ op \in Seq(1 .. n) /\ Len(op) \in Nat /\ Len(op) > 0 /\ DOMAIN op = 1 .. Len(op) /\ op[Len(op)] = c
      /\ (\A k \in 1 .. Len(op) : op[k] \in 1 .. n /\ Len(t[op[k]].path) = k)
      /\ \A k \in 1 .. Len(op) : \A m \in 1 .. k : t[op[k]].path[m] = op[m]
  BY PathIs DEF IsOpen
<1>2. c \in Range(op) BY <1>1 DEF Range
<1> QED BY <1>1, <1>2

LEMMA CountedHere ==
    ASSUME NEW t, NEW n, Rooted(t, n), NEW op, NEW c, IsOpen(t, n, op, c), NEW r \in 1 .. n
    PROVE  Counted(t, op, r, c) <=> r = c
<1>1. PICK len : len = Len(t[c].path) OBVIOUS
<1>2. c \in 1 .. n /\ op = t[c].path /\ len \in Nat /\ len > 0 /\ t[c].path[len] = c /\ c \in Range(op)
  BY <1>1, OpenIs DEF IsOpen
<1>3. PICK k : k = Len(t[r].path) OBVIOUS
<1>4. k \in Nat BY <1>3, PathIs
<1>5. ASSUME r = c PROVE Counted(t, op, r, c) BY <1>1, <1>2, <1>5 DEF Counted, Reached
<1>6. ASSUME Counted(t, op, r, c) PROVE r = c
  <2>1. k <= len /\ t[c].path[k] = r /\ \A m \in k + 1 .. len : t[c].path[m] \notin Range(op)
    BY <1>1, <1>3, <1>6 DEF Counted, Reached
  <2>2. ~(len \in k + 1 .. len) BY <1>2, <2>1
  <2>3. k = len BY <1>2, <1>4, <2>1, <2>2
  <2> QED BY <1>2, <2>1, <2>3
<1> QED BY <1>5, <1>6

(* Closing the current block c lets its parent a count what c counts, if c *)
(* is a block or a chosen branch.                                          *)
LEMMA FrontIs ==
    ASSUME NEW t, NEW n, Rooted(t, n), NEW op, NEW c, IsOpen(t, n, op, c), Len(op) > 1
    PROVE  LET a == op[Len(op) - 1] IN
           /\ IsOpen(t, n, Front(op), a) /\ Range(op) = Range(Front(op)) \union {c} /\ c \notin Range(Front(op))
           /\ a \in Range(Front(op)) /\ a \in 1 .. n /\ a # c /\ Len(t[a].path) = Len(op) - 1
<1>1. PICK len : len = Len(op) OBVIOUS
<1>2. /\ op \in Seq(1 .. n) /\ len \in Nat /\ len > 1 /\ DOMAIN op = 1 .. len /\ op[len] = c
      /\ (\A k \in 1 .. len : op[k] \in 1 .. n /\ Len(t[op[k]].path) = k)
      /\ \A k \in 1 .. len : \A m \in 1 .. k : t[op[k]].path[m] = op[m]
  BY <1>1, OpenIs
<1>3. PICK a : a = op[len - 1] OBVIOUS
<1>4. len - 1 \in 1 .. len /\ len - 1 \in Nat /\ len \in 1 .. len BY <1>2
<1>5. a \in 1 .. n /\ Len(t[a].path) = len - 1 /\ \A m \in 1 .. len - 1 : t[a].path[m] = op[m] BY <1>2, <1>3, <1>4
<1>6. PICK fr : fr = Front(op) OBVIOUS
<1>7. PICK S : S = 1 .. n OBVIOUS
<1>8. op \in Seq(S) /\ len = Len(op) BY <1>1, <1>2, <1>7
<1>9. fr \in Seq(S) /\ Len(fr) = len - 1 /\ DOMAIN fr = 1 .. len - 1 /\ \A m \in 1 .. len - 1 : fr[m] = op[m]
  BY <1>2, <1>6, <1>8 DEF Front
<1>10. t[a].path \in Seq(S) BY <1>5, <1>7, PathIs
<1>11. fr = t[a].path BY <1>5, <1>9, <1>10
<1>12. 1 .. len = (1 .. len - 1) \union {len} BY <1>2
<1>13. Range(op) = Range(fr) \union {c} BY <1>2, <1>9, <1>12 DEF Range
<1>14. c \notin Range(fr)
  <2>1. ASSUME NEW m \in 1 .. len - 1 PROVE fr[m] # c
    <3>1. m \in 1 .. len /\ m # len BY <1>2
    <3>2. Len(t[op[m]].path) = m /\ Len(t[op[len]].path) = len BY <1>2, <1>4, <3>1
    <3> QED BY <1>2, <1>9, <3>1, <3>2
  <2> QED BY <1>9, <2>1 DEF Range
<1>15. a \in Range(fr)
  <2>1. len - 1 \in 1 .. len - 1 BY <1>2
  <2> QED BY <1>3, <1>9, <2>1 DEF Range
<1> QED BY <1>1, <1>3, <1>5, <1>6, <1>11, <1>13, <1>14, <1>15 DEF IsOpen

LEMMA CountedClosed ==
    ASSUME NEW t, NEW n, Rooted(t, n), NEW op, NEW c, IsOpen(t, n, op, c), Len(op) > 1, NEW a, a = op[Len(op) - 1],
           NEW r \in 1 .. n, NEW j \in 1 .. n
    PROVE  Counted(t, Front(op), r, j) <=> Counted(t, op, r, j) \/ (r = a /\ InBranch(t, c) /\ Counted(t, op, c, j))
<1>1. PICK len : len = Len(op) OBVIOUS
<1>2. PICK R : R = Range(Front(op)) OBVIOUS
<1>3. /\ Range(op) = R \union {c} /\ c \notin R /\ a \in R /\ a \in 1 .. n /\ a # c /\ Len(t[a].path) = len - 1
  BY <1>1, <1>2, FrontIs
<1>4. c \in 1 .. n /\ op = t[c].path /\ len \in Nat /\ len > 1 /\ op[len] = c /\ op[len - 1] = a BY <1>1, OpenIs DEF IsOpen
<1>5. PICK p : p = t[j].path OBVIOUS
<1>6. PICK pl : pl = Len(p) OBVIOUS
<1>7. /\ pl \in Nat /\ (\A x \in 1 .. pl : p[x] \in 1 .. n /\ Len(t[p[x]].path) = x)
      /\ \A x \in 1 .. pl : \A m \in 1 .. x : t[p[x]].path[m] = p[m]
  BY <1>5, <1>6, PathIs
<1>8. PICK k : k = Len(t[r].path) OBVIOUS
<1>9. k \in Nat /\ k > 0 BY <1>8, PathIs
<1>10. \A o : Counted(t, o, r, j) <=> /\ k <= pl /\ p[k] = r
                                      /\ \A m \in k + 1 .. pl : InBranch(t, p[m]) /\ p[m] \notin Range(o)
  BY <1>5, <1>6, <1>8 DEF Counted, Reached
<1>11. \A o : Counted(t, o, c, j) <=> /\ len <= pl /\ p[len] = c
                                      /\ \A m \in len + 1 .. pl : InBranch(t, p[m]) /\ p[m] \notin Range(o)
  BY <1>1, <1>4, <1>5, <1>6 DEF Counted, Reached
<1>12. ASSUME NEW x \in 1 .. pl, p[x] = c PROVE x = len /\ p[len - 1] = a
  <2>1. Len(t[c].path) = x BY <1>7, <1>12
  <2>2. x = len BY <1>1, <1>4, <2>1
  <2>3. len - 1 \in 1 .. x BY <1>4, <2>2
  <2>4. t[p[x]].path[len - 1] = p[len - 1] BY <1>7, <2>3
  <2> QED BY <1>4, <1>12, <2>2, <2>4
<1>13. ASSUME Counted(t, op, r, j) PROVE Counted(t, Front(op), r, j) BY <1>2, <1>3, <1>10, <1>13
<1>14. ASSUME r = a, InBranch(t, c), Counted(t, op, c, j) PROVE Counted(t, Front(op), r, j)
  <2>1. len <= pl /\ p[len] = c /\ \A m \in len + 1 .. pl : InBranch(t, p[m]) /\ p[m] \notin Range(op) BY <1>11, <1>14
  <2>2. len \in 1 .. pl BY <1>4, <1>7, <2>1
  <2>3. p[len - 1] = a BY <1>12, <2>1, <2>2
  <2>4. k = len - 1 BY <1>3, <1>8, <1>14
  <2>5. k <= pl BY <1>4, <1>7, <2>1, <2>4
  <2>6. ASSUME NEW m \in k + 1 .. pl PROVE InBranch(t, p[m]) /\ p[m] \notin R
    <3>1. m = len \/ m \in len + 1 .. pl BY <1>4, <1>7, <2>4
    <3> QED BY <1>3, <1>14, <2>1, <3>1
  <2> QED BY <1>2, <1>10, <1>14, <2>3, <2>4, <2>5, <2>6
<1>15. ASSUME Counted(t, Front(op), r, j), ~Counted(t, op, r, j) PROVE r = a /\ InBranch(t, c) /\ Counted(t, op, c, j)
  <2>1. k <= pl /\ p[k] = r /\ \A m \in k + 1 .. pl : InBranch(t, p[m]) /\ p[m] \notin R BY <1>2, <1>10, <1>15
  <2>2. PICK m \in k + 1 .. pl : p[m] = c BY <1>3, <1>10, <1>15, <2>1
  <2>3. m \in 1 .. pl BY <1>7, <1>9
  <2>4. m = len /\ p[len - 1] = a BY <1>12, <2>2, <2>3
  <2>5. ~(len - 1 \in k + 1 .. pl) BY <1>3, <2>1, <2>4
  <2>6. k = len - 1 BY <1>4, <1>7, <1>9, <2>2, <2>4, <2>5
  <2>7. r = a BY <2>1, <2>4, <2>6
  <2>8. ASSUME NEW x \in len + 1 .. pl PROVE InBranch(t, p[x]) /\ p[x] \notin Range(op)
    <3>1. x \in k + 1 .. pl /\ x \in 1 .. pl /\ x # len BY <1>4, <1>7, <1>9, <2>6
    <3>2. p[x] # c BY <1>12, <3>1
    <3> QED BY <1>3, <2>1, <3>1, <3>2
  <2>9. len <= pl BY <1>7, <2>3, <2>4
  <2> QED BY <1>11, <2>1, <2>2, <2>4, <2>7, <2>8, <2>9
<1> QED BY <1>13, <1>14, <1>15

LEMMA StmtsIs ==
    ASSUME NEW t, NEW n, NEW ss, History(t, n, ss)
    PROVE  /\ Len(ss) \in Nat /\ DOMAIN ss = 1 .. Len(ss)
           /\ \A m \in 1 .. Len(ss) : HomeOf(ss[m]) \in 1 .. n /\ ss[m].path = t[HomeOf(ss[m])].path
           /\ \A m \in 1 .. Len(ss) : ss[m].kind = "file" => ss[m].what \in Files
BY DEF History

(* Append as the proofs use it *)
LEMMA AppendIs ==
    ASSUME NEW S, NEW ss \in Seq(S), NEW s \in S
    PROVE  /\ Append(ss, s) \in Seq(S) /\ Len(Append(ss, s)) = Len(ss) + 1 /\ DOMAIN Append(ss, s) = 1 .. Len(ss) + 1
           /\ (\A m \in 1 .. Len(ss) : Append(ss, s)[m] = ss[m]) /\ Append(ss, s)[Len(ss) + 1] = s
OBVIOUS

(* The statement s, written in block c *)
WrittenIn(t, c, s) == /\ s \in StmtRecs /\ s.path = t[c].path
                      /\ s.kind = "file" => s.what \in Files
                      /\ s.kind = "rlimit" => s.what \in [l : LimitNames, n : Int]
LEMMA HistoryGrows ==
    ASSUME NEW t, NEW n, Rooted(t, n), NEW ss, History(t, n, ss), NEW c \in 1 .. n, NEW s, WrittenIn(t, c, s)
    PROVE  History(t, n, Append(ss, s)) /\ HomeOf(s) = c
<1>1. PICK u : u = Append(ss, s) OBVIOUS
<1>2. ss \in Seq(StmtRecs) /\ s \in StmtRecs BY DEF History, WrittenIn
<1>3. /\ u \in Seq(StmtRecs) /\ DOMAIN u = 1 .. Len(ss) + 1 /\ (\A m \in 1 .. Len(ss) : u[m] = ss[m]) /\ u[Len(ss) + 1] = s
  BY <1>1, <1>2, AppendIs
<1>4. HomeOf(s) = c BY PathIs DEF HomeOf, WrittenIn
<1>5. Len(ss) \in Nat /\ DOMAIN ss = 1 .. Len(ss) BY StmtsIs
<1>6. ASSUME NEW m \in DOMAIN u
      PROVE  /\ HomeOf(u[m]) \in 1 .. n /\ u[m].path = t[HomeOf(u[m])].path
             /\ u[m].kind = "file" => u[m].what \in Files
             /\ u[m].kind = "rlimit" => u[m].what \in [l : LimitNames, n : Int]
  <2>1. m \in 1 .. Len(ss) \/ m = Len(ss) + 1 BY <1>3, <1>5
  <2>2. CASE m \in 1 .. Len(ss) BY <1>3, <1>5, <2>2 DEF History
  <2>3. CASE m = Len(ss) + 1 BY <1>3, <1>4, <2>3 DEF WrittenIn
  <2> QED BY <2>1, <2>2, <2>3
<1> QED BY <1>1, <1>3, <1>4, <1>6 DEF History

LEMMA LimitsOfIn ==
    ASSUME NEW t, NEW n, NEW ss, History(t, n, ss), NEW op, NEW i, NEW l
    PROVE  /\ Len(ss) \in Nat /\ LimitsOf(t, op, ss, i, l) \in SUBSET (1 .. Len(ss))
           /\ LimitsOf(t, op, ss, i, l) # {} => Max(LimitsOf(t, op, ss, i, l)) \in 1 .. Len(ss)
<1>1. Len(ss) \in Nat /\ DOMAIN ss = 1 .. Len(ss) BY StmtsIs
<1>2. PICK S : S = LimitsOf(t, op, ss, i, l) OBVIOUS
<1>3. S \in SUBSET (1 .. Len(ss)) BY <1>1, <1>2 DEF LimitsOf
<1>4. S # {} => Max(S) \in 1 .. Len(ss) BY <1>1, <1>3, MaxOf
<1> QED BY <1>1, <1>2, <1>3, <1>4

(* A statement of another kind leaves the limits alone. *)
LEMMA LimitsOther ==
    ASSUME NEW t, NEW n, Rooted(t, n), NEW ss, History(t, n, ss), NEW c \in 1 .. n, NEW s, WrittenIn(t, c, s), s.kind # "rlimit",
           NEW op, NEW bs, LimitsHeld(t, op, ss, bs, n), NEW cs, \A i \in 1 .. n : cs[i].rlimits = bs[i].rlimits
    PROVE  LimitsHeld(t, op, Append(ss, s), cs, n)
<1>1. PICK u : u = Append(ss, s) OBVIOUS
<1>2. ss \in Seq(StmtRecs) /\ s \in StmtRecs BY DEF History, WrittenIn
<1>3. /\ DOMAIN u = 1 .. Len(ss) + 1 /\ (\A m \in 1 .. Len(ss) : u[m] = ss[m]) /\ u[Len(ss) + 1] = s
  BY <1>1, <1>2, AppendIs
<1>4. Len(ss) \in Nat /\ DOMAIN ss = 1 .. Len(ss) BY StmtsIs
<1>5. 1 .. Len(ss) + 1 = (1 .. Len(ss)) \union {Len(ss) + 1} BY <1>4
<1>6. ASSUME NEW i \in 1 .. n, NEW l \in LimitNames PROVE Holds(u, cs[i].rlimits, l, LimitsOf(t, op, u, i, l))
  <2>1. LimitsOf(t, op, u, i, l) = LimitsOf(t, op, ss, i, l) BY <1>3, <1>4, <1>5 DEF LimitsOf
  <2>2. PICK S : S = LimitsOf(t, op, ss, i, l) OBVIOUS
  <2>3. S # {} => Max(S) \in 1 .. Len(ss) BY <2>2, LimitsOfIn
  <2>4. Holds(ss, bs[i].rlimits, l, S) BY <2>2 DEF LimitsHeld
  <2>5. S # {} => u[Max(S)] = ss[Max(S)] BY <1>3, <2>3
  <2> QED BY <2>1, <2>2, <2>4, <2>5 DEF Holds
<1> QED BY <1>1, <1>6 DEF LimitsHeld

(* A limit is set in the current block. *)
LEMMA LimitSet ==
    ASSUME NEW t, NEW n, Rooted(t, n), NEW ss, History(t, n, ss), NEW op, NEW c, IsOpen(t, n, op, c), NEW s, WrittenIn(t, c, s),
           s.kind = "rlimit", NEW bs, LimitsHeld(t, op, ss, bs, n), NEW cs,
           \A i \in 1 .. n : i # c => cs[i].rlimits = bs[i].rlimits,
           bs[c].rlimits \in Limits,
           cs[c].rlimits = [specified |-> bs[c].rlimits.specified \union {s.what.l},
                            limits |-> [bs[c].rlimits.limits EXCEPT ![s.what.l] = s.what.n]]
    PROVE  LimitsHeld(t, op, Append(ss, s), cs, n)
<1>1. PICK u : u = Append(ss, s) OBVIOUS
<1>2. ss \in Seq(StmtRecs) /\ s \in StmtRecs BY DEF History, WrittenIn
<1>3. PICK len : len = Len(ss) OBVIOUS
<1>4. /\ DOMAIN u = 1 .. len + 1 /\ (\A m \in 1 .. len : u[m] = ss[m]) /\ u[len + 1] = s
  BY <1>1, <1>2, <1>3, AppendIs
<1>5. len \in Nat /\ DOMAIN ss = 1 .. len BY <1>3, StmtsIs
<1>6. 1 .. len + 1 = (1 .. len) \union {len + 1} /\ len + 1 \in 1 .. len + 1 BY <1>5
<1>7. c \in 1 .. n /\ s.what.l \in LimitNames /\ s.what.n \in Int BY DEF IsOpen, WrittenIn
<1>8. HomeOf(s) = c BY <1>7, HistoryGrows
<1>9. ASSUME NEW i \in 1 .. n, NEW l \in LimitNames PROVE Holds(u, cs[i].rlimits, l, LimitsOf(t, op, u, i, l))
  <2>1. PICK S : S = LimitsOf(t, op, ss, i, l) OBVIOUS
  <2>2. S \in SUBSET (1 .. len) /\ (S # {} => Max(S) \in 1 .. len) BY <1>3, <2>1, LimitsOfIn
  <2>3. Holds(ss, bs[i].rlimits, l, S) BY <2>1 DEF LimitsHeld
  <2>4. S # {} => u[Max(S)] = ss[Max(S)] BY <1>4, <2>2
  <2>5. LimitsOf(t, op, u, i, l) = S \union {m \in {len + 1} : s.what.l = l /\ Counted(t, op, i, c)}
    BY <1>4, <1>5, <1>6, <1>8, <2>1 DEF LimitsOf
  <2>6. Counted(t, op, i, c) <=> i = c BY CountedHere
  <2>7. CASE i = c /\ l = s.what.l
    <3>1. PICK T : T = LimitsOf(t, op, u, i, l) OBVIOUS
    <3>2. T = S \union {len + 1} BY <2>5, <2>6, <2>7, <3>1
    <3>3. T \in SUBSET (1 .. len + 1) /\ T # {} BY <1>6, <2>2, <3>2
    <3>4. len + 1 \in Nat BY <1>5
    <3>5. Max(T) \in T /\ \A y \in T : Max(T) >= y BY <3>3, <3>4, MaxOf
    <3>6. PICK x : x = Max(T) OBVIOUS
    <3>7. x \in 1 .. len + 1 /\ x >= len + 1 BY <3>2, <3>3, <3>5, <3>6
    <3>8. x = len + 1 BY <1>5, <3>7
    <3>9. u[Max(T)].what.n = s.what.n BY <1>4, <3>6, <3>8
    <3>10. l \in cs[i].rlimits.specified /\ cs[i].rlimits.limits[l] = s.what.n BY <1>7, <2>7 DEF Limits
    <3> QED BY <3>1, <3>3, <3>9, <3>10 DEF Holds
  <2>8. CASE i = c /\ l # s.what.l
    <3>1. LimitsOf(t, op, u, i, l) = S BY <2>5, <2>8
    <3>2. (l \in cs[i].rlimits.specified <=> l \in bs[i].rlimits.specified) /\ cs[i].rlimits.limits[l] = bs[i].rlimits.limits[l]
      BY <1>7, <2>8 DEF Limits
    <3> QED BY <2>3, <2>4, <3>1, <3>2 DEF Holds
  <2>9. CASE i # c
    <3>1. LimitsOf(t, op, u, i, l) = S BY <2>5, <2>6, <2>9
    <3>2. cs[i].rlimits = bs[i].rlimits BY <2>9
    <3> QED BY <2>3, <2>4, <3>1, <3>2 DEF Holds
  <2> QED BY <2>7, <2>8, <2>9
<1> QED BY <1>1, <1>9 DEF LimitsHeld

(* A block or a chosen branch closes and hands its limits to the parent. *)
LEMMA LimitsClosed ==
    ASSUME NEW t, NEW n, Rooted(t, n), NEW ss, History(t, n, ss), NEW op, NEW c, IsOpen(t, n, op, c), Len(op) > 1,
           NEW a, a = op[Len(op) - 1], InBranch(t, c), NEW bs, LimitsHeld(t, op, ss, bs, n), NEW cs,
           \A i \in 1 .. n : i # a => cs[i].rlimits = bs[i].rlimits,
           NEW x, x = bs[a].rlimits, NEW y, y = bs[c].rlimits, x.specified \intersect y.specified = {},
           cs[a].rlimits = [specified |-> x.specified \union y.specified,
                            limits |-> [l \in LimitNames |-> IF y.limits[l] # 0 THEN y.limits[l] ELSE x.limits[l]]]
    PROVE  LimitsHeld(t, Front(op), ss, cs, n)
<1>1. c \in 1 .. n /\ a \in 1 .. n BY FrontIs DEF IsOpen
<1>2. Len(ss) \in Nat /\ DOMAIN ss = 1 .. Len(ss) /\ \A m \in 1 .. Len(ss) : HomeOf(ss[m]) \in 1 .. n BY StmtsIs
<1>3. ASSUME NEW i \in 1 .. n, NEW l \in LimitNames PROVE Holds(ss, cs[i].rlimits, l, LimitsOf(t, Front(op), ss, i, l))
  <2>1. PICK S : S = LimitsOf(t, op, ss, i, l) OBVIOUS
  <2>2. PICK T : T = LimitsOf(t, op, ss, c, l) OBVIOUS
  <2>3. Holds(ss, bs[i].rlimits, l, S) /\ Holds(ss, y, l, T) BY <1>1, <2>1, <2>2 DEF LimitsHeld
  <2>4. LimitsOf(t, Front(op), ss, i, l) = IF i = a THEN S \union T ELSE S
    <3>1. \A m \in 1 .. Len(ss) : Counted(t, Front(op), i, HomeOf(ss[m])) <=>
            Counted(t, op, i, HomeOf(ss[m])) \/ (i = a /\ Counted(t, op, c, HomeOf(ss[m])))
      BY <1>2, CountedClosed
    <3> QED BY <1>2, <2>1, <2>2, <3>1 DEF LimitsOf
  <2>5. CASE i # a BY <2>3, <2>4, <2>5
  <2>6. CASE i = a
    <3>1. Holds(ss, x, l, S) BY <2>3, <2>6
    <3>2. cs[a].rlimits.specified = x.specified \union y.specified OBVIOUS
    <3>3. cs[a].rlimits.limits[l] = IF y.limits[l] # 0 THEN y.limits[l] ELSE x.limits[l] OBVIOUS
    <3>4. S = {} \/ T = {} BY <2>3, <3>1 DEF Holds
    <3>5. CASE T = {}
      <4>1. S \union T = S /\ y.limits[l] = 0 /\ l \notin y.specified BY <2>3, <3>5 DEF Holds
      <4> QED BY <2>4, <2>6, <3>1, <3>2, <3>3, <4>1 DEF Holds
    <3>6. CASE T # {} /\ S = {}
      <4>1. S \union T = T /\ x.limits[l] = 0 /\ l \in y.specified /\ y.limits[l] = ss[Max(T)].what.n BY <2>3, <3>1, <3>6 DEF Holds
      <4>2. cs[a].rlimits.limits[l] = y.limits[l] BY <3>3, <4>1
      <4>3. Holds(ss, cs[a].rlimits, l, T) BY <3>2, <3>6, <4>1, <4>2 DEF Holds
      <4> QED BY <2>4, <2>6, <4>1, <4>3
    <3> QED BY <3>4, <3>5, <3>6
  <2> QED BY <2>5, <2>6
<1> QED BY <1>3 DEF LimitsHeld

(* A branch that was not chosen, and a hat, keep theirs. *)
LEMMA LimitsLeft ==
    ASSUME NEW t, NEW n, Rooted(t, n), NEW ss, History(t, n, ss), NEW op, NEW c, IsOpen(t, n, op, c), Len(op) > 1,
           ~InBranch(t, c), NEW bs, LimitsHeld(t, op, ss, bs, n), NEW cs, \A i \in 1 .. n : cs[i].rlimits = bs[i].rlimits
    PROVE  LimitsHeld(t, Front(op), ss, cs, n)
<1>1. Len(ss) \in Nat /\ DOMAIN ss = 1 .. Len(ss) /\ \A m \in 1 .. Len(ss) : HomeOf(ss[m]) \in 1 .. n BY StmtsIs
<1>2. ASSUME NEW i \in 1 .. n, NEW l \in LimitNames PROVE Holds(ss, cs[i].rlimits, l, LimitsOf(t, Front(op), ss, i, l))
  <2>1. \A m \in 1 .. Len(ss) : Counted(t, Front(op), i, HomeOf(ss[m])) <=> Counted(t, op, i, HomeOf(ss[m]))
    BY <1>1, CountedClosed
  <2>2. LimitsOf(t, Front(op), ss, i, l) = LimitsOf(t, op, ss, i, l) BY <1>1, <2>1 DEF LimitsOf
  <2>3. Holds(ss, bs[i].rlimits, l, LimitsOf(t, op, ss, i, l)) BY DEF LimitsHeld
  <2> QED BY <2>2, <2>3
<1> QED BY <1>2 DEF LimitsHeld

-----------------------------------------------------------------------------
(***************************************************************************)
(* A block is opened in block c.                                           *)
(***************************************************************************)
Grown(t, u, n, c) == /\ c \in 1 .. n /\ (\A j \in 1 .. n : u[j] = t[j]) /\ u[n + 1].path = Append(t[c].path, n + 1)
LEMMA GrownPath ==
    ASSUME NEW t, NEW n, Rooted(t, n), NEW u, NEW c, Grown(t, u, n, c), NEW p, p = u[n + 1].path
    PROVE  /\ p \in Seq(1 .. n + 1) /\ Len(p) = Len(t[c].path) + 1 /\ p[Len(p)] = n + 1 /\ Len(t[c].path) \in Nat
           /\ \A k \in 1 .. Len(t[c].path) : p[k] = t[c].path[k]
<1>1. PICK q : q = t[c].path OBVIOUS
<1>2. c \in 1 .. n /\ p = Append(q, n + 1) BY <1>1 DEF Grown
<1>3. q \in Seq(1 .. n) /\ Len(q) \in Nat BY <1>1, <1>2, PathIs
<1>4. n \in Nat BY DEF Rooted
<1>5. PICK S : S = 1 .. n + 1 OBVIOUS
<1>6. 1 .. n \subseteq S /\ n + 1 \in S BY <1>4, <1>5
<1>7. q \in Seq(S) BY <1>3, <1>6, SeqInto
<1>8. p \in Seq(S) /\ Len(p) = Len(q) + 1 /\ p[Len(q) + 1] = n + 1 /\ \A k \in 1 .. Len(q) : p[k] = q[k]
  BY <1>2, <1>6, <1>7
<1> QED BY <1>1, <1>3, <1>5, <1>8

LEMMA GrownRooted ==
    ASSUME NEW t, NEW n, Rooted(t, n), NEW u, NEW c, Grown(t, u, n, c)
    PROVE  Rooted(u, n + 1)
<1>1. n \in Nat /\ n > 0 /\ t[1].kind = "main" /\ t[1].path = <<1>> BY DEF Rooted
<1>2. c \in 1 .. n /\ (\A j \in 1 .. n : u[j] = t[j]) BY DEF Grown
<1>3. u[1] = t[1] BY <1>1, <1>2
<1>4. ASSUME NEW j \in 1 .. n PROVE Pathed(u, n + 1, j)
  <2>1. PICK p : p = t[j].path OBVIOUS
  <2>2. /\ p \in Seq(1 .. n) /\ Len(p) \in Nat /\ Len(p) > 0 /\ p[1] = 1 /\ p[Len(p)] = j
        /\ \A k \in 1 .. Len(p) : p[k] \in 1 .. n /\ Len(t[p[k]].path) = k
        /\ \A k \in 1 .. Len(p) : \A m \in 1 .. k : t[p[k]].path[m] = p[m]
    BY <2>1, PathIs
  <2>3. 1 .. n \subseteq 1 .. n + 1 BY <1>1
  <2>4. p \in Seq(1 .. n + 1) BY <2>2, <2>3, SeqInto
  <2>5. \A k \in 1 .. Len(p) : Len(u[p[k]].path) = k /\ \A m \in 1 .. k : u[p[k]].path[m] = p[m] BY <1>2, <2>2
  <2>6. p # <<>> BY <2>2
  <2>7. u[j].path = p BY <1>2, <2>1
  <2> QED BY <2>2, <2>4, <2>5, <2>6, <2>7 DEF Pathed
<1>5. Pathed(u, n + 1, n + 1)
  <2>1. PICK p : p = u[n + 1].path OBVIOUS
  <2>2. PICK q : q = t[c].path OBVIOUS
  <2>3. PICK len : len = Len(q) OBVIOUS
  <2>4. p \in Seq(1 .. n + 1) /\ Len(p) = len + 1 /\ p[Len(p)] = n + 1 /\ \A k \in 1 .. len : p[k] = q[k]
    BY <2>1, <2>2, <2>3, GrownPath
  <2>5. /\ len \in Nat /\ len > 0 /\ q[1] = 1
        /\ \A k \in 1 .. len : q[k] \in 1 .. n /\ Len(t[q[k]].path) = k
        /\ \A k \in 1 .. len : \A m \in 1 .. k : t[q[k]].path[m] = q[m]
    BY <1>2, <2>2, <2>3, PathIs
  <2>6. p # <<>> BY <2>4, <2>5
  <2>7. p[1] = 1 BY <2>4, <2>5
  <2>8. ASSUME NEW k \in 1 .. len + 1 PROVE Len(u[p[k]].path) = k /\ \A m \in 1 .. k : u[p[k]].path[m] = p[m]
    <3>1. CASE k = len + 1 BY <2>1, <2>4, <3>1
    <3>2. CASE k # len + 1
      <4>1. k \in 1 .. len BY <2>5, <3>2
      <4>2. u[p[k]] = t[q[k]] BY <1>2, <2>4, <2>5, <4>1
      <4>3. Len(t[q[k]].path) = k /\ \A m \in 1 .. k : t[q[k]].path[m] = q[m] BY <2>5, <4>1
      <4>4. \A m \in 1 .. k : m \in 1 .. len BY <2>5, <4>1
      <4> QED BY <2>4, <4>2, <4>3, <4>4
    <3> QED BY <3>1, <3>2
  <2> QED BY <2>1, <2>4, <2>6, <2>7, <2>8 DEF Pathed
<1>6. 1 .. n + 1 = (1 .. n) \union {n + 1} /\ n + 1 \in Nat /\ n + 1 > 0 BY <1>1
<1>7. \A j \in 1 .. n + 1 : Pathed(u, n + 1, j) BY <1>4, <1>5, <1>6
<1> QED BY <1>1, <1>3, <1>6, <1>7 DEF Rooted

LEMMA GrownOpen ==
    ASSUME NEW t, NEW n, Rooted(t, n), NEW op, NEW c, IsOpen(t, n, op, c), NEW u, Grown(t, u, n, c)
    PROVE  IsOpen(u, n + 1, Append(op, n + 1), n + 1) /\ Range(Append(op, n + 1)) = Range(op) \union {n + 1}
<1>1. n \in Nat BY DEF Rooted
<1>2. op = t[c].path /\ c \in 1 .. n BY DEF IsOpen
<1>3. op \in Seq(1 .. n) BY OpenIs
<1>4. PICK S : S = 1 .. n + 1 OBVIOUS
<1>5. 1 .. n \subseteq S /\ n + 1 \in S BY <1>1, <1>4
<1>6. op \in Seq(S) BY <1>3, <1>5, SeqInto
<1>7. Range(Append(op, n + 1)) = Range(op) \union {n + 1} BY <1>5, <1>6, RangeAppend
<1>8. n + 1 \in 1 .. n + 1 BY <1>1
<1> QED BY <1>2, <1>7, <1>8 DEF IsOpen, Grown

LEMMA GrownSame ==
    ASSUME NEW t, NEW n, Rooted(t, n), NEW op, NEW c, IsOpen(t, n, op, c), NEW u, Grown(t, u, n, c), NEW j \in 1 .. n
    PROVE  /\ RootOf(u, j) = RootOf(t, j)
           /\ \A r \in 1 .. n : /\ Reached(u, r, j) <=> Reached(t, r, j)
                                /\ Counted(u, Append(op, n + 1), r, j) <=> Counted(t, op, r, j)
           /\ ~Counted(u, Append(op, n + 1), n + 1, j)
<1>1. n \in Nat BY DEF Rooted
<1>2. \A i \in 1 .. n : u[i] = t[i] BY DEF Grown
<1>3. PICK p : p = t[j].path OBVIOUS
<1>4. u[j].path = p BY <1>2, <1>3
<1>5. Len(p) \in Nat /\ DOMAIN p = 1 .. Len(p) /\ \A k \in 1 .. Len(p) : p[k] \in 1 .. n BY <1>3, PathIs
<1>6. \A k \in 1 .. Len(p) : u[p[k]] = t[p[k]] BY <1>2, <1>5
<1>7. \A k \in 1 .. Len(p) : p[k] # n + 1 BY <1>1, <1>5
<1>8. RootOf(u, j) = RootOf(t, j)
  <2>1. {k \in 1 .. Len(p) : u[p[k]].kind \in {"main", "hat"}} = {k \in 1 .. Len(p) : t[p[k]].kind \in {"main", "hat"}} BY <1>6
  <2> QED BY <1>3, <1>4, <2>1 DEF RootOf
<1>9. ASSUME NEW r \in 1 .. n
      PROVE  /\ Reached(u, r, j) <=> Reached(t, r, j)
             /\ Counted(u, Append(op, n + 1), r, j) <=> Counted(t, op, r, j)
  <2>1. PICK k : k = Len(t[r].path) OBVIOUS
  <2>2. k \in Nat /\ k > 0 /\ Len(u[r].path) = k BY <1>2, <2>1, PathIs
  <2>3. \A m \in k + 1 .. Len(p) : m \in 1 .. Len(p) BY <1>5, <2>2
  <2>4. \A m \in k + 1 .. Len(p) : InBranch(u, p[m]) <=> InBranch(t, p[m]) BY <1>6, <2>3 DEF InBranch
  <2>5. Reached(u, r, j) <=> k <= Len(p) /\ p[k] = r /\ \A m \in k + 1 .. Len(p) : InBranch(u, p[m]) BY <1>4, <2>2 DEF Reached
  <2>6. Reached(t, r, j) <=> k <= Len(p) /\ p[k] = r /\ \A m \in k + 1 .. Len(p) : InBranch(t, p[m]) BY <1>3, <2>1 DEF Reached
  <2>7. Reached(u, r, j) <=> Reached(t, r, j) BY <2>4, <2>5, <2>6
  <2>8. \A m \in k + 1 .. Len(p) : p[m] \notin Range(Append(op, n + 1)) <=> p[m] \notin Range(op) BY <1>7, <2>3, GrownOpen
  <2> QED BY <1>3, <1>4, <2>1, <2>2, <2>7, <2>8 DEF Counted
<1>10. ~Counted(u, Append(op, n + 1), n + 1, j)
  <2>1. PICK k : k = Len(u[n + 1].path) OBVIOUS
  <2>2. k \in Nat /\ k > 0
    <3>1. k = Len(t[c].path) + 1 /\ Len(t[c].path) \in Nat BY <2>1, GrownPath
    <3> QED BY <3>1
  <2>3. Counted(u, Append(op, n + 1), n + 1, j) => k <= Len(p) /\ p[k] = n + 1 BY <1>4, <2>1 DEF Counted, Reached
  <2>4. k <= Len(p) => p[k] # n + 1 BY <1>5, <1>7, <2>2
  <2> QED BY <2>3, <2>4
<1> QED BY <1>8, <1>9, <1>10

LEMMA GrownHistory ==
    ASSUME NEW t, NEW n, Rooted(t, n), NEW u, NEW c, Grown(t, u, n, c), NEW ss, History(t, n, ss)
    PROVE  History(u, n + 1, ss)
<1>1. n \in Nat BY DEF Rooted
<1>2. \A i \in 1 .. n : u[i] = t[i] /\ i \in 1 .. n + 1 BY <1>1 DEF Grown
<1> QED BY <1>2 DEF History

LEMMA GrownLimits ==
    ASSUME NEW t, NEW n, Rooted(t, n), NEW op, NEW c, IsOpen(t, n, op, c), NEW u, Grown(t, u, n, c),
           NEW ss, History(t, n, ss), NEW bs, LimitsHeld(t, op, ss, bs, n), NEW cs, \A i \in 1 .. n : cs[i] = bs[i],
           cs[n + 1].rlimits = NoLimits
    PROVE  LimitsHeld(u, Append(op, n + 1), ss, cs, n + 1)
<1>1. n \in Nat BY DEF Rooted
<1>2. Len(ss) \in Nat /\ DOMAIN ss = 1 .. Len(ss) /\ \A m \in 1 .. Len(ss) : HomeOf(ss[m]) \in 1 .. n BY StmtsIs
<1>3. ASSUME NEW i \in 1 .. n, NEW l \in LimitNames PROVE Holds(ss, cs[i].rlimits, l, LimitsOf(u, Append(op, n + 1), ss, i, l))
  <2>1. \A m \in 1 .. Len(ss) : Counted(u, Append(op, n + 1), i, HomeOf(ss[m])) <=> Counted(t, op, i, HomeOf(ss[m]))
    BY <1>2, GrownSame
  <2>2. LimitsOf(u, Append(op, n + 1), ss, i, l) = LimitsOf(t, op, ss, i, l) BY <1>2, <2>1 DEF LimitsOf
  <2>3. Holds(ss, bs[i].rlimits, l, LimitsOf(t, op, ss, i, l)) BY DEF LimitsHeld
  <2> QED BY <2>2, <2>3
<1>4. ASSUME NEW l \in LimitNames PROVE Holds(ss, cs[n + 1].rlimits, l, LimitsOf(u, Append(op, n + 1), ss, n + 1, l))
  <2>1. \A m \in 1 .. Len(ss) : ~Counted(u, Append(op, n + 1), n + 1, HomeOf(ss[m])) BY <1>2, GrownSame
  <2>2. LimitsOf(u, Append(op, n + 1), ss, n + 1, l) = {} BY <1>2, <2>1 DEF LimitsOf
  <2>3. NoLimits.specified = {} /\ NoLimits.limits[l] = 0 BY DEF NoLimits
  <2> QED BY <2>2, <2>3 DEF Holds
<1>5. 1 .. n + 1 = (1 .. n) \union {n + 1} BY <1>1
<1> QED BY <1>3, <1>4, <1>5 DEF LimitsHeld

-----------------------------------------------------------------------------
(***************************************************************************)
(* Entries: where the entry of a statement is                              *)
(***************************************************************************)
LEMMA FilesUpToIs ==
    ASSUME NEW ss, NEW i, NEW m \in Nat
    PROVE  /\ IsFiniteSet(FilesUpTo(ss, i, m)) /\ Cardinality(FilesUpTo(ss, i, m)) \in Nat /\ m \notin FilesUpTo(ss, i, m - 1)
           /\ FilesUpTo(ss, i, 0) = {} /\ Cardinality(FilesUpTo(ss, i, 0)) = 0
           /\ \A k \in 0 .. m : Cardinality(FilesUpTo(ss, i, k)) <= Cardinality(FilesUpTo(ss, i, m))
<1>1. IsFiniteSet(1 .. m) BY FS_Interval
<1>2. FilesUpTo(ss, i, m) \subseteq 1 .. m /\ m \notin FilesUpTo(ss, i, m - 1) /\ FilesUpTo(ss, i, 0) = {} BY DEF FilesUpTo
<1>3. IsFiniteSet(FilesUpTo(ss, i, m)) BY <1>1, <1>2, FS_Subset
<1>4. Cardinality(FilesUpTo(ss, i, m)) \in Nat BY <1>3, FS_CardinalityType
<1>5. ASSUME NEW k \in 0 .. m PROVE Cardinality(FilesUpTo(ss, i, k)) <= Cardinality(FilesUpTo(ss, i, m))
  <2>1. FilesUpTo(ss, i, k) \subseteq FilesUpTo(ss, i, m) BY DEF FilesUpTo
  <2> QED BY <1>3, <2>1, FS_Subset
<1>6. Cardinality(FilesUpTo(ss, i, 0)) = 0 BY <1>2, FS_EmptySet
<1> QED BY <1>2, <1>3, <1>4, <1>5, <1>6

LEMMA RankIs ==
    ASSUME NEW t, NEW n, NEW ss, History(t, n, ss), NEW m \in 1 .. Len(ss), IsFile(ss[m]), NEW len \in Nat,
           Cardinality(FilesUpTo(ss, HomeOf(ss[m]), Len(ss))) <= len
    PROVE  RankOf(ss, m) \in 1 .. len
<1>1. Len(ss) \in Nat BY StmtsIs
<1>2. PICK h : h = HomeOf(ss[m]) OBVIOUS
<1>3. m \in FilesUpTo(ss, h, m) BY <1>1, <1>2 DEF FilesUpTo
<1>4. m \in Nat /\ m \in 0 .. Len(ss) BY <1>1
<1>5. IsFiniteSet(FilesUpTo(ss, h, m)) /\ Cardinality(FilesUpTo(ss, h, m)) \in Nat BY <1>4, FilesUpToIs
<1>6. Cardinality(FilesUpTo(ss, h, m)) # 0 BY <1>3, <1>5, FS_EmptySet
<1>7. Cardinality(FilesUpTo(ss, h, Len(ss))) \in Nat /\ Cardinality(FilesUpTo(ss, h, m)) <= Cardinality(FilesUpTo(ss, h, Len(ss)))
  BY <1>1, <1>4, FilesUpToIs
<1>8. RankOf(ss, m) = Cardinality(FilesUpTo(ss, h, m)) BY <1>2 DEF RankOf
<1> QED BY <1>2, <1>5, <1>6, <1>7, <1>8

(* Another statement leaves the others where they are. *)
LEMMA RankAppend ==
    ASSUME NEW t, NEW n, Rooted(t, n), NEW ss, History(t, n, ss), NEW c \in 1 .. n, NEW s, WrittenIn(t, c, s)
    PROVE  /\ \A m \in 1 .. Len(ss) : RankOf(Append(ss, s), m) = RankOf(ss, m)
           /\ \A i : Cardinality(FilesUpTo(Append(ss, s), i, Len(Append(ss, s)))) =
                       Cardinality(FilesUpTo(ss, i, Len(ss))) + (IF IsFile(s) /\ i = c THEN 1 ELSE 0)
           /\ IsFile(s) => RankOf(Append(ss, s), Len(ss) + 1) = Cardinality(FilesUpTo(ss, c, Len(ss))) + 1
<1>1. PICK u : u = Append(ss, s) OBVIOUS
<1>2. PICK len : len = Len(ss) OBVIOUS
<1>3. ss \in Seq(StmtRecs) /\ s \in StmtRecs BY DEF History, WrittenIn
<1>4. Len(u) = len + 1 /\ (\A m \in 1 .. len : u[m] = ss[m]) /\ u[len + 1] = s BY <1>1, <1>2, <1>3, AppendIs
<1>5. len \in Nat BY <1>2, StmtsIs
<1>6. HomeOf(s) = c BY HistoryGrows
<1>7. ASSUME NEW i, NEW m \in 0 .. len PROVE FilesUpTo(u, i, m) = FilesUpTo(ss, i, m)
  <2>1. \A x \in 1 .. m : x \in 1 .. len BY <1>5
  <2> QED BY <1>4, <2>1 DEF FilesUpTo
<1>8. ASSUME NEW m \in 1 .. len PROVE RankOf(u, m) = RankOf(ss, m)
  <2>1. u[m] = ss[m] /\ m \in 0 .. len BY <1>4, <1>5
  <2> QED BY <1>7, <2>1 DEF RankOf
<1>9. ASSUME NEW i PROVE Cardinality(FilesUpTo(u, i, len + 1)) = Cardinality(FilesUpTo(ss, i, len)) + (IF IsFile(s) /\ i = c THEN 1 ELSE 0)
  <2>1. PICK F : F = FilesUpTo(ss, i, len) OBVIOUS
  <2>2. IsFiniteSet(F) /\ Cardinality(F) \in Nat BY <1>5, <2>1, FilesUpToIs
  <2>3. 1 .. len + 1 = (1 .. len) \union {len + 1} /\ len + 1 \notin 1 .. len BY <1>5
  <2>4. F \subseteq 1 .. len BY <2>1 DEF FilesUpTo
  <2>5. FilesUpTo(u, i, len + 1) = F \union (IF IsFile(s) /\ i = c THEN {len + 1} ELSE {})
    BY <1>4, <1>6, <2>1, <2>3 DEF FilesUpTo
  <2>6. Cardinality(F \union {len + 1}) = Cardinality(F) + 1 BY <2>2, <2>3, <2>4, FS_AddElement
  <2>7. CASE IsFile(s) /\ i = c BY <2>1, <2>5, <2>6, <2>7
  <2>8. CASE ~(IsFile(s) /\ i = c)
    <3>1. FilesUpTo(u, i, len + 1) = F BY <2>5, <2>8
    <3> QED BY <2>1, <2>2, <2>8, <3>1
  <2> QED BY <2>7, <2>8
<1>10. IsFile(s) => RankOf(u, len + 1) = Cardinality(FilesUpTo(ss, c, len)) + 1 BY <1>4, <1>6, <1>9 DEF RankOf
<1> QED BY <1>1, <1>2, <1>4, <1>8, <1>9, <1>10

(* The entry with k - 1 behind it *)
FromEnd(fs, k) == fs[Len(fs) - k + 1]
LEMMA FromEndIs ==
    ASSUME NEW S, NEW fs \in Seq(S), NEW k \in 1 .. Len(fs)
    PROVE  Len(fs) - k + 1 \in 1 .. Len(fs) /\ FromEnd(fs, k) \in S
<1>1. PICK len : len = Len(fs) /\ len \in Nat OBVIOUS
<1>2. len - k + 1 \in 1 .. len BY <1>1
<1> QED BY <1>1, <1>2 DEF FromEnd
LEMMA FromEndFront ==
    ASSUME NEW S, NEW fs \in Seq(S), NEW e \in S
    PROVE  /\ Len(<<e>> \o fs) = Len(fs) + 1 /\ FromEnd(<<e>> \o fs, Len(fs) + 1) = e
           /\ \A k \in 1 .. Len(fs) : FromEnd(<<e>> \o fs, k) = FromEnd(fs, k)
<1>1. PICK len : len = Len(fs) /\ len \in Nat OBVIOUS
<1>2. PICK gs : gs = <<e>> \o fs OBVIOUS
<1>3. Len(gs) = len + 1 /\ gs[1] = e /\ \A i \in 1 .. len : gs[i + 1] = fs[i] BY <1>1, <1>2
<1>4. FromEnd(gs, len + 1) = e
  <2>1. (len + 1) - (len + 1) + 1 = 1 BY <1>1
  <2> QED BY <1>3, <2>1 DEF FromEnd
<1>5. ASSUME NEW k \in 1 .. len PROVE FromEnd(gs, k) = FromEnd(fs, k)
  <2>1. len - k + 1 \in 1 .. len /\ (len + 1) - k + 1 = (len - k + 1) + 1 BY <1>1
  <2>2. gs[(len - k + 1) + 1] = fs[len - k + 1] BY <1>3, <2>1
  <2> QED BY <1>1, <1>3, <2>1, <2>2 DEF FromEnd
<1> QED BY <1>1, <1>2, <1>3, <1>4, <1>5

(* What a step may do to the entries that are there *)
Carried(t, bs, cs, i) ==
  LET r == RootOf(t, i)
  IN  /\ Len(bs[i].files) <= Len(cs[i].files)
      /\ \A k \in 1 .. Len(bs[i].files) :
           /\ FromEnd(bs[i].files, k).nt = NoName => FromEnd(cs[i].files, k).nt = NoName
           /\ \A f \in Files : Right(bs[r].xtab, r, f, FromEnd(bs[i].files, k)) => Right(cs[r].xtab, r, f, FromEnd(cs[i].files, k))
Onto(t, n, bs, cs) == \A i \in 1 .. n : Carried(t, bs, cs, i)

LEMMA EntryFromEnd == ASSUME NEW bs, NEW ss, NEW m PROVE EntryOf(bs, ss, m) = FromEnd(bs[HomeOf(ss[m])].files, RankOf(ss, m))
BY DEF EntryOf, FromEnd

LEMMA OntoKeeps ==
    ASSUME NEW t, NEW n \in Nat, NEW ss, History(t, n, ss), NEW bs \in Sized(n), NEW cs \in Sized(n), EntriesRight(t, n, ss, bs),
           Onto(t, n, bs, cs), NEW op, NamesDone(t, op, ss, bs)
    PROVE  EntriesRight(t, n, ss, cs) /\ NamesDone(t, op, ss, cs)
<1>1. Len(ss) \in Nat /\ DOMAIN ss = 1 .. Len(ss) /\ \A m \in 1 .. Len(ss) : HomeOf(ss[m]) \in 1 .. n BY StmtsIs
<1>2. \A m \in 1 .. Len(ss) : ss[m].kind = "file" => ss[m].what \in Files BY StmtsIs
<1>3. ASSUME NEW i \in 1 .. n
      PROVE  /\ Len(bs[i].files) \in Nat /\ Len(cs[i].files) \in Nat /\ Len(bs[i].files) <= Len(cs[i].files)
             /\ Cardinality(FilesUpTo(ss, i, Len(ss))) <= Len(bs[i].files) /\ Cardinality(FilesUpTo(ss, i, Len(ss))) \in Nat
  <2>1. bs[i] \in GoodBlocks /\ cs[i] \in GoodBlocks BY SizedIs
  <2>2. bs[i].files \in Seq(GoodEntries) /\ cs[i].files \in Seq(GoodEntries) BY <2>1, GoodIs
  <2>3. Len(bs[i].files) \in Nat /\ Len(cs[i].files) \in Nat BY <2>2
  <2>4. Cardinality(FilesUpTo(ss, i, Len(ss))) \in Nat BY <1>1, FilesUpToIs
  <2> QED BY <2>3, <2>4 DEF EntriesRight, Onto, Carried
<1>4. ASSUME NEW m \in 1 .. Len(ss), ss[m].kind = "file"
      PROVE  LET h == HomeOf(ss[m])
                 r == RootOf(t, h)
             IN  /\ Right(cs[r].xtab, r, ss[m].what, EntryOf(cs, ss, m))
                 /\ EntryOf(bs, ss, m).nt = NoName => EntryOf(cs, ss, m).nt = NoName
  <2>1. PICK h : h = HomeOf(ss[m]) OBVIOUS
  <2>2. PICK r : r = RootOf(t, h) OBVIOUS
  <2>3. PICK k : k = RankOf(ss, m) OBVIOUS
  <2>4. IsFile(ss[m]) /\ h \in 1 .. n BY <1>1, <1>4, <2>1 DEF IsFile
  <2>5. k \in 1 .. Len(bs[h].files) BY <1>3, <2>1, <2>3, <2>4, RankIs
  <2>6. EntryOf(bs, ss, m) = FromEnd(bs[h].files, k) /\ EntryOf(cs, ss, m) = FromEnd(cs[h].files, k) BY <2>1, <2>3, EntryFromEnd
  <2>7. Right(bs[r].xtab, r, ss[m].what, FromEnd(bs[h].files, k)) BY <1>1, <1>4, <2>1, <2>2, <2>6 DEF EntriesRight
  <2>8. Carried(t, bs, cs, h) BY <2>4 DEF Onto
  <2>9. /\ FromEnd(bs[h].files, k).nt = NoName => FromEnd(cs[h].files, k).nt = NoName
        /\ Right(cs[r].xtab, r, ss[m].what, FromEnd(cs[h].files, k))
    BY <1>2, <1>4, <2>2, <2>5, <2>7, <2>8 DEF Carried
  <2> QED BY <2>1, <2>2, <2>6, <2>9
<1>5. \A i \in 1 .. n : Cardinality(FilesUpTo(ss, i, Len(ss))) <= Len(cs[i].files)
  <2> SUFFICES ASSUME NEW i \in 1 .. n PROVE Cardinality(FilesUpTo(ss, i, Len(ss))) <= Len(cs[i].files) OBVIOUS
  <2>1. PICK x : x = Cardinality(FilesUpTo(ss, i, Len(ss))) OBVIOUS
  <2>2. PICK y : y = Len(bs[i].files) OBVIOUS
  <2>3. PICK z : z = Len(cs[i].files) OBVIOUS
  <2>4. x \in Nat /\ y \in Nat /\ z \in Nat /\ x <= y /\ y <= z BY <1>3, <2>1, <2>2, <2>3
  <2> QED BY <2>1, <2>3, <2>4
<1>6. EntriesRight(t, n, ss, cs) BY <1>1, <1>4, <1>5 DEF EntriesRight
<1>7. NamesDone(t, op, ss, cs) BY <1>1, <1>4 DEF NamesDone
<1> QED BY <1>6, <1>7

LEMMA OntoTwice ==
    ASSUME NEW t, NEW n \in Nat, NEW bs \in Sized(n), NEW cs \in Sized(n), NEW ds \in Sized(n), Onto(t, n, bs, cs), Onto(t, n, cs, ds)
    PROVE  Onto(t, n, bs, ds)
<1>1. ASSUME NEW i \in 1 .. n PROVE Carried(t, bs, ds, i)
  <2>1. bs[i] \in GoodBlocks /\ cs[i] \in GoodBlocks /\ ds[i] \in GoodBlocks BY SizedIs
  <2>2. bs[i].files \in Seq(GoodEntries) /\ cs[i].files \in Seq(GoodEntries) /\ ds[i].files \in Seq(GoodEntries) BY <2>1, GoodIs
  <2>3. PICK x : x = Len(bs[i].files) OBVIOUS
  <2>4. PICK y : y = Len(cs[i].files) OBVIOUS
  <2>5. PICK z : z = Len(ds[i].files) OBVIOUS
  <2>6. x \in Nat /\ y \in Nat /\ z \in Nat BY <2>2, <2>3, <2>4, <2>5
  <2>7. Carried(t, bs, cs, i) /\ Carried(t, cs, ds, i) BY DEF Onto
  <2>8. x <= y /\ y <= z BY <2>3, <2>4, <2>5, <2>7 DEF Carried
  <2>9. x <= z /\ \A k \in 1 .. x : k \in 1 .. y BY <2>6, <2>8
  <2> QED BY <2>3, <2>4, <2>5, <2>7, <2>9 DEF Carried
<1> QED BY <1>1 DEF Onto

LEMMA OntoSame ==
    ASSUME NEW t, NEW n, Rooted(t, n), NEW bs \in Sized(n), NEW cs,
           \A i \in 1 .. n : cs[i].files = bs[i].files /\ cs[i].xtab = bs[i].xtab
    PROVE  Onto(t, n, bs, cs)
<1>1. ASSUME NEW i \in 1 .. n PROVE Carried(t, bs, cs, i)
  <2>1. PICK r : r = RootOf(t, i) OBVIOUS
  <2>2. r \in 1 .. n BY <2>1, RootIs
  <2>3. n \in Nat BY DEF Rooted
  <2>4. bs[i].files \in Seq(GoodEntries) BY <2>3, SizedIs, GoodIs
  <2>5. Len(bs[i].files) <= Len(cs[i].files) BY <2>4
  <2>6. cs[r].xtab = bs[r].xtab /\ cs[i].files = bs[i].files BY <2>2
  <2> QED BY <2>1, <2>5, <2>6 DEF Carried
<1> QED BY <1>1 DEF Onto

(* A statement is added to its block. *)
LEMMA StmtAdds ==
    ASSUME NEW t, NEW n, Rooted(t, n), NEW ss, History(t, n, ss), NEW op, NEW c, IsOpen(t, n, op, c), NEW s, WrittenIn(t, c, s),
           NEW bs \in Sized(n), NEW cs \in Sized(n), EntriesRight(t, n, ss, cs), NamesDone(t, op, ss, cs), OnlyWritten(op, ss, bs),
           \A i \in 1 .. n : Len(cs[i].files) = Len(bs[i].files) + (IF IsFile(s) /\ i = c THEN 1 ELSE 0),
           s.kind = "file" => Right(cs[RootOf(t, c)].xtab, RootOf(t, c), s.what, FromEnd(cs[c].files, Len(cs[c].files)))
    PROVE  EntriesRight(t, n, Append(ss, s), cs) /\ NamesDone(t, op, Append(ss, s), cs) /\ OnlyWritten(op, Append(ss, s), cs)
<1>1. PICK u : u = Append(ss, s) OBVIOUS
<1>2. PICK len : len = Len(ss) OBVIOUS
<1>3. ss \in Seq(StmtRecs) /\ s \in StmtRecs /\ c \in 1 .. n BY DEF History, WrittenIn, IsOpen
<1>4. DOMAIN u = 1 .. len + 1 /\ (\A m \in 1 .. len : u[m] = ss[m]) /\ u[len + 1] = s BY <1>1, <1>2, <1>3, AppendIs
<1>5. len \in Nat /\ DOMAIN ss = 1 .. len /\ \A m \in 1 .. len : HomeOf(ss[m]) \in 1 .. n BY <1>2, StmtsIs
<1>6. HomeOf(s) = c BY <1>3, HistoryGrows
<1>7. n \in Nat BY DEF Rooted
<1>8. ASSUME NEW m \in 1 .. len PROVE EntryOf(cs, u, m) = EntryOf(cs, ss, m)
  <2>1. RankOf(u, m) = RankOf(ss, m) BY <1>1, <1>2, <1>3, RankAppend
  <2> QED BY <1>4, <2>1 DEF EntryOf
<1>9. ASSUME NEW i \in 1 .. n
      PROVE  /\ Cardinality(FilesUpTo(u, i, Len(u))) = Cardinality(FilesUpTo(ss, i, len)) + (IF IsFile(s) /\ i = c THEN 1 ELSE 0)
             /\ Cardinality(FilesUpTo(ss, i, len)) \in Nat
             /\ i \in Range(op) => Cardinality(FilesUpTo(ss, i, len)) = Len(bs[i].files)
             /\ Len(bs[i].files) \in Nat /\ Cardinality(FilesUpTo(ss, i, len)) <= Len(cs[i].files)
             /\ Len(cs[i].files) = Len(bs[i].files) + (IF IsFile(s) /\ i = c THEN 1 ELSE 0)
  <2>1. Cardinality(FilesUpTo(u, i, Len(u))) = Cardinality(FilesUpTo(ss, i, len)) + (IF IsFile(s) /\ i = c THEN 1 ELSE 0)
    BY <1>1, <1>2, <1>3, RankAppend
  <2>2. Cardinality(FilesUpTo(ss, i, len)) \in Nat BY <1>5, FilesUpToIs
  <2>3. bs[i] \in GoodBlocks BY <1>7, SizedIs
  <2>4. bs[i].files \in Seq(GoodEntries) BY <2>3, GoodIs
  <2>5. Len(bs[i].files) \in Nat BY <2>4
  <2> QED BY <1>2, <2>1, <2>2, <2>5 DEF EntriesRight, OnlyWritten
<1>10. c \in Range(op) /\ RootOf(t, c) \in Range(op)
  <2>1. PICK r : r = RootOf(t, c) OBVIOUS
  <2>2. Len(t[r].path) \in 1 .. Len(t[c].path) /\ t[c].path[Len(t[r].path)] = r BY <1>3, <2>1, RootIs
  <2>3. op = t[c].path /\ DOMAIN op = 1 .. Len(op) /\ c \in Range(op) BY OpenIs DEF IsOpen
  <2> QED BY <2>1, <2>2, <2>3 DEF Range
<1>11. IsFile(s) => RankOf(u, len + 1) = Len(cs[c].files)
  <2>1. ASSUME IsFile(s) PROVE RankOf(u, len + 1) = Len(cs[c].files)
    <3>1. RankOf(u, len + 1) = Cardinality(FilesUpTo(ss, c, len)) + 1 BY <1>1, <1>2, <1>3, <2>1, RankAppend
    <3> QED BY <1>3, <1>9, <1>10, <2>1, <3>1
  <2> QED BY <2>1
<1>12. OnlyWritten(op, u, cs)
  <2>1. ASSUME NEW i \in Range(op) PROVE i \in 1 .. n
    <3>1. op \in Seq(1 .. n) BY OpenIs
    <3> QED BY <3>1, RangeIn
  <2>2. ASSUME NEW i \in Range(op) PROVE Cardinality(FilesUpTo(u, i, Len(u))) = Len(cs[i].files) BY <1>9, <2>1
  <2> QED BY <2>2 DEF OnlyWritten
<1>13. ASSUME NEW i \in 1 .. n PROVE Cardinality(FilesUpTo(u, i, Len(u))) <= Len(cs[i].files)
  <2>1. PICK x : x = Cardinality(FilesUpTo(ss, i, len)) OBVIOUS
  <2>2. PICK y : y = Len(cs[i].files) OBVIOUS
  <2>3. PICK z : z = Len(bs[i].files) OBVIOUS
  <2>4. PICK d : d = (IF IsFile(s) /\ i = c THEN 1 ELSE 0) OBVIOUS
  <2>5. x \in Nat /\ z \in Nat /\ x <= y /\ y = z + d /\ Cardinality(FilesUpTo(u, i, Len(u))) = x + d BY <1>9, <2>1, <2>2, <2>3, <2>4
  <2>6. d = 0 \/ (d = 1 /\ x = z)
    <3>1. d = 0 \/ (d = 1 /\ i = c) BY <2>4, Zenon
    <3>2. i = c => x = z BY <1>9, <1>10, <2>1, <2>3
    <3> QED BY <3>1, <3>2
  <2>7. x + d <= y BY <2>5, <2>6
  <2> QED BY <2>2, <2>5, <2>7
<1>14. \A m \in DOMAIN u : m \in 1 .. len \/ m = len + 1 BY <1>4, <1>5
<1>15. s.kind = "file" => EntryOf(cs, u, len + 1) = FromEnd(cs[c].files, Len(cs[c].files))
  BY <1>4, <1>6, <1>11, EntryFromEnd DEF IsFile
<1>16. ASSUME NEW m \in DOMAIN u, u[m].kind = "file"
       PROVE  LET r == RootOf(t, HomeOf(u[m])) IN Right(cs[r].xtab, r, u[m].what, EntryOf(cs, u, m))
  <2>1. CASE m \in 1 .. len BY <1>4, <1>5, <1>8, <1>16, <2>1 DEF EntriesRight
  <2>2. CASE m = len + 1 BY <1>4, <1>6, <1>15, <1>16, <2>2
  <2> QED BY <1>14, <2>1, <2>2
<1>17. EntriesRight(t, n, u, cs) BY <1>13, <1>16 DEF EntriesRight
<1>18. ASSUME NEW m \in DOMAIN u, u[m].kind = "file", RootOf(t, HomeOf(u[m])) \notin Range(op),
              Reached(t, RootOf(t, HomeOf(u[m])), HomeOf(u[m]))
       PROVE  EntryOf(cs, u, m).nt = NoName
  <2>1. m # len + 1 BY <1>4, <1>6, <1>10, <1>18
  <2>2. m \in 1 .. len BY <1>14, <2>1
  <2> QED BY <1>4, <1>5, <1>8, <1>18, <2>2 DEF NamesDone
<1>19. NamesDone(t, op, u, cs) BY <1>18 DEF NamesDone
<1> QED BY <1>1, <1>12, <1>17, <1>19

(* An entry is put in front. *)
LEMMA OntoFront ==
    ASSUME NEW t, NEW n, Rooted(t, n), NEW bs \in Sized(n), NEW cs, NEW c \in 1 .. n, NEW e \in GoodEntries,
           \A i \in 1 .. n : (i # c => cs[i].files = bs[i].files) /\ cs[i].xtab = bs[i].xtab, cs[c].files = <<e>> \o bs[c].files
    PROVE  Onto(t, n, bs, cs) /\ Len(cs[c].files) = Len(bs[c].files) + 1 /\ FromEnd(cs[c].files, Len(cs[c].files)) = e
<1>1. n \in Nat BY DEF Rooted
<1>2. \A i \in 1 .. n : bs[i].files \in Seq(GoodEntries)
  <2>1. \A i \in 1 .. n : bs[i] \in GoodBlocks BY <1>1, SizedIs
  <2> QED BY <2>1, GoodIs
<1>3. PICK fs : fs = bs[c].files OBVIOUS
<1>4. fs \in Seq(GoodEntries) BY <1>2, <1>3
<1>5. /\ Len(cs[c].files) = Len(fs) + 1 /\ FromEnd(cs[c].files, Len(fs) + 1) = e
      /\ \A k \in 1 .. Len(fs) : FromEnd(cs[c].files, k) = FromEnd(fs, k)
  BY <1>3, <1>4, FromEndFront
<1>6. ASSUME NEW i \in 1 .. n PROVE Carried(t, bs, cs, i)
  <2>1. PICK r : r = RootOf(t, i) OBVIOUS
  <2>2. r \in 1 .. n BY <2>1, RootIs
  <2>3. cs[r].xtab = bs[r].xtab BY <2>2
  <2>4. Len(bs[i].files) <= Len(cs[i].files) /\ \A k \in 1 .. Len(bs[i].files) : FromEnd(cs[i].files, k) = FromEnd(bs[i].files, k)
    <3>1. CASE i = c
      <4>1. Len(fs) \in Nat BY <1>4
      <4>2. Len(fs) <= Len(cs[c].files) BY <1>5, <4>1
      <4> QED BY <1>3, <1>5, <3>1, <4>2
    <3>2. CASE i # c
      <4>1. Len(bs[i].files) \in Nat BY <1>2
      <4> QED BY <3>2, <4>1
    <3> QED BY <3>1, <3>2
  <2> QED BY <2>1, <2>3, <2>4 DEF Carried
<1> QED BY <1>3, <1>5, <1>6 DEF Onto

-----------------------------------------------------------------------------
(***************************************************************************)
(* Qualifiers keep what an entry names and where it leads.                 *)
(***************************************************************************)
LEMMA EntryPrefixed ==
    ASSUME NEW e \in Entries, NEW p \in PrefixRecs, NEW g, g = EntryAddPrefix(e, p).r
    PROVE  /\ g.obj = e.obj /\ g.nt = e.nt
           /\ \E gone \in {{}, OtherPerms, UserPerms} : g.perms = e.perms \ gone
           /\ "x" \in g.perms => "x" \in e.perms /\ g.xu = e.xu
           /\ "ox" \in g.perms => "ox" \in e.perms /\ g.xo = e.xo
<1> DEFINE f == [e EXCEPT !.mode = Given(p.mode, @), !.prio = IF p.prio # 0 THEN p.prio ELSE @]
<1>1. f \in Entries /\ f.perms = e.perms /\ f.xu = e.xu /\ f.xo = e.xo /\ f.obj = e.obj /\ f.nt = e.nt
  BY DEF Entries, PrefixRecs, Given
<1>2. GenericAddPrefix(e, p).r = ImpliedAudit(f, p) BY DEF GenericAddPrefix
<1> HIDE DEF f
<1>3. PICK h : h = GenericAddPrefix(e, p).r OBVIOUS
<1>4. h \in Implied(f, p) BY <1>2, <1>3, ImpliedAuditIs
<1>5. ASSUME NEW x \in Implied(f, p)
      PROVE  x \in Entries /\ x.perms = f.perms /\ x.xu = f.xu /\ x.xo = f.xo /\ x.obj = f.obj /\ x.nt = f.nt
  <2>1. PICK O, P, N : Entries = [obj : O, perms : P, nt : N, xu : Nat, xo : Nat, prio : Int, mode : Modes, audit : Audits]
    BY DEF Entries
  <2>2. \E mode \in Modes, audit \in Audits : x = [f EXCEPT !.mode = mode, !.audit = audit] \/ x = [f EXCEPT !.audit = audit] \/ x = f
    BY <1>5 DEF Implied, PrefixRecs, Modes, Audits
  <2> QED BY <1>1, <2>1, <2>2
<1>6. h \in Entries /\ h.perms = e.perms /\ h.xu = e.xu /\ h.xo = e.xo /\ h.obj = e.obj /\ h.nt = e.nt BY <1>1, <1>4, <1>5
<1> DEFINE perms == CASE p.owner = "owner" -> h.perms \ OtherPerms
                      [] p.owner = "other" -> h.perms \ UserPerms
                      [] OTHER -> h.perms
           xu == IF p.owner = "other" THEN 0 ELSE h.xu
           xo == IF p.owner = "owner" THEN 0 ELSE h.xo
<1>7. g = [h EXCEPT !.perms = perms, !.xu = xu, !.xo = xo] BY <1>3 DEF EntryAddPrefix
<1>8. \/ p.owner = "owner" /\ perms = h.perms \ OtherPerms /\ xu = h.xu
      \/ p.owner = "other" /\ perms = h.perms \ UserPerms /\ xo = h.xo
      \/ perms = h.perms \ {} /\ xu = h.xu /\ xo = h.xo
  BY DEF PrefixRecs, Owners
<1> HIDE DEF perms, xu, xo
<1>9. g.perms = perms /\ g.xu = xu /\ g.xo = xo /\ g.obj = h.obj /\ g.nt = h.nt BY <1>6, <1>7 DEF Entries
<1>10. "x" \in UserPerms /\ "ox" \in OtherPerms BY DEF UserPerms, OtherPerms
<1>11. \E gone \in {{}, OtherPerms, UserPerms} : g.perms = e.perms \ gone BY <1>6, <1>8, <1>9
<1>12. "x" \in g.perms => "x" \in e.perms /\ g.xu = e.xu BY <1>6, <1>8, <1>9, <1>10
<1>13. "ox" \in g.perms => "ox" \in e.perms /\ g.xo = e.xo BY <1>6, <1>8, <1>9, <1>10
<1> QED BY <1>6, <1>9, <1>11, <1>12, <1>13

LEMMA LeftPrefixed ==
    ASSUME NEW f, NEW e, Left(f, e), NEW g, \E gone \in {{}, OtherPerms, UserPerms} : g.perms = e.perms \ gone
    PROVE  Left(f, g)
<1> DEFINE All == {{}, OtherPerms, UserPerms, UserPerms \union OtherPerms}
<1>1. PICK x \in All : e.perms = f.perms \ x BY DEF Left
<1>2. PICK y \in {{}, OtherPerms, UserPerms} : g.perms = e.perms \ y OBVIOUS
<1>3. x \union y \in All BY <1>1, <1>2
<1>4. g.perms = f.perms \ (x \union y) BY <1>1, <1>2
<1> QED BY <1>3, <1>4 DEF Left

LEMMA RightPrefixed ==
    ASSUME NEW e \in Entries, NEW p \in PrefixRecs, NEW tab, NEW r, NEW f, Right(tab, r, f, e)
    PROVE  Right(tab, r, f, EntryAddPrefix(e, p).r)
<1>1. PICK g : g = EntryAddPrefix(e, p).r OBVIOUS
<1>2. /\ g.obj = e.obj /\ g.nt = e.nt
      /\ \E gone \in {{}, OtherPerms, UserPerms} : g.perms = e.perms \ gone
      /\ "x" \in g.perms => "x" \in e.perms /\ g.xu = e.xu
      /\ "ox" \in g.perms => "ox" \in e.perms /\ g.xo = e.xo
  BY <1>1, EntryPrefixed
<1>3. Left(f, g) BY <1>2, LeftPrefixed DEF Right
<1>4. NamedRight(tab, r, f, e) => NamedRight(tab, r, f, g) BY <1>2 DEF NamedRight
<1> QED BY <1>1, <1>2, <1>3, <1>4 DEF Right

LEMMA NewRight ==
    ASSUME NEW f, NEW p \in PrefixRecs, NEW e, e = NewEntry(f.obj, f.perms, f.nt), e \in Entries, NEW tab, NEW r
    PROVE  Right(tab, r, f, EntryAddPrefix(e, p).r)
<1>1. e.obj = f.obj /\ e.perms = f.perms \ {} /\ e.nt = f.nt BY DEF NewEntry
<1>2. Left(f, e) BY <1>1 DEF Left
<1>3. Right(tab, r, f, e) BY <1>1, <1>2 DEF Right
<1> QED BY <1>3, RightPrefixed

(* What a block keeps when its files or its limits change *)
Unmoved(b, c) == c.path = b.path /\ c.kind = b.kind /\ c.set = b.set
LEMMA RulesPrefixed ==
    ASSUME NEW b \in GoodBlocks, NEW p \in PrefixRecs, NEW c, c = RulesAddPrefix(b, p).b
    PROVE  /\ Unmoved(b, c) /\ c.rlimits = b.rlimits /\ c.xtab = b.xtab /\ c.pre = b.pre /\ Len(c.files) = Len(b.files)
           /\ \A i \in 1 .. Len(b.files) : c.files[i] = EntryAddPrefix(b.files[i], p).r
<1> DEFINE fs == [i \in 1 .. Len(b.files) |-> EntryAddPrefix(b.files[i], p)]
           rs == [i \in 1 .. Len(b.rules) |-> AddPrefix(b.rules[i].kind, b.rules[i], p)]
           f == [i \in 1 .. Len(b.files) |-> fs[i].r]
           r == [i \in 1 .. Len(b.rules) |-> rs[i].r]
           n == ApplyCompatPrefix(b.net, p)
           q == CapsAddPrefix(b.caps, p).r
           pr == b.prompt \/ p.mode = "prompt"
<1>1. b.files \in Seq(GoodEntries) BY GoodIs
<1>2. Len(b.files) \in Nat BY <1>1
<1>3. Len(f) = Len(b.files) /\ \A i \in 1 .. Len(b.files) : f[i] = EntryAddPrefix(b.files[i], p).r BY <1>2
<1>4. c = [b EXCEPT !.files = f, !.rules = r, !.net = n, !.caps = q, !.prompt = pr] BY DEF RulesAddPrefix
<1> HIDE DEF fs, rs, f, r, n, q, pr
<1>5. c.files = f /\ c.path = b.path /\ c.kind = b.kind /\ c.set = b.set /\ c.rlimits = b.rlimits /\ c.xtab = b.xtab /\ c.pre = b.pre
  BY <1>4, GoodIs DEF BlockRecs
<1> QED BY <1>3, <1>5 DEF Unmoved

LEMMA BlockPrefixed ==
    ASSUME NEW t, NEW n, Rooted(t, n), NEW bs \in Sized(n), NEW i \in 1 .. n, NEW p \in PrefixRecs,
           NEW cs, cs = BlockAddPrefix(bs, i, p).bs
    PROVE  /\ cs \in Sized(n) /\ Onto(t, n, bs, cs)
           /\ \A j \in 1 .. n : Unmoved(bs[j], cs[j]) /\ cs[j].rlimits = bs[j].rlimits /\ Len(cs[j].files) = Len(bs[j].files)
<1> DEFINE own == AddPrefix("block", bs[i].pre, p).r
           done == [j \in DOMAIN bs |-> IF j \in Under(i) THEN RulesAddPrefix(bs[j], p) ELSE [ok |-> TRUE, b |-> bs[j]]]
<1>1. n \in Nat BY DEF Rooted
<1>2. bs \in Seq(GoodBlocks) /\ Len(bs) = n /\ DOMAIN bs = 1 .. n /\ \A j \in 1 .. n : bs[j] \in GoodBlocks BY <1>1, SizedIs
<1>3. cs \in Sized(n) BY <1>2, BlockAddPrefixGood DEF Sized
<1>4. ASSUME NEW j \in 1 .. n
      PROVE  \E d : /\ d = bs[j] \/ d = RulesAddPrefix(bs[j], p).b
                    /\ cs[j] = d \/ cs[j] = [d EXCEPT !.pre = own]
  <2>1. cs[j] = IF j = i THEN [done[j].b EXCEPT !.pre = own] ELSE done[j].b BY <1>2 DEF BlockAddPrefix
  <2>2. done[j] = IF j \in Under(i) THEN RulesAddPrefix(bs[j], p) ELSE [ok |-> TRUE, b |-> bs[j]] BY <1>2
  <2> HIDE DEF done, own
  <2>3. done[j].b = bs[j] \/ done[j].b = RulesAddPrefix(bs[j], p).b BY <2>2
  <2>4. PICK d : d = done[j].b OBVIOUS
  <2> QED BY <2>1, <2>3, <2>4
<1> HIDE DEF own, done
<1>5. ASSUME NEW j \in 1 .. n
      PROVE  /\ Unmoved(bs[j], cs[j]) /\ cs[j].rlimits = bs[j].rlimits /\ cs[j].xtab = bs[j].xtab /\ Len(cs[j].files) = Len(bs[j].files)
             /\ cs[j].files = bs[j].files \/ \A k \in 1 .. Len(bs[j].files) : cs[j].files[k] = EntryAddPrefix(bs[j].files[k], p).r
  <2>1. PICK b : b = bs[j] OBVIOUS
  <2>2. b \in GoodBlocks BY <1>2, <2>1
  <2>3. PICK d : (d = b \/ d = RulesAddPrefix(b, p).b) /\ (cs[j] = d \/ cs[j] = [d EXCEPT !.pre = own]) BY <1>4, <2>1
  <2>4. d \in GoodBlocks BY <2>2, <2>3, RulesAddPrefixGood
  <2>5. /\ cs[j].path = d.path /\ cs[j].kind = d.kind /\ cs[j].set = d.set /\ cs[j].files = d.files
        /\ cs[j].rlimits = d.rlimits /\ cs[j].xtab = d.xtab
    BY <2>3, <2>4 DEF GoodBlocks, BlockRecs
  <2>6. /\ Unmoved(b, d) /\ d.rlimits = b.rlimits /\ d.xtab = b.xtab /\ Len(d.files) = Len(b.files)
        /\ d.files = b.files \/ \A k \in 1 .. Len(b.files) : d.files[k] = EntryAddPrefix(b.files[k], p).r
    <3>1. CASE d = b BY <3>1 DEF Unmoved
    <3>2. CASE d = RulesAddPrefix(b, p).b BY <2>2, <3>2, RulesPrefixed
    <3> QED BY <2>3, <3>1, <3>2
  <2> QED BY <2>1, <2>5, <2>6 DEF Unmoved
<1>6. ASSUME NEW j \in 1 .. n PROVE Carried(t, bs, cs, j)
  <2>1. PICK r : r = RootOf(t, j) OBVIOUS
  <2>2. r \in 1 .. n BY <2>1, RootIs
  <2>3. PICK tab : tab = bs[r].xtab OBVIOUS
  <2>4. cs[r].xtab = tab BY <1>5, <2>2, <2>3
  <2>5. PICK fs : fs = bs[j].files OBVIOUS
  <2>6. PICK gs : gs = cs[j].files OBVIOUS
  <2>7. fs \in Seq(GoodEntries) BY <1>2, <2>5, GoodIs
  <2>8. Len(gs) = Len(fs) /\ Len(fs) \in Nat /\ (gs = fs \/ \A k \in 1 .. Len(fs) : gs[k] = EntryAddPrefix(fs[k], p).r)
    BY <1>5, <2>5, <2>6, <2>7
  <2>9. ASSUME NEW k \in 1 .. Len(fs)
        PROVE  /\ FromEnd(fs, k).nt = NoName => FromEnd(gs, k).nt = NoName
               /\ \A f \in Files : Right(tab, r, f, FromEnd(fs, k)) => Right(tab, r, f, FromEnd(gs, k))
    <3>1. CASE gs = fs BY <3>1
    <3>2. CASE \A x \in 1 .. Len(fs) : gs[x] = EntryAddPrefix(fs[x], p).r
      <4>1. PICK x : x = Len(fs) - k + 1 OBVIOUS
      <4>2. x \in 1 .. Len(fs) /\ FromEnd(fs, k) \in GoodEntries BY <2>7, <4>1, FromEndIs
      <4>3. PICK e : e = FromEnd(fs, k) OBVIOUS
      <4>4. e \in Entries /\ e = fs[x] BY <4>1, <4>2, <4>3 DEF FromEnd, GoodEntries
      <4>5. FromEnd(gs, k) = EntryAddPrefix(e, p).r BY <2>8, <3>2, <4>1, <4>2, <4>4 DEF FromEnd
      <4>6. EntryAddPrefix(e, p).r.nt = e.nt BY <4>4, EntryPrefixed
      <4>7. \A f \in Files : Right(tab, r, f, e) => Right(tab, r, f, EntryAddPrefix(e, p).r) BY <4>4, RightPrefixed
      <4> QED BY <4>3, <4>5, <4>6, <4>7
    <3> QED BY <2>8, <3>1, <3>2
  <2>10. Len(fs) <= Len(gs) BY <2>8
  <2> QED BY <2>1, <2>3, <2>4, <2>5, <2>6, <2>9, <2>10 DEF Carried
<1> QED BY <1>3, <1>5, <1>6 DEF Onto

LEMMA GrownEntries ==
    ASSUME NEW t, NEW n, Rooted(t, n), NEW op, NEW c, IsOpen(t, n, op, c), NEW u, Grown(t, u, n, c),
           NEW ss, History(t, n, ss), NEW bs, EntriesRight(t, n, ss, bs), OnlyWritten(op, ss, bs), NamesDone(t, op, ss, bs),
           NEW cs, \A i \in 1 .. n : cs[i] = bs[i], cs[n + 1].files = <<>>
    PROVE  /\ EntriesRight(u, n + 1, ss, cs) /\ OnlyWritten(Append(op, n + 1), ss, cs) /\ NamesDone(u, Append(op, n + 1), ss, cs)
<1>1. n \in Nat BY DEF Rooted
<1>2. Len(ss) \in Nat /\ DOMAIN ss = 1 .. Len(ss) /\ \A m \in 1 .. Len(ss) : HomeOf(ss[m]) \in 1 .. n BY StmtsIs
<1>3. 1 .. n + 1 = (1 .. n) \union {n + 1} /\ n + 1 \notin 1 .. n BY <1>1
<1>4. Cardinality(FilesUpTo(ss, n + 1, Len(ss))) = 0 /\ Len(cs[n + 1].files) = 0
  <2>1. FilesUpTo(ss, n + 1, Len(ss)) = {} BY <1>2, <1>3 DEF FilesUpTo
  <2> QED BY <2>1, FS_EmptySet
<1>5. \A i \in 1 .. n + 1 : Cardinality(FilesUpTo(ss, i, Len(ss))) <= Len(cs[i].files) BY <1>3, <1>4 DEF EntriesRight
<1>6. ASSUME NEW m \in 1 .. Len(ss)
      PROVE  LET h == HomeOf(ss[m])
                 r == RootOf(t, h)
             IN  /\ EntryOf(cs, ss, m) = EntryOf(bs, ss, m) /\ RootOf(u, h) = r /\ cs[r] = bs[r] /\ r \in 1 .. n
                 /\ Reached(u, r, h) <=> Reached(t, r, h)
  <2>1. PICK h : h = HomeOf(ss[m]) /\ h \in 1 .. n BY <1>2
  <2>2. PICK r : r = RootOf(t, h) OBVIOUS
  <2>3. r \in 1 .. n BY <2>1, <2>2, RootIs
  <2>4. RootOf(u, h) = r /\ (Reached(u, r, h) <=> Reached(t, r, h)) BY <2>1, <2>2, <2>3, GrownSame
  <2>5. cs[r] = bs[r] /\ cs[h] = bs[h] BY <2>1, <2>3
  <2>6. EntryOf(cs, ss, m) = EntryOf(bs, ss, m) BY <2>1, <2>5 DEF EntryOf
  <2> QED BY <2>1, <2>2, <2>3, <2>4, <2>5, <2>6
<1>7. EntriesRight(u, n + 1, ss, cs)
  <2>1. ASSUME NEW m \in 1 .. Len(ss), ss[m].kind = "file"
        PROVE  LET r == RootOf(u, HomeOf(ss[m])) IN Right(cs[r].xtab, r, ss[m].what, EntryOf(cs, ss, m))
    <3>1. PICK r : r = RootOf(t, HomeOf(ss[m])) OBVIOUS
    <3>2. Right(bs[r].xtab, r, ss[m].what, EntryOf(bs, ss, m)) BY <1>2, <2>1, <3>1 DEF EntriesRight
    <3>3. EntryOf(cs, ss, m) = EntryOf(bs, ss, m) /\ RootOf(u, HomeOf(ss[m])) = r /\ cs[r] = bs[r] BY <1>6, <3>1
    <3> QED BY <3>2, <3>3
  <2> QED BY <1>2, <1>5, <2>1 DEF EntriesRight
<1>8. OnlyWritten(Append(op, n + 1), ss, cs)
  <2>1. Range(Append(op, n + 1)) = Range(op) \union {n + 1} BY GrownOpen
  <2>2. Range(op) \subseteq 1 .. n BY OpenIs, RangeIn
  <2> QED BY <1>4, <2>1, <2>2 DEF OnlyWritten
<1>9. NamesDone(u, Append(op, n + 1), ss, cs)
  <2>1. Range(Append(op, n + 1)) = Range(op) \union {n + 1} BY GrownOpen
  <2>2. ASSUME NEW m \in 1 .. Len(ss), ss[m].kind = "file", RootOf(u, HomeOf(ss[m])) \notin Range(Append(op, n + 1)),
               Reached(u, RootOf(u, HomeOf(ss[m])), HomeOf(ss[m]))
        PROVE  EntryOf(cs, ss, m).nt = NoName
    <3>1. PICK r : r = RootOf(t, HomeOf(ss[m])) OBVIOUS
    <3>2. RootOf(u, HomeOf(ss[m])) = r /\ EntryOf(cs, ss, m) = EntryOf(bs, ss, m)
          /\ (Reached(u, r, HomeOf(ss[m])) <=> Reached(t, r, HomeOf(ss[m])))
      BY <1>6, <3>1
    <3>3. r \notin Range(op) /\ Reached(t, r, HomeOf(ss[m])) BY <2>1, <2>2, <3>2
    <3> QED BY <1>2, <2>2, <3>1, <3>2, <3>3 DEF NamesDone
  <2> QED BY <1>2, <2>2 DEF NamesDone
<1> QED BY <1>7, <1>8, <1>9

(* The current block, no root, is closed. *)
LEMMA ClosedEntries ==
    ASSUME NEW t, NEW n, Rooted(t, n), NEW op, NEW c, IsOpen(t, n, op, c), Len(op) > 1, t[c].kind \notin {"main", "hat"},
           NEW ss, History(t, n, ss), NEW bs, NEW cs, \A i \in 1 .. n : Len(cs[i].files) = Len(bs[i].files),
           OnlyWritten(op, ss, bs), NamesDone(t, op, ss, cs)
    PROVE  OnlyWritten(Front(op), ss, cs) /\ NamesDone(t, Front(op), ss, cs)
<1>1. Range(op) = Range(Front(op)) \union {c} BY FrontIs
<1>2. Range(op) \subseteq 1 .. n BY OpenIs, RangeIn
<1>3. OnlyWritten(Front(op), ss, cs) BY <1>1, <1>2 DEF OnlyWritten
<1>4. Len(ss) \in Nat /\ DOMAIN ss = 1 .. Len(ss) /\ \A m \in 1 .. Len(ss) : HomeOf(ss[m]) \in 1 .. n BY StmtsIs
<1>5. \A m \in 1 .. Len(ss) : RootOf(t, HomeOf(ss[m])) # c BY <1>4, RootIs
<1>6. NamesDone(t, Front(op), ss, cs) BY <1>1, <1>4, <1>5 DEF NamesDone
<1> QED BY <1>3, <1>6

LEMMA UnmovedTree ==
    ASSUME NEW n \in Nat, NEW bs \in Sized(n), NEW cs \in Sized(n), \A j \in 1 .. n : Unmoved(bs[j], cs[j])
    PROVE  Tree(cs) = Tree(bs)
BY SameTree DEF Unmoved

(* merge_compat_rules keeps everything but tables and limits of the parent. *)
LEMMA MergeMoves ==
    ASSUME NEW a \in GoodBlocks, NEW b \in GoodBlocks, NEW c, c = MergeCompatRules(a, b).b
    PROVE  /\ Unmoved(a, c) /\ c.files = a.files /\ c.xtab = a.xtab
           /\ c.rlimits = [specified |-> a.rlimits.specified \union b.rlimits.specified,
                           limits |-> [l \in LimitNames |-> IF b.rlimits.limits[l] # 0 THEN b.rlimits.limits[l] ELSE a.rlimits.limits[l]]]
<1> DEFINE q == Join(a.caps, b.caps)
           n == Join(a.net, b.net)
           l == [specified |-> a.rlimits.specified \union b.rlimits.specified,
                 limits |-> [x \in LimitNames |-> IF b.rlimits.limits[x] # 0 THEN b.rlimits.limits[x] ELSE a.rlimits.limits[x]]]
<1>1. PICK pr : pr = (a.prompt \/ b.prompt) OBVIOUS
<1>2. c = [a EXCEPT !.caps = q, !.net = n, !.prompt = pr, !.rlimits = l] BY <1>1 DEF MergeCompatRules
<1>3. PICK l1 : l1 = l OBVIOUS
<1>4. c = [a EXCEPT !.caps = q, !.net = n, !.prompt = pr, !.rlimits = l1] BY <1>2, <1>3
<1> HIDE DEF q, n, l
<1>5. c.path = a.path /\ c.kind = a.kind /\ c.set = a.set /\ c.files = a.files /\ c.xtab = a.xtab /\ c.rlimits = l1
  BY <1>4, GoodIs DEF BlockRecs
<1> QED BY <1>3, <1>5 DEF Unmoved, l

-----------------------------------------------------------------------------
(***************************************************************************)
(* Named transitions: the table only grows, and a name is found where its  *)
(* index says.                                                             *)
(***************************************************************************)
Extends(tab, new) == Len(tab) <= Len(new) /\ \A i \in 1 .. Len(tab) : new[i] = tab[i]
LEMMA XTableIs ==
    ASSUME NEW tab \in Seq(Names), NEW name \in Names, NEW x, x = AddEntryToXTable(tab, name)
    PROVE  /\ Extends(tab, x.tab)
           /\ x.n # 0 => x.n # Local /\ x.n - Local \in DOMAIN x.tab /\ x.tab[x.n - Local] = name
<1>1. CASE \E i \in DOMAIN tab : tab[i] = name
  <2>1. PICK i : i = CHOOSE k \in DOMAIN tab : tab[k] = name OBVIOUS
  <2>2. i \in DOMAIN tab /\ tab[i] = name BY <1>1, <2>1
  <2>3. i \in Nat /\ i > 0 /\ Len(tab) \in Nat BY <2>2
  <2>4. x = [tab |-> tab, n |-> Local + i] BY <1>1, <2>1 DEF AddEntryToXTable
  <2>5. x.tab = tab /\ x.n = Local + i BY <2>4
  <2>6. x.n # Local /\ x.n - Local = i BY <2>3, <2>5 DEF Local
  <2> QED BY <2>2, <2>3, <2>5, <2>6 DEF Extends
<1>2. CASE ~(\E i \in DOMAIN tab : tab[i] = name)
  <2>1. x = IF Len(tab) < ExecSlots THEN [tab |-> Append(tab, name), n |-> Local + Len(tab) + 1] ELSE [tab |-> tab, n |-> 0]
    BY <1>2, Zenon DEF AddEntryToXTable
  <2>2. CASE Len(tab) < ExecSlots
    <3>1. PICK new : new = Append(tab, name) OBVIOUS
    <3>2. Len(tab) \in Nat /\ DOMAIN new = 1 .. Len(tab) + 1 /\ Len(new) = Len(tab) + 1 /\ new[Len(tab) + 1] = name
          /\ \A i \in 1 .. Len(tab) : new[i] = tab[i]
      BY <3>1
    <3>3. x.tab = new /\ x.n = Local + Len(tab) + 1 BY <2>1, <2>2, <3>1
    <3>4. x.n # Local /\ x.n - Local = Len(tab) + 1 BY <3>2, <3>3 DEF Local
    <3>5. Len(tab) + 1 \in DOMAIN new /\ Len(tab) <= Len(new) BY <3>2
    <3> QED BY <3>2, <3>3, <3>4, <3>5 DEF Extends
  <2>3. CASE ~(Len(tab) < ExecSlots)
    <3>1. x.tab = tab /\ x.n = 0 BY <2>1, <2>3
    <3>2. Len(tab) \in Nat OBVIOUS
    <3> QED BY <3>1, <3>2 DEF Extends
  <2> QED BY <2>2, <2>3
<1> QED BY <1>1, <1>2

(* The user's child transition is left, or the others', as long as one of  *)
(* their exec permissions is.                                              *)
LEMMA ChildLeft ==
    ASSUME NEW f \in Files, NEW e, Left(f, e), "x" \in e.perms \/ "ox" \in e.perms
    PROVE  "c" \in e.perms \/ "oc" \in e.perms <=> f.perms \intersect {"c", "oc"} # {}
<1>1. PICK gone \in {{}, OtherPerms, UserPerms, UserPerms \union OtherPerms} : e.perms = f.perms \ gone BY DEF Left
<1>2. "c" \in f.perms <=> "oc" \in f.perms
  <2>1. ForBoth(f.perms) BY SetupsAssumption
  <2>2. PICK q : q = <<"c", "oc">> OBVIOUS
  <2>3. q \in {<<"r", "or">>, <<"w", "ow">>, <<"x", "ox">>, <<"i", "oi">>, <<"p", "op">>, <<"c", "oc">>} BY <2>2
  <2>4. q[1] \in f.perms <=> q[2] \in f.perms BY <2>1, <2>3 DEF ForBoth
  <2>5. q[1] = "c" /\ q[2] = "oc" BY <2>2
  <2> QED BY <2>4, <2>5
<1>3. /\ {"x", "c"} \subseteq UserPerms /\ {"ox", "oc"} \subseteq OtherPerms
      /\ {"x", "c"} \intersect OtherPerms = {} /\ {"ox", "oc"} \intersect UserPerms = {}
  BY DEF UserPerms, OtherPerms
<1>4. CASE gone = {} BY <1>1, <1>4
<1>5. CASE gone = OtherPerms BY <1>1, <1>2, <1>3, <1>5
<1>6. CASE gone = UserPerms BY <1>1, <1>2, <1>3, <1>6
<1>7. CASE gone = UserPerms \union OtherPerms BY <1>1, <1>3, <1>7
<1> QED BY <1>1, <1>4, <1>5, <1>6, <1>7

LEMMA TransitionGrows ==
    ASSUME NEW tab \in Seq(Names), NEW root, NEW e \in Entries, NEW x, x = AddNamedTransition(tab, root, e)
    PROVE  Extends(tab, x.tab)
<1>1. e.nt \in Names BY DEF Entries
<1>2. ProfName(root) \in {"P", "hat"} BY DEF ProfName
<1>3. [e.nt EXCEPT !.prof = ProfName(root)] \in Names BY <1>1, <1>2 DEF Names
<1>4. PICK nm : nm = IF ~e.nt.ns /\ ("c" \in e.perms \/ "oc" \in e.perms) THEN [e.nt EXCEPT !.prof = ProfName(root)] ELSE e.nt OBVIOUS
<1>5. nm \in Names BY <1>1, <1>3, <1>4
<1>6. x = [tab |-> tab, n |-> Local] \/ x = AddEntryToXTable(tab, nm) BY <1>4, Zenon DEF AddNamedTransition
<1>7. x = [tab |-> tab, n |-> Local] => Extends(tab, x.tab) BY DEF Extends
<1> QED BY <1>5, <1>6, <1>7, XTableIs

LEMMA NameMade ==
    ASSUME NEW nt \in Names, NEW name
    PROVE  [nt EXCEPT !.prof = name] = [ns |-> nt.ns, prof |-> name, tail |-> nt.tail]
<1>1. PICK A, B, C : nt \in [ns : A, prof : B, tail : C] BY DEF Names
<1> QED BY <1>1
LEMMA NameSame == ASSUME NEW nt \in Names PROVE nt = [ns |-> nt.ns, prof |-> nt.prof, tail |-> nt.tail]
BY DEF Names

(* The target is not one of another profile. *)
Own(root, f) == f.nt.prof \in {"", ProfName(root)}
LEMMA TransitionLeads ==
    ASSUME NEW tab \in Seq(Names), NEW root, NEW e \in Entries, NEW f \in Files, e.nt = f.nt, e.obj = f.obj, Left(f, e),
           "x" \in e.perms \/ "ox" \in e.perms, Own(root, f),
           NEW x, x = AddNamedTransition(tab, root, e), x.n # 0
    PROVE  LeadsTo(x.tab, root, f, x.n)
<1>1. PICK child : child \in BOOLEAN /\ child = ("c" \in e.perms \/ "oc" \in e.perms) OBVIOUS
<1>2. child <=> f.perms \intersect {"c", "oc"} # {} BY <1>1, ChildLeft
<1>3. PICK nt : nt = f.nt OBVIOUS
<1>4. nt \in Names /\ ProfName(root) \in {"P", "hat"} BY <1>3 DEF Entries, ProfName
<1>5. PICK nm : nm = IF ~nt.ns /\ child THEN [nt EXCEPT !.prof = ProfName(root)] ELSE nt OBVIOUS
<1>6. nm \in Names BY <1>4, <1>5 DEF Names
<1>7. Fulls(root, f) = nm BY <1>2, <1>3, <1>5 DEF Fulls
<1>8. x = IF ~nt.ns /\ (nt.prof # "" \/ child) /\ nt.tail = e.obj THEN [tab |-> tab, n |-> Local] ELSE AddEntryToXTable(tab, nm)
  BY <1>1, <1>3, <1>5 DEF AddNamedTransition
<1>9. CASE ~nt.ns /\ (nt.prof # "" \/ child) /\ nt.tail = e.obj
  <2>0. x = [tab |-> tab, n |-> Local] BY <1>8, <1>9, Zenon
  <2>1. x.n = Local BY <2>0
  <2>2. nt.ns = FALSE /\ nt.tail = f.obj BY <1>4, <1>9 DEF Names
  <2>3. child \/ nt.prof = ProfName(root) BY <1>3, <1>9 DEF Own
  <2>4. PICK g : g = [ns |-> FALSE, prof |-> ProfName(root), tail |-> f.obj] OBVIOUS
  <2>5. [nt EXCEPT !.prof = ProfName(root)] = g
    <3>1. [nt EXCEPT !.prof = ProfName(root)] = [ns |-> nt.ns, prof |-> ProfName(root), tail |-> nt.tail] BY <1>4, NameMade
    <3> QED BY <2>2, <2>4, <3>1, Zenon
  <2>6. nt.prof = ProfName(root) => nt = g
    <3>1. nt = [ns |-> nt.ns, prof |-> nt.prof, tail |-> nt.tail] BY <1>4, NameSame
    <3> QED BY <2>2, <2>4, <3>1, Zenon
  <2>7. nm = g BY <1>5, <1>9, <2>3, <2>5, <2>6
  <2> QED BY <1>7, <2>1, <2>4, <2>7 DEF LeadsTo
<1>10. CASE ~(~nt.ns /\ (nt.prof # "" \/ child) /\ nt.tail = e.obj)
  <2>1. x = AddEntryToXTable(tab, nm) BY <1>8, <1>10, Zenon
  <2>2. x.n # Local /\ x.n - Local \in DOMAIN x.tab /\ x.tab[x.n - Local] = nm BY <1>6, <2>1, XTableIs
  <2> QED BY <1>7, <2>2 DEF LeadsTo
<1> QED BY <1>9, <1>10

LEMMA RightGrows ==
    ASSUME NEW tab \in Seq(Names), NEW new \in Seq(Names), Extends(tab, new), NEW root, NEW f, NEW e, Right(tab, root, f, e)
    PROVE  Right(new, root, f, e)
<1>1. ASSUME NEW i, LeadsTo(tab, root, f, i) PROVE LeadsTo(new, root, f, i)
  <2>1. ASSUME NEW k \in DOMAIN tab PROVE k \in DOMAIN new /\ new[k] = tab[k]
    <3>1. Len(tab) \in Nat /\ Len(new) \in Nat /\ DOMAIN tab = 1 .. Len(tab) /\ DOMAIN new = 1 .. Len(new) OBVIOUS
    <3>2. k \in 1 .. Len(tab) /\ Len(tab) <= Len(new) BY <3>1 DEF Extends
    <3>3. k \in 1 .. Len(new) BY <3>1, <3>2
    <3> QED BY <3>1, <3>2, <3>3 DEF Extends
  <2> QED BY <1>1, <2>1 DEF LeadsTo
<1> QED BY <1>1 DEF Right, NamedRight

(* An entry after its name was replaced by the index in x *)
DoneEntry(e, x) == [e EXCEPT !.nt = NoName, !.xu = IF "x" \in e.perms THEN x.n ELSE 0, !.xo = IF "ox" \in e.perms THEN x.n ELSE 0]
LEMMA DoneRight ==
    ASSUME NEW tab \in Seq(Names), NEW root, NEW e \in Entries, e.nt # NoName, NEW x, x = AddNamedTransition(tab, root, e), x.n # 0,
           NEW done, done = DoneEntry(e, x)
    PROVE  done.nt = NoName /\ \A f \in Files : Right(tab, root, f, e) => Right(x.tab, root, f, done)
<1>1. PICK xu : xu = IF "x" \in e.perms THEN x.n ELSE 0 OBVIOUS
<1>2. PICK xo : xo = IF "ox" \in e.perms THEN x.n ELSE 0 OBVIOUS
<1>3. done = [e EXCEPT !.nt = NoName, !.xu = xu, !.xo = xo] BY <1>1, <1>2 DEF DoneEntry
<1>4. done.nt = NoName /\ done.obj = e.obj /\ done.perms = e.perms /\ done.xu = xu /\ done.xo = xo BY <1>3 DEF Entries
<1>5. ASSUME NEW f \in Files, Right(tab, root, f, e) PROVE Right(x.tab, root, f, done)
  <2>1. e.obj = f.obj /\ Left(f, e) /\ e.nt = f.nt BY <1>5 DEF Right, NamedRight
  <2>2. Left(f, done) BY <1>4, <2>1 DEF Left
  <2>3. "x" \in e.perms /\ Own(root, f) => LeadsTo(x.tab, root, f, x.n) BY <2>1, TransitionLeads
  <2>4. "ox" \in e.perms /\ Own(root, f) => LeadsTo(x.tab, root, f, x.n) BY <2>1, TransitionLeads
  <2>5. NamedRight(x.tab, root, f, done) BY <1>1, <1>2, <1>4, <2>3, <2>4, Zenon DEF NamedRight, Own
  <2> QED BY <1>4, <2>1, <2>2, <2>5 DEF Right
<1> QED BY <1>4, <1>5

(* Block i after its files or its table have changed *)
Renamed(b, c) == Unmoved(b, c) /\ c.rlimits = b.rlimits
LEMMA RetabledIs ==
    ASSUME NEW b \in GoodBlocks, NEW tab
    PROVE  Renamed(b, Retabled(b, tab)) /\ Retabled(b, tab).xtab = tab /\ Retabled(b, tab).files = b.files
BY GoodIs DEF Retabled, Renamed, Unmoved, BlockRecs
LEMMA ReplacedIs ==
    ASSUME NEW b \in GoodBlocks, NEW k, NEW e
    PROVE  /\ Renamed(b, Replaced(b, k, e)) /\ Replaced(b, k, e).xtab = b.xtab
           /\ Replaced(b, k, e).files = [b.files EXCEPT ![k] = e]
<1>1. PICK fs : fs = [b.files EXCEPT ![k] = e] OBVIOUS
<1>2. Replaced(b, k, e) = [b EXCEPT !.files = fs] BY <1>1 DEF Replaced
<1> QED BY <1>1, <1>2, GoodIs DEF Renamed, Unmoved, BlockRecs
(* What becomes of the state a when entry e of block j has got the index in x *)
Outcome(n, j, root, k, a, e, x, s) ==
  \/ s = a /\ (~a.ok \/ e.nt = NoName)
  \/ s = [a EXCEPT !.ok = FALSE]
  \/ /\ a.ok /\ s.ok /\ e.nt # NoName /\ x.n # 0
     /\ \A i \in 1 .. n :
          /\ Renamed(a.bs[i], s.bs[i]) /\ s.bs[i].xtab = (IF i = root THEN x.tab ELSE a.bs[i].xtab)
          /\ s.bs[i].files = IF i = j THEN [a.bs[i].files EXCEPT ![k] = DoneEntry(e, x)] ELSE a.bs[i].files
LEMMA NameTransitionIs ==
    ASSUME NEW n \in Nat, NEW j \in 1 .. n, NEW root \in 1 .. n, NEW m \in Nat, NEW a \in Naming(n, j, m), NEW k \in 1 .. m,
           NEW e, e = a.bs[j].files[k], NEW x, x = AddNamedTransition(a.bs[root].xtab, root, e),
           NEW s, s = NameTransition(a, j, root, k)
    PROVE  Outcome(n, j, root, k, a, e, x, s)
<1>1. a \in Parsing(n) /\ Len(a.bs[j].files) = m BY DEF Naming
<1>2. PICK bs : bs = a.bs OBVIOUS
<1>3. bs \in Sized(n) /\ a.ok \in BOOLEAN /\ bs \in Seq(GoodBlocks) /\ DOMAIN bs = 1 .. n /\ \A i \in 1 .. n : bs[i] \in GoodBlocks
  BY <1>1, <1>2, ParsingIs, SizedIs
<1> DEFINE done == DoneEntry(e, x)
           c == Retabled(bs[root], x.tab)
           bs1 == SetAt(bs, root, c)
           d == Replaced(bs1[j], k, done)
           bs2 == SetAt(bs1, j, d)
<1>4. s = IF ~a.ok \/ e.nt = NoName THEN a ELSE IF x.n = 0 THEN [a EXCEPT !.ok = FALSE] ELSE [a EXCEPT !.bs = bs2]
  <2>1. bs2 = [bs EXCEPT ![root].xtab = x.tab, ![j].files[k] = done] BY Zenon DEF SetAt, Retabled, Replaced
  <2> HIDE DEF bs2
  <2> QED BY <1>2, <2>1 DEF NameTransition, DoneEntry
<1>5. ASSUME a.ok, e.nt # NoName, x.n # 0 PROVE s.ok /\ s.bs = bs2
  <2>1. s = [a EXCEPT !.bs = bs2] BY <1>4, <1>5, Zenon
  <2> HIDE DEF bs2
  <2> QED BY <1>1, <1>5, <2>1 DEF Parsing
<1>6. ASSUME NEW i \in 1 .. n
      PROVE  /\ Renamed(bs[i], bs2[i]) /\ bs2[i].xtab = (IF i = root THEN x.tab ELSE bs[i].xtab)
             /\ bs2[i].files = IF i = j THEN [bs[i].files EXCEPT ![k] = done] ELSE bs[i].files
  <2> HIDE DEF done
  <2>1. PICK b : b = bs[root] OBVIOUS
  <2>2. b \in GoodBlocks /\ bs[j] \in GoodBlocks BY <1>3, <2>1
  <2>3. x.tab \in Seq(Names)
    <3>1. b.xtab \in Seq(Names) /\ bs[j].files \in Seq(GoodEntries) BY <2>2, GoodIs
    <3>2. e \in Entries BY <1>1, <1>2, <3>1 DEF GoodEntries
    <3>3. x = AddNamedTransition(b.xtab, root, e) BY <1>2, <2>1
    <3> QED BY <3>1, <3>2, <3>3, AddNamedTransitionIs
  <2>4. c \in GoodBlocks BY <2>1, <2>2, <2>3, WithXtab
  <2>5. Renamed(b, c) /\ c.xtab = x.tab /\ c.files = b.files BY <2>1, <2>2, RetabledIs
  <2> HIDE DEF c
  <2>6. \A y \in 1 .. n : bs1[y] = IF y = root THEN c ELSE bs[y] BY <1>3 DEF SetAt
  <2>7. DOMAIN bs1 = 1 .. n BY <1>3 DEF SetAt
  <2> HIDE DEF bs1
  <2>8. /\ bs1[j] \in GoodBlocks /\ bs1[j].files = bs[j].files /\ Renamed(bs[j], bs1[j])
        /\ bs1[j].xtab = (IF j = root THEN x.tab ELSE bs[j].xtab)
    BY <2>1, <2>2, <2>4, <2>5, <2>6 DEF Renamed, Unmoved
  <2>9. Renamed(bs1[j], d) /\ d.xtab = bs1[j].xtab /\ d.files = [bs1[j].files EXCEPT ![k] = done]
    <3>1. PICK b1 : b1 = bs1[j] OBVIOUS
    <3>2. PICK dn : dn = done OBVIOUS
    <3>3. d = Replaced(b1, k, dn) BY <3>1, <3>2
    <3> HIDE DEF d
    <3>4. PICK w : w = Replaced(b1, k, dn) OBVIOUS
    <3>5. b1 \in GoodBlocks BY <2>8, <3>1
    <3>6. Renamed(b1, w) /\ w.xtab = b1.xtab /\ w.files = [b1.files EXCEPT ![k] = dn] BY <3>4, <3>5, ReplacedIs
    <3> QED BY <3>1, <3>2, <3>3, <3>4, <3>6
  <2> HIDE DEF d
  <2>10. bs2[i] = IF i = j THEN d ELSE bs1[i] BY <2>7 DEF SetAt
  <2> HIDE DEF bs2
  <2>11. CASE i = j
    <3>1. Renamed(bs[i], bs2[i]) BY <2>8, <2>9, <2>10, <2>11 DEF Renamed, Unmoved
    <3>2. bs2[i].xtab = (IF i = root THEN x.tab ELSE bs[i].xtab) BY <2>8, <2>9, <2>10, <2>11
    <3>3. bs2[i].files = [bs[i].files EXCEPT ![k] = done] BY <2>8, <2>9, <2>10, <2>11
    <3> QED BY <2>11, <3>1, <3>2, <3>3
  <2>12. CASE i # j
    <3>1. bs2[i] = IF i = root THEN c ELSE bs[i] BY <2>6, <2>10, <2>12
    <3>2. CASE i = root BY <2>1, <2>5, <2>12, <3>1, <3>2
    <3>3. CASE i # root
      <4>1. bs2[i] = bs[i] BY <3>1, <3>3
      <4> QED BY <2>12, <3>3, <4>1 DEF Renamed, Unmoved
    <3> QED BY <3>2, <3>3
  <2> QED BY <2>11, <2>12
<1> HIDE DEF bs2
<1>7. CASE ~a.ok \/ e.nt = NoName BY <1>4, <1>7 DEF Outcome
<1>8. CASE a.ok /\ e.nt # NoName /\ x.n = 0 BY <1>4, <1>8 DEF Outcome
<1>9. CASE a.ok /\ e.nt # NoName /\ x.n # 0
  <2>1. s.ok /\ s.bs = bs2 BY <1>5, <1>9
  <2> QED BY <1>2, <1>6, <1>9, <2>1 DEF Outcome
<1> QED BY <1>3, <1>7, <1>8, <1>9

(* What the end of a profile leaves alone: all but the entries of the      *)
(* blocks W that are walked and the table of the root, whose files grow.   *)
After(t, n, W, root, bs, cs) ==
  /\ Onto(t, n, bs, cs)
  /\ \A i \in 1 .. n : /\ Renamed(bs[i], cs[i])
                       /\ i # root => cs[i].xtab = bs[i].xtab /\ Len(cs[i].files) = Len(bs[i].files)
                       /\ i \notin W => cs[i].files = bs[i].files
LEMMA AfterSelf ==
    ASSUME NEW t, NEW n, Rooted(t, n), NEW W, NEW root, NEW bs \in Sized(n)
    PROVE  After(t, n, W, root, bs, bs)
<1>1. Onto(t, n, bs, bs) BY OntoSame
<1> QED BY <1>1 DEF After, Renamed, Unmoved
LEMMA AfterTwice ==
    ASSUME NEW t, NEW n \in Nat, NEW W, NEW root, NEW bs \in Sized(n), NEW cs \in Sized(n), NEW ds \in Sized(n),
           After(t, n, W, root, bs, cs), After(t, n, W, root, cs, ds)
    PROVE  After(t, n, W, root, bs, ds)
<1>1. Onto(t, n, bs, ds) BY OntoTwice DEF After
<1> QED BY <1>1 DEF After, Renamed, Unmoved

(* Replacing the name of entry k of block j *)
OneNamed(t, n, W, root, j, m, k, a, s) ==
  /\ After(t, n, W, root, a.bs, s.bs)
  /\ s.ok => a.ok /\ s.bs[j].files[k].nt = NoName
  /\ \A x \in 1 .. m : x # k => s.bs[j].files[x] = a.bs[j].files[x]
  /\ \A i \in 1 .. n : i # j => s.bs[i].files = a.bs[i].files
LEMMA NameAfter ==
    ASSUME NEW t, NEW n, Rooted(t, n), NEW W, NEW root \in 1 .. n, NEW j \in 1 .. n, j \in W, RootOf(t, j) = root,
           NEW m \in Nat, NEW a \in Naming(n, j, m), NEW k \in 1 .. m, NEW s, s = NameTransition(a, j, root, k)
    PROVE  OneNamed(t, n, W, root, j, m, k, a, s)
<1>1. n \in Nat BY DEF Rooted
<1>2. PICK bs : bs = a.bs OBVIOUS
<1>3. a \in Parsing(n) /\ bs \in Sized(n) /\ Len(bs[j].files) = m BY <1>1, <1>2, ParsingIs DEF Naming
<1>4. \A i \in 1 .. n : bs[i] \in GoodBlocks BY <1>1, <1>3, SizedIs
<1>5. \A i \in 1 .. n : bs[i].files \in Seq(GoodEntries) /\ bs[i].xtab \in Seq(Names) BY <1>4, GoodIs
<1>6. PICK e : e = bs[j].files[k] OBVIOUS
<1>7. e \in Entries
  <2>1. PICK fs : fs = bs[j].files OBVIOUS
  <2>2. fs \in Seq(GoodEntries) /\ k \in DOMAIN fs BY <1>3, <1>5, <2>1
  <2>3. e \in GoodEntries BY <1>6, <2>1, <2>2, ElementIn
  <2> QED BY <2>3 DEF GoodEntries
<1>8. PICK tab : tab = bs[root].xtab OBVIOUS
<1>9. PICK x : x = AddNamedTransition(tab, root, e) OBVIOUS
<1>10. tab \in Seq(Names) /\ x.tab \in Seq(Names) /\ Extends(tab, x.tab) BY <1>5, <1>7, <1>8, <1>9, AddNamedTransitionIs, TransitionGrows
<1>11. PICK done : done = DoneEntry(e, x) OBVIOUS
<1>12. \/ s = a /\ (~a.ok \/ e.nt = NoName)
       \/ s = [a EXCEPT !.ok = FALSE]
       \/ /\ a.ok /\ s.ok /\ e.nt # NoName /\ x.n # 0
          /\ \A i \in 1 .. n :
               /\ Renamed(bs[i], s.bs[i]) /\ s.bs[i].xtab = (IF i = root THEN x.tab ELSE bs[i].xtab)
               /\ s.bs[i].files = IF i = j THEN [bs[i].files EXCEPT ![k] = done] ELSE bs[i].files
  <2>1. e = a.bs[j].files[k] /\ x = AddNamedTransition(a.bs[root].xtab, root, e) BY <1>2, <1>6, <1>8, <1>9, Zenon
  <2>2. Outcome(n, j, root, k, a, e, x, s) BY <1>1, <2>1, NameTransitionIs
  <2> QED BY <1>2, <1>11, <2>2, Zenon DEF Outcome
<1>13. CASE s = a /\ (~a.ok \/ e.nt = NoName)
  <2>1. After(t, n, W, root, bs, bs) BY <1>3, AfterSelf
  <2> QED BY <1>2, <1>6, <1>13, <2>1 DEF OneNamed
<1>14. CASE s = [a EXCEPT !.ok = FALSE]
  <2>1. After(t, n, W, root, bs, bs) BY <1>3, AfterSelf
  <2>2. s.bs = bs /\ ~s.ok BY <1>2, <1>3, <1>14 DEF Parsing
  <2> QED BY <1>2, <2>1, <2>2 DEF OneNamed
<1>15. CASE /\ a.ok /\ s.ok /\ e.nt # NoName /\ x.n # 0
            /\ \A i \in 1 .. n :
                 /\ Renamed(bs[i], s.bs[i]) /\ s.bs[i].xtab = (IF i = root THEN x.tab ELSE bs[i].xtab)
                 /\ s.bs[i].files = IF i = j THEN [bs[i].files EXCEPT ![k] = done] ELSE bs[i].files
  <2>1. PICK cs : cs = s.bs OBVIOUS
  <2>2. \A i \in 1 .. n : Renamed(bs[i], cs[i]) /\ (i # root => cs[i].xtab = bs[i].xtab) /\ (i # j => cs[i].files = bs[i].files)
    BY <1>15, <2>1
  <2>3. cs[root].xtab = x.tab /\ cs[j].files = [bs[j].files EXCEPT ![k] = done] BY <1>15, <2>1
  <2>4. PICK fs : fs = bs[j].files OBVIOUS
  <2>5. PICK gs : gs = cs[j].files OBVIOUS
  <2>6. fs \in Seq(GoodEntries) /\ Len(fs) = m /\ gs = [fs EXCEPT ![k] = done] BY <1>3, <1>5, <2>3, <2>4, <2>5
  <2>7. Len(gs) = m /\ gs[k] = done /\ \A y \in 1 .. m : y # k => gs[y] = fs[y] BY <2>6
  <2>8. done.nt = NoName /\ \A f \in Files : Right(tab, root, f, e) => Right(x.tab, root, f, done)
    BY <1>7, <1>9, <1>10, <1>11, <1>15, DoneRight
  <2>9. ASSUME NEW i \in 1 .. n PROVE Carried(t, bs, cs, i)
    <3>1. PICK r : r = RootOf(t, i) OBVIOUS
    <3>2. r \in 1 .. n BY <3>1, RootIs
    <3>3. PICK old : old = bs[r].xtab OBVIOUS
    <3>4. PICK new : new = cs[r].xtab OBVIOUS
    <3>5. old \in Seq(Names) /\ new \in Seq(Names) /\ Extends(old, new)
      <4>1. CASE r = root BY <1>8, <1>10, <2>3, <3>3, <3>4, <4>1
      <4>2. CASE r # root
        <5>1. old \in Seq(Names) /\ new = old BY <1>5, <2>2, <3>2, <3>3, <3>4, <4>2
        <5>2. Extends(old, old) BY <5>1 DEF Extends
        <5> QED BY <5>1, <5>2
      <4> QED BY <4>1, <4>2
    <3>6. CASE i # j
      <4>1. cs[i].files = bs[i].files BY <2>2, <3>6
      <4>2. bs[i].files \in Seq(GoodEntries) BY <1>5
      <4>3. Len(bs[i].files) <= Len(cs[i].files) BY <4>1, <4>2
      <4>4. \A f \in Files : \A g : Right(old, r, f, g) => Right(new, r, f, g) BY <3>5, RightGrows
      <4> QED BY <3>1, <3>3, <3>4, <4>1, <4>3, <4>4 DEF Carried
    <3>7. CASE i = j
      <4>1. r = root /\ old = tab /\ new = x.tab BY <1>8, <2>3, <3>1, <3>3, <3>4, <3>7
      <4>2. ASSUME NEW y \in 1 .. Len(fs)
            PROVE  /\ FromEnd(fs, y).nt = NoName => FromEnd(gs, y).nt = NoName
                   /\ \A f \in Files : Right(tab, root, f, FromEnd(fs, y)) => Right(x.tab, root, f, FromEnd(gs, y))
        <5>1. PICK z : z = Len(fs) - y + 1 OBVIOUS
        <5>2. z \in 1 .. m BY <2>6, <5>1, FromEndIs
        <5>3. FromEnd(fs, y) = fs[z] /\ FromEnd(gs, y) = gs[z] BY <2>6, <2>7, <5>1 DEF FromEnd
        <5>4. CASE z = k BY <1>6, <2>4, <2>7, <2>8, <5>3, <5>4
        <5>5. CASE z # k
          <6>1. gs[z] = fs[z] BY <2>7, <5>2, <5>5
          <6>2. \A f \in Files : \A g : Right(tab, root, f, g) => Right(x.tab, root, f, g) BY <1>10, RightGrows
          <6> QED BY <5>3, <6>1, <6>2
        <5> QED BY <5>4, <5>5
      <4>3. Len(fs) <= Len(gs) BY <2>6, <2>7
      <4> QED BY <2>4, <2>5, <3>1, <3>3, <3>4, <3>7, <4>1, <4>2, <4>3 DEF Carried
    <3> QED BY <3>6, <3>7
  <2>10. \A i \in 1 .. n : Len(cs[i].files) = Len(bs[i].files) BY <2>2, <2>4, <2>5, <2>6, <2>7
  <2>11. After(t, n, W, root, bs, cs)
    <3>1. Onto(t, n, bs, cs) BY <2>9 DEF Onto
    <3> QED BY <2>2, <2>10, <3>1 DEF After
  <2> QED BY <1>2, <1>15, <2>1, <2>2, <2>4, <2>5, <2>7, <2>8, <2>11 DEF OneNamed
<1> QED BY <1>12, <1>13, <1>14, <1>15

(* The names of block i are replaced. *)
Done(bs, i) == \A x \in 1 .. Len(bs[i].files) : bs[i].files[x].nt = NoName
(* ... those of the first k entries of block j, from a on *)
Gone(t, n, W, root, a, j, k, s) ==
  /\ After(t, n, W, root, a.bs, s.bs)
  /\ s.ok => a.ok /\ \A x \in 1 .. k : s.bs[j].files[x].nt = NoName
  /\ \A i \in 1 .. n : i # j => s.bs[i].files = a.bs[i].files
LEMMA GoneStep ==
    ASSUME NEW t, NEW n, Rooted(t, n), NEW W, NEW root \in 1 .. n, NEW j \in 1 .. n, j \in W, RootOf(t, j) = root,
           NEW m \in Nat, NEW a \in Naming(n, j, m), NEW k \in 1 .. m, NEW s \in Naming(n, j, m), Gone(t, n, W, root, a, j, k - 1, s),
           NEW u, u = NameTransition(s, j, root, k)
    PROVE  u \in Naming(n, j, m) /\ Gone(t, n, W, root, a, j, k, u)
<1>1. n \in Nat BY DEF Rooted
<1>2. u \in Naming(n, j, m) BY <1>1, NameTransitionGood
<1>3. /\ After(t, n, W, root, s.bs, u.bs) /\ (u.ok => s.ok /\ u.bs[j].files[k].nt = NoName)
      /\ \A x \in 1 .. m : x # k => u.bs[j].files[x] = s.bs[j].files[x]
      /\ \A i \in 1 .. n : i # j => u.bs[i].files = s.bs[i].files
  <2>1. OneNamed(t, n, W, root, j, m, k, s, u) BY NameAfter
  <2> QED BY <2>1, Zenon DEF OneNamed
<1>4. a.bs \in Sized(n) /\ s.bs \in Sized(n) /\ u.bs \in Sized(n) BY <1>1, <1>2, ParsingIs DEF Naming
<1>5. After(t, n, W, root, a.bs, s.bs) BY DEF Gone
<1>6. After(t, n, W, root, a.bs, u.bs) BY <1>1, <1>3, <1>4, <1>5, AfterTwice
<1>7. ASSUME u.ok PROVE a.ok /\ \A x \in 1 .. k : u.bs[j].files[x].nt = NoName
  <2>1. a.ok /\ \A x \in 1 .. k - 1 : s.bs[j].files[x].nt = NoName BY <1>3, <1>7 DEF Gone
  <2>2. ASSUME NEW x \in 1 .. k PROVE u.bs[j].files[x].nt = NoName
    <3>1. x = k \/ (x # k /\ x \in 1 .. k - 1 /\ x \in 1 .. m) OBVIOUS
    <3> QED BY <1>3, <1>7, <2>1, <3>1
  <2> QED BY <2>1, <2>2
<1>8. \A i \in 1 .. n : i # j => u.bs[i].files = a.bs[i].files BY <1>3 DEF Gone
<1> QED BY <1>2, <1>6, <1>7, <1>8 DEF Gone
LEMMA NamesGone ==
    ASSUME NEW t, NEW n, Rooted(t, n), NEW W, NEW root \in 1 .. n, NEW j \in 1 .. n, j \in W, RootOf(t, j) = root,
           NEW m \in Nat, NEW a \in Naming(n, j, m), NEW s,
           s = Run([k \in 1 .. m |-> [x \in ParseState |-> NameTransition(x, j, root, k)]], a)
    PROVE  s \in Naming(n, j, m) /\ Gone(t, n, W, root, a, j, m, s)
<1> DEFINE steps == [k \in 1 .. m |-> [x \in ParseState |-> NameTransition(x, j, root, k)]]
           I == [k \in 0 .. m |-> {x \in Naming(n, j, m) : Gone(t, n, W, root, a, j, k, x)}]
<1>1. n \in Nat BY DEF Rooted
<1>2. Len(steps) = m OBVIOUS
<1>3. ASSUME NEW k \in 1 .. m, NEW x \in I[k - 1] PROVE steps[k][x] \in I[k]
  <2>1. k - 1 \in 0 .. m /\ k \in 0 .. m OBVIOUS
  <2>2. x \in Naming(n, j, m) /\ Gone(t, n, W, root, a, j, k - 1, x) BY <2>1
  <2>3. x \in ParseState BY <1>1, <2>2, ParsingIs DEF Naming
  <2>4. steps[k][x] = NameTransition(x, j, root, k) BY <2>3
  <2> HIDE DEF steps
  <2>5. steps[k][x] \in Naming(n, j, m) /\ Gone(t, n, W, root, a, j, k, steps[k][x]) BY <2>2, <2>4, GoneStep
  <2> QED BY <2>1, <2>5
<1>4. a \in I[0]
  <2>1. a.bs \in Sized(n) /\ 0 \in 0 .. m BY <1>1, ParsingIs DEF Naming
  <2>2. After(t, n, W, root, a.bs, a.bs) BY <2>1, AfterSelf
  <2>3. Gone(t, n, W, root, a, j, 0, a) BY <2>2 DEF Gone
  <2> QED BY <2>1, <2>3
<1>5. I[m] = {x \in Naming(n, j, m) : Gone(t, n, W, root, a, j, m, x)} OBVIOUS
<1>6. s = Run(steps, a) OBVIOUS
<1> HIDE DEF steps, I
<1>7. s \in I[m] BY <1>2, <1>3, <1>4, <1>6, RunKeeps
<1> QED BY <1>5, <1>7

LEMMA AddEntryIs ==
    ASSUME NEW b \in GoodBlocks, NEW e
    PROVE  Renamed(b, AddEntry(b, e)) /\ AddEntry(b, e).xtab = b.xtab /\ AddEntry(b, e).files = <<e>> \o b.files
<1>1. PICK fs : fs = <<e>> \o b.files OBVIOUS
<1>2. PICK pr : pr = (b.prompt \/ e.mode = "prompt") OBVIOUS
<1>3. AddEntry(b, e) = [b EXCEPT !.files = fs, !.prompt = pr] BY <1>1, <1>2, Zenon DEF AddEntry
<1> QED BY <1>1, <1>3, GoodIs DEF Renamed, Unmoved, BlockRecs
LEMMA EntryAfter ==
    ASSUME NEW t, NEW n, Rooted(t, n), NEW W, NEW root \in 1 .. n, root \in W, NEW bs \in Sized(n), NEW e \in GoodEntries, e.nt = NoName,
           NEW cs, cs = SetAt(bs, root, AddEntry(bs[root], e))
    PROVE  cs \in Sized(n) /\ After(t, n, W, root, bs, cs) /\ \A i \in 1 .. n : Done(bs, i) => Done(cs, i)
<1>1. n \in Nat /\ bs[root] \in GoodBlocks /\ DOMAIN bs = 1 .. n BY SizedIs DEF Rooted
<1>2. PICK b : b = AddEntry(bs[root], e) OBVIOUS
<1>3. b \in GoodBlocks BY <1>1, <1>2, AddEntryGood
<1>4. Renamed(bs[root], b) /\ b.xtab = bs[root].xtab /\ b.files = <<e>> \o bs[root].files BY <1>1, <1>2, AddEntryIs
<1>5. cs \in Sized(n) /\ cs[root] = b BY <1>1, <1>2, <1>3, SetAtSized
<1>6. \A i \in 1 .. n : i # root => cs[i] = bs[i] BY <1>1 DEF SetAt
<1>7. \A i \in 1 .. n : (i # root => cs[i].files = bs[i].files) /\ cs[i].xtab = bs[i].xtab BY <1>4, <1>5, <1>6
<1>8. cs[root].files = <<e>> \o bs[root].files BY <1>4, <1>5
<1>9. Onto(t, n, bs, cs) BY <1>7, <1>8, OntoFront
<1>10. \A i \in 1 .. n : Renamed(bs[i], cs[i])
  <2>1. \A i \in 1 .. n : i # root => Renamed(bs[i], cs[i]) BY <1>6 DEF Renamed, Unmoved
  <2> QED BY <1>4, <1>5, <2>1
<1>11. After(t, n, W, root, bs, cs) BY <1>7, <1>9, <1>10 DEF After
<1>12. ASSUME NEW i \in 1 .. n, Done(bs, i) PROVE Done(cs, i)
  <2>1. CASE i # root BY <1>7, <1>12, <2>1 DEF Done
  <2>2. CASE i = root
    <3>1. PICK fs : fs = bs[root].files OBVIOUS
    <3>2. PICK gs : gs = cs[root].files OBVIOUS
    <3>3. fs \in Seq(GoodEntries) /\ gs = <<e>> \o fs BY <1>1, <1>8, <3>1, <3>2, GoodIs
    <3>4. \A x \in 1 .. Len(gs) : x = 1 \/ (x - 1 \in 1 .. Len(fs) /\ gs[x] = fs[x - 1]) BY <3>3
    <3>5. gs[1] = e BY <3>3
    <3>6. \A x \in 1 .. Len(fs) : fs[x].nt = NoName BY <1>12, <2>2, <3>1 DEF Done
    <3>7. \A x \in 1 .. Len(gs) : gs[x].nt = NoName BY <3>4, <3>5, <3>6
    <3> QED BY <2>2, <3>2, <3>7 DEF Done
  <2> QED BY <2>1, <2>2
<1> QED BY <1>5, <1>11, <1>12
LEMMA ProcAfter ==
    ASSUME NEW t, NEW n, Rooted(t, n), NEW W, NEW root \in 1 .. n, root \in W, NEW bs \in Sized(n),
           NEW cs, cs = SetAt(bs, root, AddProcAccess(bs[root]))
    PROVE  cs \in Sized(n) /\ After(t, n, W, root, bs, cs) /\ \A i \in 1 .. n : Done(bs, i) => Done(cs, i)
<1>1. n \in Nat /\ DOMAIN bs = 1 .. n BY SizedIs DEF Rooted
<1> DEFINE r == NewEntry("proc", {"r"}, NoName)
           w == NewEntry("proc", {"w"}, NoName)
<1>2. "proc" \in Objs /\ {"r"} \in SUBSET Perms /\ {"w"} \in SUBSET Perms /\ NoName \in Names
  BY DEF Objs, Perms, UserPerms, NoName, Names
<1>3. TypedWithX({"r"}) /\ TypedWithX({"w"}) BY DEF TypedWithX
<1>4. r \in GoodEntries /\ w \in GoodEntries BY <1>2, <1>3, NewEntryGood
<1>5. r.nt = NoName /\ w.nt = NoName BY DEF NewEntry
<1>6. cs = SetAt(bs, root, AddEntry(AddEntry(bs[root], r), w)) BY DEF AddProcAccess
<1> HIDE DEF r, w
<1>7. PICK ds : ds = SetAt(bs, root, AddEntry(bs[root], r)) OBVIOUS
<1>8. ds \in Sized(n) /\ After(t, n, W, root, bs, ds) /\ \A i \in 1 .. n : Done(bs, i) => Done(ds, i) BY <1>4, <1>5, <1>7, EntryAfter
<1>9. cs = SetAt(ds, root, AddEntry(ds[root], w)) BY <1>1, <1>6, <1>7 DEF SetAt
<1>10. cs \in Sized(n) /\ After(t, n, W, root, ds, cs) /\ \A i \in 1 .. n : Done(ds, i) => Done(cs, i)
  BY <1>4, <1>5, <1>8, <1>9, EntryAfter
<1>11. After(t, n, W, root, bs, cs) BY <1>1, <1>8, <1>10, AfterTwice
<1> QED BY <1>8, <1>10, <1>11

(* What the end of the profile does to block j *)
Parsed1(t, n, W, root, j, a, s) ==
  /\ s \in Parsing(n) /\ After(t, n, W, root, a.bs, s.bs)
  /\ s.ok => a.ok /\ Done(s.bs, j) /\ \A i \in 1 .. n : Done(a.bs, i) => Done(s.bs, i)
LEMMA PostParseFileIs ==
    ASSUME NEW t, NEW n, Rooted(t, n), NEW W, NEW root \in 1 .. n, root \in W, NEW j \in 1 .. n, j \in W, RootOf(t, j) = root,
           NEW a \in Parsing(n), NEW s, s = PostParseFile(a, j, root)
    PROVE  Parsed1(t, n, W, root, j, a, s)
<1>1. n \in Nat BY DEF Rooted
<1>2. PICK m : m = Len(a.bs[j].files) OBVIOUS
<1>3. m \in Nat
  <2>1. a.bs[j] \in GoodBlocks BY <1>1, ParsingIs, SizedIs
  <2>2. a.bs[j].files \in Seq(GoodEntries) BY <2>1, GoodIs
  <2> QED BY <1>2, <2>2
<1>4. a \in Naming(n, j, m) BY <1>2 DEF Naming
<1>5. PICK nm : nm = Run([k \in 1 .. m |-> [x \in ParseState |-> NameTransition(x, j, root, k)]], a) OBVIOUS
<1>6. nm \in Naming(n, j, m) /\ Gone(t, n, W, root, a, j, m, nm) BY <1>3, <1>4, <1>5, NamesGone
<1>7. s = nm \/ s = [nm EXCEPT !.bs[root] = AddProcAccess(@)] BY <1>2, <1>5, Zenon DEF PostParseFile
<1>8. nm \in Parsing(n) /\ Len(nm.bs[j].files) = m /\ nm.bs \in Sized(n) /\ a.bs \in Sized(n) BY <1>1, <1>6, ParsingIs DEF Naming
<1>9. /\ After(t, n, W, root, a.bs, nm.bs)
      /\ nm.ok => a.ok /\ Done(nm.bs, j) /\ \A i \in 1 .. n : Done(a.bs, i) => Done(nm.bs, i)
  <2>1. nm.ok => Done(nm.bs, j) BY <1>6, <1>8 DEF Gone, Done
  <2>2. \A i \in 1 .. n : i # j /\ Done(a.bs, i) => Done(nm.bs, i) BY <1>6 DEF Gone, Done
  <2>3. nm.ok => a.ok BY <1>6 DEF Gone
  <2>4. After(t, n, W, root, a.bs, nm.bs) BY <1>6 DEF Gone
  <2> QED BY <2>1, <2>2, <2>3, <2>4
<1>10. CASE s = nm BY <1>8, <1>9, <1>10 DEF Parsed1
<1>11. CASE s = [nm EXCEPT !.bs[root] = AddProcAccess(@)]
  <2>1. PICK bs : bs = nm.bs OBVIOUS
  <2>2. PICK cs : cs = SetAt(bs, root, AddProcAccess(bs[root])) OBVIOUS
  <2>3. s = [nm EXCEPT !.bs = cs] BY <1>11, <2>1, <2>2, Zenon DEF SetAt
  <2>4. bs \in Sized(n) BY <1>8, <2>1
  <2>5. cs \in Sized(n) /\ After(t, n, W, root, bs, cs) /\ \A i \in 1 .. n : Done(bs, i) => Done(cs, i) BY <2>2, <2>4, ProcAfter
  <2>6. s.bs = cs /\ s.ok = nm.ok /\ s \in Parsing(n) BY <1>8, <2>3, <2>5 DEF Parsing
  <2>7. After(t, n, W, root, a.bs, bs) BY <1>9, <2>1
  <2>8. After(t, n, W, root, a.bs, cs) BY <1>1, <1>8, <2>4, <2>5, <2>7, AfterTwice
  <2>9. nm.ok => a.ok /\ Done(bs, j) /\ \A i \in 1 .. n : Done(a.bs, i) => Done(bs, i) BY <1>9, <2>1
  <2>10. nm.ok => a.ok /\ Done(cs, j) /\ \A i \in 1 .. n : Done(a.bs, i) => Done(cs, i) BY <2>5, <2>9
  <2> QED BY <2>6, <2>8, <2>10, Zenon DEF Parsed1
<1> QED BY <1>7, <1>10, <1>11

(* ... and to the first k of the blocks in order *)
Ended(t, n, W, root, bs, order, k, s) ==
  /\ s \in Parsing(n) /\ After(t, n, W, root, bs, s.bs)
  /\ s.ok => \A x \in 1 .. k : Done(s.bs, order[x])
LEMMA EndedStep ==
    ASSUME NEW t, NEW n, Rooted(t, n), NEW W, NEW root \in 1 .. n, root \in W, NEW bs \in Sized(n),
           NEW order \in Seq(1 .. n), NEW k \in 1 .. Len(order), order[k] \in W, RootOf(t, order[k]) = root,
           NEW s, Ended(t, n, W, root, bs, order, k - 1, s), NEW u, u = PostParseFile(s, order[k], root)
    PROVE  Ended(t, n, W, root, bs, order, k, u)
<1>1. n \in Nat BY DEF Rooted
<1>2. \A x \in 1 .. Len(order) : order[x] \in 1 .. n
  <2>1. PICK S : S = 1 .. n OBVIOUS
  <2>2. order \in Seq(S) BY <2>1
  <2>3. \A x \in 1 .. Len(order) : order[x] \in S BY <2>2
  <2> QED BY <2>1, <2>3
<1>3. PICK j : j = order[k] OBVIOUS
<1>4. j \in 1 .. n /\ j \in W /\ RootOf(t, j) = root BY <1>2, <1>3
<1>5. s \in Parsing(n) /\ After(t, n, W, root, bs, s.bs) /\ (s.ok => \A x \in 1 .. k - 1 : Done(s.bs, order[x])) BY DEF Ended
<1>6. Parsed1(t, n, W, root, j, s, u) BY <1>3, <1>4, <1>5, PostParseFileIs
<1>7. /\ u \in Parsing(n) /\ After(t, n, W, root, s.bs, u.bs)
      /\ u.ok => s.ok /\ Done(u.bs, j) /\ \A i \in 1 .. n : Done(s.bs, i) => Done(u.bs, i)
  BY <1>6, Zenon DEF Parsed1
<1>8. s.bs \in Sized(n) /\ u.bs \in Sized(n) BY <1>1, <1>5, <1>7, ParsingIs
<1>9. After(t, n, W, root, bs, u.bs) BY <1>1, <1>5, <1>7, <1>8, AfterTwice
<1>10. ASSUME u.ok, NEW x \in 1 .. k PROVE Done(u.bs, order[x])
  <2>1. x \in 1 .. Len(order) /\ (x = k \/ x \in 1 .. k - 1) OBVIOUS
  <2> QED BY <1>2, <1>3, <1>5, <1>7, <1>10, <2>1
<1> QED BY <1>7, <1>9, <1>10 DEF Ended
LEMMA WalkIs ==
    ASSUME NEW t, NEW n, Rooted(t, n), IsTree(t, n), NEW r \in 1 .. n, NEW W, W = {j \in 1 .. n : Reached(t, r, j)}
    PROVE  Range(Walk(t, r, TRUE)) = W
BY WalkReaches
LEMMA PostParseIs ==
    ASSUME NEW n, NEW bs \in Sized(n), NEW t, t = Tree(bs), Rooted(t, n), NEW root \in 1 .. n, t[root].kind \in {"main", "hat"},
           NEW W, W = {j \in 1 .. n : Reached(t, root, j)}, NEW s, s = PostParse(bs, root)
    PROVE  /\ s \in Parsing(n) /\ After(t, n, W, root, bs, s.bs)
           /\ s.ok => \A j \in W : Done(s.bs, j)
<1>1. n \in Nat /\ IsTree(t, n) BY SizedIs DEF Rooted
<1>2. Range(Walk(t, root, TRUE)) = W BY <1>1, WalkIs
<1> DEFINE order == Walk(t, root, TRUE)
           steps == [k \in 1 .. Len(order) |-> [x \in ParseState |-> PostParseFile(x, order[k], root)]]
           init == [ok |-> TRUE, bs |-> bs]
           I == [k \in 0 .. Len(order) |-> {x \in Parsing(n) : Ended(t, n, W, root, bs, order, k, x)}]
<1>3. n \in Nat BY <1>1
<1>4. Range(order) = W BY <1>2
<1>5. order \in Seq(1 .. n) BY <1>1, WalkIn
<1>6. s = Run(steps, init) BY DEF PostParse, PostParseIn
<1> HIDE DEF order
<1>7. Len(order) \in Nat /\ Len(steps) = Len(order) BY <1>5
<1>8. root \in W
  <2>1. Len(t[root].path) \in Nat /\ t[root].path[Len(t[root].path)] = root BY PathIs
  <2>2. Reached(t, root, root) BY <2>1 DEF Reached
  <2> QED BY <2>2
<1>9. ASSUME NEW k \in 1 .. Len(order), NEW x \in I[k - 1] PROVE steps[k][x] \in I[k]
  <2>1. k - 1 \in 0 .. Len(order) /\ k \in 0 .. Len(order) BY <1>7
  <2>2. x \in Parsing(n) /\ Ended(t, n, W, root, bs, order, k - 1, x) BY <2>1
  <2>3. x \in ParseState BY <1>3, <2>2, ParsingIs
  <2>4. steps[k][x] = PostParseFile(x, order[k], root) BY <2>3
  <2>5. order[k] \in W BY <1>4, <1>5, RangeIn
  <2>6. RootOf(t, order[k]) = root BY <2>5, ReachedRoot
  <2> HIDE DEF steps
  <2>7. Ended(t, n, W, root, bs, order, k, steps[k][x]) BY <1>5, <1>8, <2>2, <2>4, <2>5, <2>6, EndedStep
  <2>8. steps[k][x] \in Parsing(n) BY <2>7 DEF Ended
  <2> QED BY <2>1, <2>7, <2>8
<1>10. init \in I[0]
  <2>1. init \in Parsing(n) /\ init.bs = bs BY DEF Parsing
  <2>2. 0 \in 0 .. Len(order) BY <1>7
  <2> HIDE DEF init
  <2>3. After(t, n, W, root, bs, bs) BY AfterSelf
  <2>4. Ended(t, n, W, root, bs, order, 0, init) BY <2>1, <2>3 DEF Ended
  <2> QED BY <2>1, <2>2, <2>4
<1>11. I[Len(order)] = {x \in Parsing(n) : Ended(t, n, W, root, bs, order, Len(order), x)} BY <1>7
<1> HIDE DEF steps, I, init
<1>12. s \in I[Len(order)] BY <1>6, <1>7, <1>9, <1>10, RunKeeps
<1>13. s \in Parsing(n) /\ After(t, n, W, root, bs, s.bs) /\ (s.ok => \A x \in 1 .. Len(order) : Done(s.bs, order[x]))
  BY <1>11, <1>12 DEF Ended
<1>14. ASSUME s.ok, NEW j \in W PROVE Done(s.bs, j)
  <2>1. PICK x \in 1 .. Len(order) : j = order[x]
    <3>1. j \in Range(order) /\ DOMAIN order = 1 .. Len(order) BY <1>4, <1>5
    <3> QED BY <3>1 DEF Range
  <2> QED BY <1>13, <1>14, <2>1
<1> QED BY <1>13, <1>14

(* The end of a profile or hat replaces the names of what belongs to it. *)
LEMMA EndedNames ==
    ASSUME NEW n, NEW t, Rooted(t, n), NEW root \in 1 .. n, t[root].kind \in {"main", "hat"}, NEW ss, History(t, n, ss),
           NEW bs \in Sized(n), NEW cs \in Sized(n), EntriesRight(t, n, ss, bs), NEW op, NamesDone(t, op, ss, bs),
           NEW W, W = {j \in 1 .. n : Reached(t, root, j)}, After(t, n, W, root, bs, cs), \A j \in W : Done(cs, j),
           NEW rest, \A i \in Range(op) : i = root \/ i \in Range(rest)
    PROVE  EntriesRight(t, n, ss, cs) /\ NamesDone(t, rest, ss, cs)
<1>1. n \in Nat BY DEF Rooted
<1>2. EntriesRight(t, n, ss, cs) /\ NamesDone(t, op, ss, cs) BY <1>1, OntoKeeps DEF After
<1>3. ASSUME NEW m \in DOMAIN ss, NEW h, h = HomeOf(ss[m]), NEW r, r = RootOf(t, h), ss[m].kind = "file", r \notin Range(rest), Reached(t, r, h)
      PROVE  EntryOf(cs, ss, m).nt = NoName
  <2>1. CASE r \notin Range(op) BY <1>2, <1>3, <2>1, Zenon DEF NamesDone
  <2>2. CASE r \in Range(op)
    <3>1. r = root BY <1>3, <2>2
    <3>2. h \in 1 .. n /\ m \in 1 .. Len(ss) BY <1>3, StmtsIs
    <3>3. Done(cs, h) BY <1>3, <3>1, <3>2
    <3>4. PICK fs : fs = cs[h].files OBVIOUS
    <3>5. cs[h] \in GoodBlocks BY <1>1, <3>2, SizedIs
    <3>6. fs \in Seq(GoodEntries) /\ Len(fs) \in Nat BY <3>4, <3>5, GoodIs
    <3>7. Cardinality(FilesUpTo(ss, h, Len(ss))) <= Len(fs) BY <1>2, <3>2, <3>4 DEF EntriesRight
    <3>8. IsFile(ss[m]) BY <1>3 DEF IsFile
    <3>9. RankOf(ss, m) \in 1 .. Len(fs) BY <1>3, <3>2, <3>6, <3>7, <3>8, RankIs
    <3>10. PICK y : y = RankOf(ss, m) OBVIOUS
    <3>11. Len(fs) - y + 1 \in 1 .. Len(fs) BY <3>6, <3>9, <3>10
    <3>12. EntryOf(cs, ss, m) = fs[Len(fs) - y + 1] BY <1>3, <3>4, <3>10 DEF EntryOf
    <3> QED BY <3>3, <3>4, <3>11, <3>12 DEF Done
  <2> QED BY <2>1, <2>2
<1>4. NamesDone(t, rest, ss, cs) BY <1>3 DEF NamesDone
<1> QED BY <1>2, <1>4

(***************************************************************************)
(* A statement: what it does to its block b                                *)
(***************************************************************************)
SetLimit(lim, v) == [specified |-> lim.specified \union {v.l}, limits |-> [lim.limits EXCEPT ![v.l] = v.n]]
Takes(b, d, s) ==
  /\ Unmoved(b, d) /\ d.xtab = b.xtab
  /\ d.rlimits = IF s.kind = "rlimit" THEN SetLimit(b.rlimits, s.what) ELSE b.rlimits
  /\ IF IsFile(s) THEN \E e \in GoodEntries : /\ d.files = <<e>> \o b.files
                                              /\ s.kind = "file" => \A tab, r : Right(tab, r, s.what, e)
                  ELSE d.files = b.files
LEMMA StmtFine ==
    ASSUME NEW t, NEW n, NEW ss, NEW op, NEW c, NEW bs \in Sized(n), NEW cs \in Sized(n), Fine(bs, t, n, op, c, ss),
           NEW s, WrittenIn(t, c, s), \A i \in 1 .. n : i # c => cs[i] = bs[i], Takes(bs[c], cs[c], s)
    PROVE  Fine(cs, t, n, op, c, Append(ss, s))
<1>1. /\ Rooted(t, n) /\ History(t, n, ss) /\ IsOpen(t, n, op, c) /\ LimitsHeld(t, op, ss, bs, n)
      /\ EntriesRight(t, n, ss, bs) /\ OnlyWritten(op, ss, bs) /\ NamesDone(t, op, ss, bs)
  BY DEF Fine
<1>2. n \in Nat /\ c \in 1 .. n BY <1>1 DEF Rooted, IsOpen
<1>3. \A i \in 1 .. n : cs[i].xtab = bs[i].xtab /\ bs[i] \in GoodBlocks BY <1>2, SizedIs DEF Takes
<1>4. History(t, n, Append(ss, s)) BY <1>1, <1>2, HistoryGrows
<1>5. LimitsHeld(t, op, Append(ss, s), cs, n)
  <2>1. CASE s.kind # "rlimit"
    <3>1. \A i \in 1 .. n : cs[i].rlimits = bs[i].rlimits BY <2>1 DEF Takes
    <3> QED BY <1>1, <1>2, <2>1, <3>1, LimitsOther
  <2>2. CASE s.kind = "rlimit"
    <3>1. \A i \in 1 .. n : i # c => cs[i].rlimits = bs[i].rlimits OBVIOUS
    <3>2. bs[c].rlimits \in Limits BY <1>2, <1>3, GoodIs
    <3>3. cs[c].rlimits = SetLimit(bs[c].rlimits, s.what) BY <2>2 DEF Takes
    <3>4. cs[c].rlimits = [specified |-> bs[c].rlimits.specified \union {s.what.l},
                           limits |-> [bs[c].rlimits.limits EXCEPT ![s.what.l] = s.what.n]]
      BY <3>3 DEF SetLimit
    <3> QED BY <1>1, <2>2, <3>1, <3>2, <3>4, LimitSet
  <2> QED BY <2>1, <2>2
<1>6. EntriesRight(t, n, Append(ss, s), cs) /\ NamesDone(t, op, Append(ss, s), cs) /\ OnlyWritten(op, Append(ss, s), cs)
  <2>1. CASE IsFile(s)
    <3>1. PICK e \in GoodEntries : cs[c].files = <<e>> \o bs[c].files /\ (s.kind = "file" => \A tab, r : Right(tab, r, s.what, e))
      BY <2>1 DEF Takes
    <3>2. \A i \in 1 .. n : (i # c => cs[i].files = bs[i].files) /\ cs[i].xtab = bs[i].xtab BY <1>3
    <3>3. Onto(t, n, bs, cs) /\ Len(cs[c].files) = Len(bs[c].files) + 1 /\ FromEnd(cs[c].files, Len(cs[c].files)) = e
      <4>1. cs[c].files = <<e>> \o bs[c].files /\ e \in GoodEntries BY <3>1
      <4>2. Rooted(t, n) BY <1>1
      <4>3. Onto(t, n, bs, cs) BY <1>2, <3>2, <4>1, <4>2, OntoFront
      <4>4. PICK fs : fs = bs[c].files OBVIOUS
      <4>5. fs \in Seq(GoodEntries) BY <1>2, <1>3, <4>4, GoodIs
      <4>6. Len(<<e>> \o fs) = Len(fs) + 1 /\ FromEnd(<<e>> \o fs, Len(fs) + 1) = e BY <4>1, <4>5, FromEndFront
      <4> QED BY <4>1, <4>3, <4>4, <4>6
    <3>4. EntriesRight(t, n, ss, cs) /\ NamesDone(t, op, ss, cs) BY <1>1, <1>2, <3>3, OntoKeeps
    <3>5. \A i \in 1 .. n : Len(bs[i].files) \in Nat BY <1>3, GoodIs, SeqLen
    <3>6. \A i \in 1 .. n : Len(cs[i].files) = Len(bs[i].files) + (IF IsFile(s) /\ i = c THEN 1 ELSE 0)
      <4>1. TAKE i \in 1 .. n
      <4>2. PICK d : d = IF IsFile(s) /\ i = c THEN 1 ELSE 0 OBVIOUS
      <4>3. CASE i = c BY <2>1, <3>3, <4>2, <4>3
      <4>4. CASE i # c BY <3>2, <3>5, <4>2, <4>4
      <4> QED BY <4>3, <4>4
    <3>7. s.kind = "file" => Right(cs[RootOf(t, c)].xtab, RootOf(t, c), s.what, FromEnd(cs[c].files, Len(cs[c].files)))
      BY <3>1, <3>3
    <3> QED BY <1>1, <3>4, <3>6, <3>7, StmtAdds
  <2>2. CASE ~IsFile(s)
    <3>1. \A i \in 1 .. n : cs[i].files = bs[i].files BY <2>2 DEF Takes
    <3>2. Onto(t, n, bs, cs) BY <1>1, <1>3, <3>1, OntoSame
    <3>3. EntriesRight(t, n, ss, cs) /\ NamesDone(t, op, ss, cs) BY <1>1, <1>2, <3>2, OntoKeeps
    <3>4. \A i \in 1 .. n : Len(bs[i].files) \in Nat BY <1>3, GoodIs, SeqLen
    <3>5. \A i \in 1 .. n : Len(cs[i].files) = Len(bs[i].files) + (IF IsFile(s) /\ i = c THEN 1 ELSE 0) BY <2>2, <3>1, <3>4
    <3>6. s.kind # "file" BY <2>2 DEF IsFile
    <3> QED BY <1>1, <3>3, <3>5, <3>6, StmtAdds
  <2> QED BY <2>1, <2>2
<1> QED BY <1>1, <1>4, <1>5, <1>6 DEF Fine

LEMMA StmtTInv ==
    ASSUME BInv, BInv', TInv, NEW kind, NEW what, NEW p, Written(kind, what, p), NEW b \in GoodBlocks, NEW r, Put(SetAt(blocks, Cur, b), r),
           NEW s, s = [kind |-> kind, what |-> what, pre |-> p, path |-> blocks[Cur].path],
           kind \in {"file", "cp", "cap", "rlimit"} \union RuleKinds, what \in Whats, p \in PrefixRecs,
           kind = "file" => what \in Files, kind = "rlimit" => what \in [l : LimitNames, n : Int],
           Takes(blocks[Cur], b, s)
    PROVE  TInv'
<1>1. PICK n : n = Len(blocks) OBVIOUS
<1>2. PICK c : c = Cur OBVIOUS
<1>3. PICK bs : bs = blocks OBVIOUS
<1>4. PICK cs : cs = SetAt(bs, c, b) OBVIOUS
<1>5. bs \in Sized(n) /\ n \in Nat /\ c \in 1 .. n /\ bs[c] \in GoodBlocks BY <1>1, <1>2, <1>3, Opened
<1>6. cs \in Sized(n) /\ cs[c] = b BY <1>4, <1>5, SetAtSized
<1>7. \A i \in 1 .. n : i # c => cs[i] = bs[i] BY <1>4, <1>5, SizedIs DEF SetAt
<1>8. phase = "parse" /\ stmts' = Append(stmts, s) /\ open' = open BY DEF Written
<1>9. phase' = "error" \/ (phase' = "parse" /\ blocks' = cs) BY <1>2, <1>3, <1>4, <1>8 DEF Put
<1>10. CASE phase' = "error" BY <1>10 DEF TInv
<1>11. CASE phase' = "parse" /\ blocks' = cs
  <2>1. Takes(bs[c], cs[c], s) BY <1>2, <1>3, <1>6
  <2>2. \A i \in 1 .. n : Unmoved(bs[i], cs[i]) BY <1>7, <2>1 DEF Takes, Unmoved
  <2>3. PICK t : t = Tree(bs) OBVIOUS
  <2>4. Tree(cs) = t BY <1>5, <1>6, <2>2, <2>3, UnmovedTree
  <2>5. Fine(bs, t, n, open, c, stmts) BY <1>1, <1>2, <1>3, <1>8, <2>3 DEF TInv
  <2>6. t[c].path = bs[c].path BY <1>5, <2>3, TreeAt
  <2>7. bs[c].path \in Seq(Nat) BY <1>5, GoodIs DEF BlockRecs
  <2>8. s.path = t[c].path /\ s.kind = kind /\ s.what = what BY <1>2, <1>3, <2>6
  <2>9. s \in StmtRecs BY <1>2, <1>3, <2>7 DEF StmtRecs
  <2>10. WrittenIn(t, c, s) BY <2>8, <2>9 DEF WrittenIn
  <2>11. Fine(cs, t, n, open, c, Append(stmts, s)) BY <1>5, <1>6, <1>7, <2>1, <2>5, <2>10, StmtFine
  <2>12. Cur' = c /\ Len(cs) = n BY <1>2, <1>5, <1>6, <1>8, SizedIs DEF Cur
  <2>13. Fine(blocks', Tree(blocks'), Len(blocks'), open', Cur', stmts') BY <1>8, <1>11, <2>4, <2>11, <2>12
  <2> QED BY <1>11, <2>13 DEF TInv
<1> QED BY <1>9, <1>10, <1>11

LEMMA FileT == ASSUME BInv, BInv', TInv, NEW f \in setup.files, NEW p \in setup.prefixes, FileStmt(f, p) PROVE TInv'
<1>1. p \in PrefixRecs /\ f \in Files BY SetupIs
<1>2. f.obj \in Objs /\ f.perms \in SUBSET Perms /\ TypedWithX(f.perms) /\ f.nt \in Names BY <1>1, SetupsAssumption DEF Objs, Perms
<1>3. PICK e : e = NewEntry(f.obj, f.perms, f.nt) OBVIOUS
<1>4. PICK r : r = EntryAddPrefix(e, p) OBVIOUS
<1>5. e \in GoodEntries /\ r.r \in GoodEntries BY <1>1, <1>2, <1>3, <1>4, NewEntryGood, EntryAddPrefixGood
<1>6. PICK a : a = blocks[Cur] OBVIOUS
<1>7. a \in GoodBlocks BY <1>6, Opened
<1>8. PICK b : b = AddEntry(a, r.r) OBVIOUS
<1>9. b \in GoodBlocks BY <1>5, <1>7, <1>8, AddEntryGood
<1>10. Written("file", f, p) /\ Put(SetAt(blocks, Cur, b), r) BY <1>3, <1>4, <1>6, <1>8 DEF FileStmt, SetAt
<1>11. PICK s : s = [kind |-> "file", what |-> f, pre |-> p, path |-> blocks[Cur].path] OBVIOUS
<1>12. s.kind = "file" /\ s.what = f BY <1>11
<1>13. e \in Entries BY <1>5 DEF GoodEntries
<1>14. \A tab, rt : Right(tab, rt, f, r.r) BY <1>1, <1>3, <1>4, <1>13, NewRight
<1>15. Renamed(a, b) /\ b.xtab = a.xtab /\ b.files = <<r.r>> \o a.files BY <1>7, <1>8, AddEntryIs
<1>16. Takes(a, b, s)
  <2>1. IsFile(s) /\ s.kind # "rlimit" BY <1>12 DEF IsFile
  <2>2. \E d \in GoodEntries : b.files = <<d>> \o a.files /\ (s.kind = "file" => \A tab, rt : Right(tab, rt, s.what, d))
    BY <1>5, <1>12, <1>14, <1>15, Zenon
  <2> QED BY <1>15, <2>1, <2>2 DEF Takes, Renamed
<1>17. "file" \in {"file", "cp", "cap", "rlimit"} \union RuleKinds /\ f \in Whats BY <1>1 DEF Whats
<1>18. Takes(blocks[Cur], b, s) BY <1>6, <1>16
<1> QED BY <1>1, <1>9, <1>10, <1>11, <1>17, <1>18, StmtTInv

LEMMA ChangeProfileT == ASSUME BInv, BInv', TInv, NEW p \in setup.prefixes, ChangeProfileStmt(p) PROVE TInv'
<1>1. p \in PrefixRecs BY SetupIs
<1>2. "cp" \in Objs /\ {"cp"} \in SUBSET Perms /\ NoName \in Names /\ TypedWithX({"cp"})
  BY DEF Objs, Perms, SharedPerms, NoName, Names, TypedWithX
<1>3. PICK e : e = NewEntry("cp", {"cp"}, NoName) OBVIOUS
<1>4. PICK r : r = GenericAddPrefix(e, p) OBVIOUS
<1>5. r.r \in GoodEntries BY <1>1, <1>2, <1>3, <1>4, NewEntryGood, GenericAddPrefixGood
<1>6. PICK a : a = blocks[Cur] OBVIOUS
<1>7. a \in GoodBlocks BY <1>6, Opened
<1>8. PICK b : b = AddEntry(a, r.r) OBVIOUS
<1>9. b \in GoodBlocks BY <1>5, <1>7, <1>8, AddEntryGood
<1>10. PICK k : k = [r EXCEPT !.ok = @ /\ p.owner = "unspec"] OBVIOUS
<1>11. Written("cp", "cp", p) /\ Put(SetAt(blocks, Cur, b), k) BY <1>3, <1>4, <1>6, <1>8, <1>10 DEF ChangeProfileStmt, SetAt
<1>12. PICK s : s = [kind |-> "cp", what |-> "cp", pre |-> p, path |-> blocks[Cur].path] OBVIOUS
<1>13. Renamed(a, b) /\ b.xtab = a.xtab /\ b.files = <<r.r>> \o a.files BY <1>7, <1>8, AddEntryIs
<1>14. Takes(a, b, s)
  <2>1. IsFile(s) /\ s.kind # "rlimit" /\ s.kind # "file" BY <1>12 DEF IsFile
  <2>2. \E d \in GoodEntries : b.files = <<d>> \o a.files /\ (s.kind = "file" => \A tab, rt : Right(tab, rt, s.what, d))
    BY <1>5, <1>13, <2>1, Zenon
  <2> QED BY <1>13, <2>1, <2>2 DEF Takes, Renamed
<1>15. "cp" \in {"file", "cp", "cap", "rlimit"} \union RuleKinds /\ "cp" \in Whats BY DEF Whats
<1>16. Takes(blocks[Cur], b, s) BY <1>6, <1>14
<1> QED BY <1>1, <1>9, <1>11, <1>12, <1>15, <1>16, StmtTInv

(* The other statements leave the files alone. *)
LEMMA OtherT ==
    ASSUME BInv, BInv', TInv, NEW kind \in RuleKinds \union {"cap"}, NEW what \in Whats, NEW p \in PrefixRecs, Written(kind, what, p),
           NEW b \in GoodBlocks, NEW r, Put(SetAt(blocks, Cur, b), r), NEW a, a = blocks[Cur],
           Renamed(a, b), b.xtab = a.xtab, b.files = a.files
    PROVE  TInv'
<1>1. PICK s : s = [kind |-> kind, what |-> what, pre |-> p, path |-> blocks[Cur].path] OBVIOUS
<1>2. kind \notin {"file", "cp", "rlimit"} BY DEF RuleKinds
<1>3. s.kind = kind BY <1>1
<1>4. ~IsFile(s) /\ s.kind # "rlimit" BY <1>2, <1>3 DEF IsFile
<1>5. Takes(blocks[Cur], b, s) BY <1>4 DEF Takes, Renamed
<1>6. kind \in {"file", "cp", "cap", "rlimit"} \union RuleKinds OBVIOUS
<1> QED BY <1>1, <1>2, <1>5, <1>6, StmtTInv

LEMMA AddRuleIs ==
    ASSUME NEW b \in GoodBlocks, NEW r
    PROVE  Renamed(b, AddRule(b, r)) /\ AddRule(b, r).xtab = b.xtab /\ AddRule(b, r).files = b.files
<1>1. PICK rs : rs = Append(b.rules, r) OBVIOUS
<1>2. PICK pr : pr = (b.prompt \/ r.mode = "prompt") OBVIOUS
<1>3. AddRule(b, r) = [b EXCEPT !.rules = rs, !.prompt = pr] BY <1>1, <1>2, Zenon DEF AddRule
<1> QED BY <1>3, GoodIs DEF Renamed, Unmoved, BlockRecs

LEMMA RuleT == ASSUME BInv, BInv', TInv, NEW kind \in RuleKinds, NEW p \in setup.prefixes, RuleStmt(kind, p) PROVE TInv'
<1>1. p \in PrefixRecs BY SetupIs
<1>2. PICK r : r = AddPrefix(kind, NewRule(kind, kind), p) OBVIOUS
<1>3. NewRule(kind, kind) \in Rules BY NewRuleIn
<1>4. r.r \in Rules BY <1>1, <1>2, <1>3, AddPrefixRule
<1>5. PICK a : a = blocks[Cur] OBVIOUS
<1>6. a \in GoodBlocks BY <1>5, Opened
<1>7. PICK b : b = AddRule(a, r.r) OBVIOUS
<1>8. b \in GoodBlocks BY <1>4, <1>6, <1>7, AddRuleGood
<1>9. Written(kind, kind, p) /\ Put(SetAt(blocks, Cur, b), r) BY <1>2, <1>5, <1>7 DEF RuleStmt, SetAt
<1>10. Renamed(a, b) /\ b.xtab = a.xtab /\ b.files = a.files BY <1>6, <1>7, AddRuleIs
<1>11. kind \in Whats BY DEF Whats
<1> QED BY <1>1, <1>5, <1>8, <1>9, <1>10, <1>11, OtherT

LEMMA NetT == ASSUME BInv, BInv', TInv, NEW ty \in AllTypes, NEW p \in setup.prefixes, NetStmt(ty, p) PROVE TInv'
<1>1. p \in PrefixRecs BY SetupIs
<1>2. PICK r : r = AddPrefix("net", NewRule("net", ty), p) OBVIOUS
<1>3. NewRule("net", ty) \in Rules BY NewRuleIn DEF RuleKinds
<1>4. r.r \in Rules BY <1>1, <1>2, <1>3, AddPrefixRule
<1>5. PICK a : a = blocks[Cur] OBVIOUS
<1>6. a \in GoodBlocks BY <1>5, Opened
<1>7. PICK c : c = AddRule(a, r.r) OBVIOUS
<1>8. c \in GoodBlocks BY <1>4, <1>6, <1>7, AddRuleGood
<1>9. PICK u : u = AddCompatNet(c.net, p, {ty}) OBVIOUS
<1>10. u \in Tables(AllTypes) /\ c.caps \in Tables(AllCaps) BY <1>8, <1>9, GoodIs, AddCapabilitiesTable
<1>11. PICK b : b = [c EXCEPT !.net = u] OBVIOUS
<1>12. b \in GoodBlocks BY <1>8, <1>10, <1>11, WithTables
<1>13. Written("net", ty, p) /\ Put(SetAt(blocks, Cur, b), r) BY <1>2, <1>5, <1>7, <1>9, <1>11 DEF NetStmt, SetAt
<1>14. Renamed(a, c) /\ c.xtab = a.xtab /\ c.files = a.files BY <1>6, <1>7, AddRuleIs
<1>15. Renamed(c, b) /\ b.xtab = c.xtab /\ b.files = c.files BY <1>8, <1>11, GoodIs DEF Renamed, Unmoved, BlockRecs
<1>16. Renamed(a, b) /\ b.xtab = a.xtab /\ b.files = a.files BY <1>14, <1>15 DEF Renamed, Unmoved
<1>17. ty \in Whats /\ "net" \in RuleKinds \union {"cap"} BY DEF Whats, RuleKinds
<1> QED BY <1>1, <1>5, <1>12, <1>13, <1>16, <1>17, OtherT

LEMMA CapT == ASSUME BInv, BInv', TInv, NEW c \in AllCaps, NEW p \in setup.prefixes, CapStmt(c, p) PROVE TInv'
<1>1. p \in PrefixRecs BY SetupIs
<1>2. PICK a : a = blocks[Cur] OBVIOUS
<1>3. a \in GoodBlocks BY <1>2, Opened
<1>4. PICK u : u = AddCapabilities(a.caps, p, {c}) OBVIOUS
<1>5. u \in Tables(AllCaps) /\ a.net \in Tables(AllTypes) BY <1>3, <1>4, GoodIs, AddCapabilitiesTable
<1>6. PICK b : b = [a EXCEPT !.caps = u] OBVIOUS
<1>7. b \in GoodBlocks BY <1>3, <1>5, <1>6, WithTables
<1>8. PICK r : r = [ok |-> p.owner = "unspec"] OBVIOUS
<1>9. Written("cap", c, p) /\ Put(SetAt(blocks, Cur, b), r) BY <1>2, <1>4, <1>6, <1>8 DEF CapStmt, SetAt
<1>10. Renamed(a, b) /\ b.xtab = a.xtab /\ b.files = a.files BY <1>3, <1>6, GoodIs DEF Renamed, Unmoved, BlockRecs
<1>11. c \in Whats /\ "cap" \in RuleKinds \union {"cap"} BY DEF Whats
<1> QED BY <1>1, <1>2, <1>7, <1>9, <1>10, <1>11, OtherT

LEMMA RlimitT == ASSUME BInv, BInv', TInv, NEW v \in setup.limits, RlimitStmt(v.l, v.v, v.unit) PROVE TInv'
<1>1. v.l \in LimitNames /\ v.v \in Int BY SetupIs
<1>2. PICK l : l = v.l OBVIOUS
<1>3. PICK n : n = RlimitValue(l, v.v, v.unit) OBVIOUS
<1>4. n \in Int BY <1>1, <1>2, <1>3, RlimitValueIs
<1>5. PICK a : a = blocks[Cur] OBVIOUS
<1>6. a \in GoodBlocks BY <1>5, Opened
<1>7. a.rlimits \in Limits BY <1>6, GoodIs
<1>8. PICK m : m = [specified |-> a.rlimits.specified \union {l}, limits |-> [a.rlimits.limits EXCEPT ![l] = n]] OBVIOUS
<1>9. m \in Limits BY <1>1, <1>2, <1>4, <1>7, <1>8 DEF Limits
<1>10. PICK b : b = [a EXCEPT !.rlimits = m] OBVIOUS
<1>11. b \in GoodBlocks BY <1>6, <1>9, <1>10, GoodIs DEF BlockRecs, GoodBlocks
<1>12. PICK r : r = [ok |-> n # -1] OBVIOUS
<1>13. PICK w : w = [l |-> l, n |-> n] OBVIOUS
<1>14. Written("rlimit", w, NoPrefix) /\ Put(SetAt(blocks, Cur, b), r)
  BY <1>2, <1>3, <1>5, <1>8, <1>10, <1>12, <1>13 DEF RlimitStmt, SetAt
<1>15. PICK s : s = [kind |-> "rlimit", what |-> w, pre |-> NoPrefix, path |-> blocks[Cur].path] OBVIOUS
<1>16. s.kind = "rlimit" /\ s.what = w BY <1>15
<1>17. b.rlimits = m /\ Unmoved(a, b) /\ b.xtab = a.xtab /\ b.files = a.files BY <1>6, <1>10, GoodIs DEF Unmoved, BlockRecs
<1>18. m = SetLimit(a.rlimits, w) BY <1>8, <1>13 DEF SetLimit
<1>19. Takes(blocks[Cur], b, s)
  <2>1. ~IsFile(s) BY <1>16 DEF IsFile
  <2> QED BY <1>5, <1>16, <1>17, <1>18, <2>1 DEF Takes
<1>20. w \in [l : LimitNames, n : Int] BY <1>1, <1>2, <1>4, <1>13
<1>21. w \in Whats /\ NoPrefix \in PrefixRecs BY <1>20 DEF Whats, NoPrefix, PrefixRecs, Audits, Modes, Owners
<1>22. "rlimit" \in {"file", "cp", "cap", "rlimit"} \union RuleKinds OBVIOUS
<1> QED BY <1>11, <1>14, <1>15, <1>19, <1>20, <1>21, <1>22, StmtTInv

(***************************************************************************)
(* Blocks                                                                  *)
(***************************************************************************)
LEMMA OpenT ==
    ASSUME BInv, BInv', TInv, NEW kind \in {"main", "block", "cond", "hat"}, NEW set \in BOOLEAN, OpenBlock(kind, set)
    PROVE  TInv'
<1>1. PICK n : n = Len(blocks) OBVIOUS
<1>2. PICK c : c = Cur OBVIOUS
<1>3. PICK bs : bs = blocks OBVIOUS
<1>4. bs \in Sized(n) /\ n \in Nat /\ c \in 1 .. n /\ bs[c] \in GoodBlocks /\ bs \in Seq(GoodBlocks)
  BY <1>1, <1>2, <1>3, Opened DEF BInv
<1>5. PICK path : path = Append(bs[c].path, n + 1) OBVIOUS
<1>6. bs[c].path \in Seq(Nat) BY <1>4 DEF GoodBlocks, BlockRecs
<1>7. path \in Seq(Nat) BY <1>4, <1>5, <1>6
<1>8. PICK b : b = NewBlock(path, kind, set) OBVIOUS
<1>9. b \in GoodBlocks BY <1>7, <1>8, NewBlockGood
<1>10. b.path = path /\ b.files = <<>> /\ b.rlimits = NoLimits BY <1>8 DEF NewBlock
<1>11. PICK cs : cs = Append(bs, b) OBVIOUS
<1>12. blocks' = cs /\ open' = Append(open, n + 1) /\ stmts' = stmts /\ phase = "parse" /\ phase' = "parse"
  BY <1>1, <1>2, <1>3, <1>5, <1>8, <1>11 DEF OpenBlock
<1>13. Len(bs) = n BY <1>4, SizedIs
<1>14. cs \in Seq(GoodBlocks) /\ Len(cs) = n + 1 /\ cs[n + 1] = b /\ \A j \in 1 .. n : cs[j] = bs[j] BY <1>4, <1>9, <1>11, <1>13
<1>15. PICK t : t = Tree(bs) OBVIOUS
<1>16. PICK u : u = Tree(cs) OBVIOUS
<1>17. Fine(bs, t, n, open, c, stmts) BY <1>1, <1>2, <1>3, <1>12, <1>15 DEF TInv
<1>18. /\ Rooted(t, n) /\ History(t, n, stmts) /\ IsOpen(t, n, open, c) /\ LimitsHeld(t, open, stmts, bs, n)
       /\ EntriesRight(t, n, stmts, bs) /\ OnlyWritten(open, stmts, bs) /\ NamesDone(t, open, stmts, bs)
  BY <1>17 DEF Fine
<1>19. Grown(t, u, n, c)
  <2>1. n + 1 \in Nat /\ cs \in Sized(n + 1) BY <1>4, <1>14 DEF Sized
  <2>2. \A j \in 1 .. n : u[j] = t[j] BY <1>4, <1>13, <1>14, <1>15, <1>16 DEF Tree
  <2>3. n + 1 \in 1 .. n + 1 BY <1>4
  <2>4. u[n + 1].path = b.path BY <1>14, <1>16, <2>1, <2>3, TreeAt
  <2>5. t[c].path = bs[c].path BY <1>4, <1>15, TreeAt
  <2> QED BY <1>4, <1>5, <1>10, <2>2, <2>4, <2>5 DEF Grown
<1>20. Rooted(u, n + 1) BY <1>18, <1>19, GrownRooted
<1>21. PICK op : op = Append(open, n + 1) OBVIOUS
<1>22. IsOpen(u, n + 1, op, n + 1) BY <1>18, <1>19, <1>21, GrownOpen
<1>23. History(u, n + 1, stmts) BY <1>18, <1>19, GrownHistory
<1>24. cs[n + 1].rlimits = NoLimits /\ cs[n + 1].files = <<>> BY <1>10, <1>14
<1>25. LimitsHeld(u, op, stmts, cs, n + 1)
  <2>1. \A j \in 1 .. n : cs[j] = bs[j] BY <1>14
  <2> QED BY <1>18, <1>19, <1>21, <1>24, <2>1, GrownLimits
<1>26. EntriesRight(u, n + 1, stmts, cs) /\ OnlyWritten(op, stmts, cs) /\ NamesDone(u, op, stmts, cs)
  <2>1. \A j \in 1 .. n : cs[j] = bs[j] BY <1>14
  <2> QED BY <1>18, <1>19, <1>21, <1>24, <2>1, GrownEntries
<1>27. Fine(cs, u, n + 1, op, n + 1, stmts) BY <1>20, <1>22, <1>23, <1>25, <1>26 DEF Fine
<1>28. Cur' = n + 1
  <2>1. op[Len(op)] = n + 1 BY <1>20, <1>22, OpenIs
  <2> QED BY <1>12, <1>21, <2>1 DEF Cur
<1>29. Fine(blocks', Tree(blocks'), Len(blocks'), open', Cur', stmts') BY <1>12, <1>14, <1>16, <1>21, <1>27, <1>28
<1> QED BY <1>12, <1>29 DEF TInv

(* A block closes: what has to hold of the blocks that are put *)
LEMMA ClosedT ==
    ASSUME BInv, TInv, phase = "parse", Len(open) > 1, Closed, NEW n, n = Len(blocks), NEW t, t = Tree(blocks), NEW cs \in Sized(n),
           \A j \in 1 .. n : Unmoved(blocks[j], cs[j]), phase' = "error" \/ (phase' = "parse" /\ blocks' = cs),
           phase' = "parse" => /\ LimitsHeld(t, Front(open), stmts, cs, n) /\ EntriesRight(t, n, stmts, cs)
                               /\ OnlyWritten(Front(open), stmts, cs) /\ NamesDone(t, Front(open), stmts, cs)
    PROVE  TInv'
<1>1. CASE phase' = "error" BY <1>1 DEF TInv
<1>2. CASE phase' = "parse" /\ blocks' = cs
  <2>1. PICK a : a = Parent OBVIOUS
  <2>2. blocks \in Sized(n) /\ n \in Nat BY Opened
  <2>3. Tree(cs) = t BY <2>2, UnmovedTree
  <2>4. Rooted(t, n) /\ History(t, n, stmts) /\ IsOpen(t, n, open, Cur) BY DEF TInv, Fine
  <2>5. IsOpen(t, n, Front(open), a) BY <2>1, <2>4, FrontIs DEF Parent
  <2>6. Front(open)[Len(Front(open))] = a BY <2>4, <2>5, OpenIs
  <2>7. open' = Front(open) /\ stmts' = stmts BY DEF Closed
  <2>8. Cur' = a BY <2>6, <2>7 DEF Cur
  <2>9. Fine(cs, t, n, Front(open), a, stmts) BY <1>2, <2>4, <2>5 DEF Fine
  <2>10. Len(cs) = n BY <2>2, SizedIs
  <2>11. Fine(blocks', Tree(blocks'), Len(blocks'), open', Cur', stmts') BY <1>2, <2>3, <2>7, <2>8, <2>9, <2>10
  <2> QED BY <1>2, <2>11 DEF TInv
<1> QED BY <1>1, <1>2

(* The parent a gets what the closed block c kept for it. *)
LEMMA MergedFine ==
    ASSUME NEW t, NEW n, NEW ss, NEW op, NEW c, NEW bs \in Sized(n), NEW ds \in Sized(n), Fine(bs, t, n, op, c, ss), Len(op) > 1,
           InBranch(t, c), NEW a, a = op[Len(op) - 1], Onto(t, n, bs, ds),
           \A j \in 1 .. n : Unmoved(bs[j], ds[j]) /\ ds[j].rlimits = bs[j].rlimits /\ Len(ds[j].files) = Len(bs[j].files),
           NEW mrg, mrg = MergeCompatRules(ds[a], ds[c]), mrg.ok, NEW cs, cs = SetAt(ds, a, mrg.b)
    PROVE  /\ cs \in Sized(n) /\ \A j \in 1 .. n : Unmoved(bs[j], cs[j])
           /\ LimitsHeld(t, Front(op), ss, cs, n) /\ EntriesRight(t, n, ss, cs)
           /\ OnlyWritten(Front(op), ss, cs) /\ NamesDone(t, Front(op), ss, cs)
<1>1. /\ Rooted(t, n) /\ History(t, n, ss) /\ IsOpen(t, n, op, c) /\ LimitsHeld(t, op, ss, bs, n)
      /\ EntriesRight(t, n, ss, bs) /\ OnlyWritten(op, ss, bs) /\ NamesDone(t, op, ss, bs)
  BY DEF Fine
<1>2. n \in Nat /\ c \in 1 .. n BY <1>1 DEF Rooted, IsOpen
<1>3. a \in 1 .. n /\ a # c BY <1>1, FrontIs
<1>4. ds[a] \in GoodBlocks /\ ds[c] \in GoodBlocks /\ DOMAIN ds = 1 .. n BY <1>2, <1>3, SizedIs
<1>5. PICK m : m = mrg.b OBVIOUS
<1>6. m \in GoodBlocks BY <1>4, <1>5, MergeCompatRulesGood
<1>7. cs \in Sized(n) /\ cs[a] = m BY <1>2, <1>3, <1>5, <1>6, SetAtSized
<1>8. \A j \in 1 .. n : j # a => cs[j] = ds[j] BY <1>4 DEF SetAt
<1>9. PICK x : x = bs[a].rlimits OBVIOUS
<1>10. PICK y : y = bs[c].rlimits OBVIOUS
<1>11. ds[a].rlimits = x /\ ds[c].rlimits = y BY <1>2, <1>3, <1>9, <1>10
<1>12. /\ Unmoved(ds[a], m) /\ m.files = ds[a].files /\ m.xtab = ds[a].xtab
       /\ m.rlimits = [specified |-> x.specified \union y.specified,
                       limits |-> [l \in LimitNames |-> IF y.limits[l] # 0 THEN y.limits[l] ELSE x.limits[l]]]
  <2>1. PICK da : da = ds[a] OBVIOUS
  <2>2. PICK dc : dc = ds[c] OBVIOUS
  <2>3. m = MergeCompatRules(da, dc).b /\ da \in GoodBlocks /\ dc \in GoodBlocks BY <1>4, <1>5, <2>1, <2>2
  <2>4. /\ Unmoved(da, m) /\ m.files = da.files /\ m.xtab = da.xtab
        /\ m.rlimits = [specified |-> da.rlimits.specified \union dc.rlimits.specified,
                        limits |-> [l \in LimitNames |-> IF dc.rlimits.limits[l] # 0 THEN dc.rlimits.limits[l] ELSE da.rlimits.limits[l]]]
    BY <2>3, MergeMoves
  <2>5. da.rlimits = x /\ dc.rlimits = y BY <1>11, <2>1, <2>2
  <2> QED BY <2>1, <2>4, <2>5, Zenon
<1>13. x.specified \intersect y.specified = {} BY <1>11 DEF MergeCompatRules
<1>14. \A j \in 1 .. n : cs[j].files = ds[j].files /\ cs[j].xtab = ds[j].xtab BY <1>7, <1>8, <1>12
<1>15. \A j \in 1 .. n : Unmoved(bs[j], cs[j]) BY <1>7, <1>8, <1>12 DEF Unmoved
<1>16. LimitsHeld(t, Front(op), ss, cs, n)
  <2>1. \A j \in 1 .. n : j # a => cs[j].rlimits = bs[j].rlimits BY <1>8
  <2>2. cs[a].rlimits = [specified |-> x.specified \union y.specified,
                         limits |-> [l \in LimitNames |-> IF y.limits[l] # 0 THEN y.limits[l] ELSE x.limits[l]]]
    BY <1>7, <1>12, Zenon
  <2> QED BY <1>1, <1>9, <1>10, <1>13, <2>1, <2>2, LimitsClosed
<1>17. Onto(t, n, ds, cs) BY <1>1, <1>14, OntoSame
<1>18. Onto(t, n, bs, cs) BY <1>2, <1>7, <1>17, OntoTwice
<1>19. EntriesRight(t, n, ss, cs) /\ NamesDone(t, op, ss, cs) BY <1>1, <1>2, <1>7, <1>18, OntoKeeps
<1>20. \A j \in 1 .. n : Len(cs[j].files) = Len(bs[j].files) BY <1>14
<1>21. t[c].kind \notin {"main", "hat"} BY DEF InBranch
<1>22. OnlyWritten(Front(op), ss, cs) /\ NamesDone(t, Front(op), ss, cs) BY <1>1, <1>19, <1>20, <1>21, ClosedEntries
<1> QED BY <1>7, <1>15, <1>16, <1>19, <1>22

LEMMA CloseBlockT == ASSUME BInv, BInv', TInv, NEW p \in setup.prefixes, CloseBlock(p) PROVE TInv'
<1>1. p \in PrefixRecs BY SetupIs
<1>2. phase = "parse" /\ Len(open) > 1 /\ Closed /\ blocks[Cur].kind = "block" BY DEF CloseBlock
<1>3. PICK n : n = Len(blocks) OBVIOUS
<1>4. PICK c : c = Cur OBVIOUS
<1>5. PICK a : a = Parent OBVIOUS
<1>6. n \in Nat /\ blocks \in Sized(n) /\ c \in 1 .. n /\ a \in 1 .. n BY <1>2, <1>3, <1>4, <1>5, Opened
<1>7. PICK t : t = Tree(blocks) OBVIOUS
<1>8. Fine(blocks, t, n, open, c, stmts) BY <1>2, <1>3, <1>4, <1>7 DEF TInv
<1>9. Rooted(t, n) BY <1>8 DEF Fine
<1>10. InBranch(t, c) BY <1>2, <1>4, <1>6, <1>7, TreeAt DEF InBranch
<1>11. PICK one : one = BlockAddPrefix(blocks, c, p) OBVIOUS
<1>12. PICK os : os = one.bs OBVIOUS
<1>13. /\ os \in Sized(n) /\ Onto(t, n, blocks, os)
       /\ \A j \in 1 .. n : Unmoved(blocks[j], os[j]) /\ os[j].rlimits = blocks[j].rlimits /\ Len(os[j].files) = Len(blocks[j].files)
  BY <1>1, <1>6, <1>9, <1>11, <1>12, BlockPrefixed
<1>14. PICK q : q = os[a].pre OBVIOUS
<1>15. q \in PrefixRecs BY <1>6, <1>13, <1>14, SizedIs, GoodIs
<1>16. PICK two : two = BlockAddPrefix(os, c, q) OBVIOUS
<1>17. PICK ds : ds = two.bs OBVIOUS
<1>18. /\ ds \in Sized(n) /\ Onto(t, n, os, ds)
       /\ \A j \in 1 .. n : Unmoved(os[j], ds[j]) /\ ds[j].rlimits = os[j].rlimits /\ Len(ds[j].files) = Len(os[j].files)
  BY <1>6, <1>9, <1>13, <1>15, <1>16, <1>17, BlockPrefixed
<1>19. Onto(t, n, blocks, ds) BY <1>6, <1>13, <1>18, OntoTwice
<1>20. \A j \in 1 .. n : Unmoved(blocks[j], ds[j]) /\ ds[j].rlimits = blocks[j].rlimits /\ Len(ds[j].files) = Len(blocks[j].files)
  BY <1>13, <1>18 DEF Unmoved
<1>21. PICK mrg : mrg = MergeCompatRules(ds[a], ds[c]) OBVIOUS
<1>22. PICK cs : cs = SetAt(ds, a, mrg.b) OBVIOUS
<1>23. PICK r : r = [ok |-> one.ok /\ two.ok /\ mrg.ok] OBVIOUS
<1>24. Put(cs, r)
  BY <1>4, <1>5, <1>11, <1>12, <1>14, <1>16, <1>17, <1>21, <1>22, <1>23 DEF CloseBlock, SetAt
<1>25. phase' = "error" \/ (phase' = "parse" /\ blocks' = cs /\ mrg.ok) BY <1>2, <1>23, <1>24 DEF Put
<1>26. a = open[Len(open) - 1] BY <1>5 DEF Parent
<1>27. CASE phase' = "error" BY <1>27 DEF TInv
<1>28. CASE phase' = "parse" /\ blocks' = cs /\ mrg.ok
  <2>1. /\ cs \in Sized(n) /\ \A j \in 1 .. n : Unmoved(blocks[j], cs[j])
        /\ LimitsHeld(t, Front(open), stmts, cs, n) /\ EntriesRight(t, n, stmts, cs)
        /\ OnlyWritten(Front(open), stmts, cs) /\ NamesDone(t, Front(open), stmts, cs)
    BY <1>2, <1>6, <1>8, <1>10, <1>18, <1>19, <1>20, <1>21, <1>22, <1>26, <1>28, MergedFine
  <2> QED BY <1>2, <1>3, <1>7, <1>28, <2>1, ClosedT
<1> QED BY <1>25, <1>27, <1>28

LEMMA CloseCondT == ASSUME BInv, BInv', TInv, CloseCond PROVE TInv'
<1>1. phase = "parse" /\ Len(open) > 1 /\ Closed /\ blocks[Cur].kind = "cond" BY DEF CloseCond
<1>2. PICK n : n = Len(blocks) OBVIOUS
<1>3. PICK c : c = Cur OBVIOUS
<1>4. PICK a : a = Parent OBVIOUS
<1>5. n \in Nat /\ blocks \in Sized(n) /\ c \in 1 .. n /\ a \in 1 .. n BY <1>1, <1>2, <1>3, <1>4, Opened
<1>6. PICK t : t = Tree(blocks) OBVIOUS
<1>7. Fine(blocks, t, n, open, c, stmts) BY <1>1, <1>2, <1>3, <1>6 DEF TInv
<1>8. Rooted(t, n) BY <1>7 DEF Fine
<1>9. t[c].kind = "cond" /\ t[c].set = blocks[c].set BY <1>1, <1>3, <1>5, <1>6, TreeAt
<1>10. PICK mrg : mrg = MergeCompatRules(blocks[a], blocks[c]) OBVIOUS
<1>11. PICK cs : cs = SetAt(blocks, a, mrg.b) OBVIOUS
<1>12. IF blocks[c].set THEN Put(cs, mrg) ELSE blocks' = blocks /\ phase' = phase BY <1>3, <1>4, <1>10, <1>11 DEF CloseCond, SetAt
<1>13. a = open[Len(open) - 1] BY <1>4 DEF Parent
<1>14. \A j \in 1 .. n : Unmoved(blocks[j], blocks[j]) BY DEF Unmoved
<1>15. CASE blocks[c].set
  <2>1. phase' = "error" \/ (phase' = "parse" /\ blocks' = cs /\ mrg.ok) BY <1>1, <1>12, <1>15 DEF Put
  <2>2. CASE phase' = "error" BY <2>2 DEF TInv
  <2>3. CASE phase' = "parse" /\ blocks' = cs /\ mrg.ok
    <3>1. InBranch(t, c) BY <1>9, <1>15 DEF InBranch
    <3>2. Onto(t, n, blocks, blocks) BY <1>5, <1>8, OntoSame
    <3>3. \A j \in 1 .. n : /\ Unmoved(blocks[j], blocks[j]) /\ blocks[j].rlimits = blocks[j].rlimits
                            /\ Len(blocks[j].files) = Len(blocks[j].files)
      BY <1>14
    <3>4. /\ cs \in Sized(n) /\ \A j \in 1 .. n : Unmoved(blocks[j], cs[j])
          /\ LimitsHeld(t, Front(open), stmts, cs, n) /\ EntriesRight(t, n, stmts, cs)
          /\ OnlyWritten(Front(open), stmts, cs) /\ NamesDone(t, Front(open), stmts, cs)
      BY <1>1, <1>5, <1>7, <1>10, <1>11, <1>13, <2>3, <3>1, <3>2, <3>3, MergedFine
    <3> QED BY <1>1, <1>2, <1>6, <2>3, <3>4, ClosedT
  <2> QED BY <2>1, <2>2, <2>3
<1>16. CASE ~blocks[c].set
  <2>1. ~InBranch(t, c) BY <1>9, <1>16 DEF InBranch
  <2>2. /\ History(t, n, stmts) /\ IsOpen(t, n, open, c) /\ LimitsHeld(t, open, stmts, blocks, n)
        /\ EntriesRight(t, n, stmts, blocks) /\ OnlyWritten(open, stmts, blocks) /\ NamesDone(t, open, stmts, blocks)
    BY <1>7 DEF Fine
  <2>3. LimitsHeld(t, Front(open), stmts, blocks, n) BY <1>1, <1>8, <2>1, <2>2, LimitsLeft
  <2>4. OnlyWritten(Front(open), stmts, blocks) /\ NamesDone(t, Front(open), stmts, blocks)
    BY <1>1, <1>8, <1>9, <2>2, ClosedEntries
  <2>5. phase' = "parse" /\ blocks' = blocks BY <1>1, <1>12, <1>16
  <2> QED BY <1>1, <1>2, <1>5, <1>6, <1>14, <2>2, <2>3, <2>4, <2>5, ClosedT
<1> QED BY <1>15, <1>16

LEMMA CloseHatT == ASSUME BInv, BInv', TInv, CloseHat PROVE TInv'
<1>1. phase = "parse" /\ Len(open) > 1 /\ Closed /\ blocks[Cur].kind = "hat" BY DEF CloseHat
<1>2. PICK n : n = Len(blocks) OBVIOUS
<1>3. PICK c : c = Cur OBVIOUS
<1>4. n \in Nat /\ blocks \in Sized(n) /\ c \in 1 .. n BY <1>2, <1>3, Opened
<1>5. PICK t : t = Tree(blocks) OBVIOUS
<1>6. Fine(blocks, t, n, open, c, stmts) BY <1>1, <1>2, <1>3, <1>5 DEF TInv
<1>7. /\ Rooted(t, n) /\ History(t, n, stmts) /\ IsOpen(t, n, open, c) /\ LimitsHeld(t, open, stmts, blocks, n)
      /\ EntriesRight(t, n, stmts, blocks) /\ OnlyWritten(open, stmts, blocks) /\ NamesDone(t, open, stmts, blocks)
  BY <1>6 DEF Fine
<1>8. t[c].kind = "hat" BY <1>1, <1>3, <1>4, <1>5, TreeAt
<1>9. PICK r : r = PostParse(blocks, c) OBVIOUS
<1>10. PICK W : W = {j \in 1 .. n : Reached(t, c, j)} OBVIOUS
<1>11. r \in Parsing(n) /\ After(t, n, W, c, blocks, r.bs) /\ (r.ok => \A j \in W : Done(r.bs, j))
  BY <1>4, <1>5, <1>7, <1>8, <1>9, <1>10, PostParseIs
<1>12. PICK cs : cs = r.bs OBVIOUS
<1>13. cs \in Sized(n) /\ After(t, n, W, c, blocks, cs) BY <1>4, <1>11, <1>12, ParsingIs
<1>14. Put(r.bs, r) BY <1>3, <1>9 DEF CloseHat
<1>15. phase' = "error" \/ (phase' = "parse" /\ blocks' = cs /\ r.ok) BY <1>1, <1>12, <1>14 DEF Put
<1>16. CASE phase' = "error" BY <1>16 DEF TInv
<1>17. CASE phase' = "parse" /\ blocks' = cs /\ r.ok
  <2>1. \A j \in 1 .. n : Unmoved(blocks[j], cs[j]) /\ cs[j].rlimits = blocks[j].rlimits BY <1>13 DEF After, Renamed
  <2>2. Range(open) = Range(Front(open)) \union {c} /\ c \notin Range(Front(open)) BY <1>1, <1>7, FrontIs
  <2>3. ~InBranch(t, c) BY <1>8 DEF InBranch
  <2>4. LimitsHeld(t, Front(open), stmts, cs, n) BY <1>1, <1>7, <2>1, <2>3, LimitsLeft
  <2>5. EntriesRight(t, n, stmts, cs) /\ NamesDone(t, Front(open), stmts, cs)
    <3>1. \A i \in Range(open) : i = c \/ i \in Range(Front(open)) BY <2>2
    <3>2. t[c].kind \in {"main", "hat"} /\ \A j \in W : Done(cs, j) BY <1>8, <1>11, <1>12, <1>17
    <3> QED BY <1>4, <1>7, <1>10, <1>13, <3>1, <3>2, EndedNames
  <2>6. OnlyWritten(Front(open), stmts, cs)
    <3>1. ASSUME NEW i \in Range(Front(open)) PROVE Cardinality(FilesUpTo(stmts, i, Len(stmts))) = Len(cs[i].files)
      <4>1. i \in Range(open) /\ i # c BY <2>2
      <4>2. i \in 1 .. n
        <5>1. open \in Seq(1 .. n) BY <1>7, OpenIs
        <5> QED BY <4>1, <5>1, RangeIn
      <4>3. Len(cs[i].files) = Len(blocks[i].files) BY <1>13, <4>1, <4>2 DEF After
      <4> QED BY <1>7, <4>1, <4>3 DEF OnlyWritten
    <3> QED BY <3>1 DEF OnlyWritten
  <2> QED BY <1>1, <1>2, <1>5, <1>13, <1>17, <2>1, <2>4, <2>5, <2>6, ClosedT
<1> QED BY <1>15, <1>16, <1>17

LEMMA EndProfileT == ASSUME BInv, BInv', TInv, EndProfile PROVE TInv'
<1>1. phase = "parse" /\ open = <<1>> /\ stmts' = stmts BY DEF EndProfile
<1>2. PICK n : n = Len(blocks) OBVIOUS
<1>3. n \in Nat /\ blocks \in Sized(n) BY <1>2, Opened
<1>4. PICK t : t = Tree(blocks) OBVIOUS
<1>5. Fine(blocks, t, n, open, Cur, stmts) BY <1>1, <1>2, <1>4 DEF TInv
<1>6. /\ Rooted(t, n) /\ History(t, n, stmts) /\ LimitsHeld(t, open, stmts, blocks, n)
      /\ EntriesRight(t, n, stmts, blocks) /\ NamesDone(t, open, stmts, blocks)
  BY <1>5 DEF Fine
<1>7. 1 \in 1 .. n /\ t[1].kind \in {"main", "hat"} BY <1>6 DEF Rooted
<1>8. PICK r : r = PostParse(blocks, 1) OBVIOUS
<1>9. PICK W : W = {j \in 1 .. n : Reached(t, 1, j)} OBVIOUS
<1>10. r \in Parsing(n) /\ After(t, n, W, 1, blocks, r.bs) /\ (r.ok => \A j \in W : Done(r.bs, j))
  BY <1>3, <1>4, <1>6, <1>7, <1>8, <1>9, PostParseIs
<1>11. PICK cs : cs = r.bs OBVIOUS
<1>12. cs \in Sized(n) /\ After(t, n, W, 1, blocks, cs) BY <1>3, <1>10, <1>11, ParsingIs
<1>13. phase' = "error" \/ (phase' = "implied" /\ blocks' = cs /\ r.ok) BY <1>8, <1>11 DEF EndProfile
<1>14. CASE phase' = "error" BY <1>14 DEF TInv
<1>15. CASE phase' = "implied" /\ blocks' = cs /\ r.ok
  <2>1. \A j \in 1 .. n : Unmoved(blocks[j], cs[j]) /\ cs[j].rlimits = blocks[j].rlimits BY <1>12 DEF After, Renamed
  <2>2. Tree(cs) = t BY <1>3, <1>4, <1>12, <2>1, UnmovedTree
  <2>3. LimitsHeld(t, <<1>>, stmts, cs, n) BY <1>1, <1>6, <2>1 DEF LimitsHeld
  <2>4. EntriesRight(t, n, stmts, cs) /\ NamesDone(t, <<>>, stmts, cs)
    <3>1. \A i \in Range(open) : i = 1 \/ i \in Range(<<>>) BY <1>1 DEF Range
    <3>2. \A j \in W : Done(cs, j) BY <1>10, <1>11, <1>15
    <3>3. PICK rest : rest = <<>> OBVIOUS
    <3>4. \A i \in Range(open) : i = 1 \/ i \in Range(rest) BY <3>1, <3>3
    <3>5. EntriesRight(t, n, stmts, cs) /\ NamesDone(t, rest, stmts, cs)
      BY <1>3, <1>6, <1>7, <1>9, <1>12, <3>2, <3>4, EndedNames
    <3> QED BY <3>3, <3>5
  <2>5. Final(cs, t, n, stmts) BY <1>6, <2>3, <2>4 DEF Final
  <2>6. Len(cs) = n BY <1>3, <1>12, SizedIs
  <2>7. Final(blocks', Tree(blocks'), Len(blocks'), stmts') BY <1>1, <1>15, <2>2, <2>5, <2>6
  <2> QED BY <1>15, <2>7 DEF TInv
<1> QED BY <1>13, <1>14, <1>15

LEMMA InitT == Init => TInv
<1> SUFFICES ASSUME Init PROVE TInv OBVIOUS
<1>1. PICK b : b = NewBlock(<<1>>, "main", TRUE) OBVIOUS
<1>2. blocks = <<b>> /\ open = <<1>> /\ phase = "parse" /\ stmts = <<>> BY <1>1 DEF Init
<1>3. b.path = <<1>> /\ b.kind = "main" /\ b.files = <<>> /\ b.rlimits = NoLimits BY <1>1 DEF NewBlock
<1>4. PICK t : t = Tree(blocks) OBVIOUS
<1>5. Len(blocks) = 1 /\ blocks[1] = b BY <1>2
<1>6. t[1].path = <<1>> /\ t[1].kind = "main" BY <1>3, <1>4, <1>5 DEF Tree
<1>7. PICK p : p = t[1].path OBVIOUS
<1>8. p = <<1>> /\ p \in Seq(1 .. 1) /\ Len(p) = 1 /\ p[1] = 1 BY <1>6, <1>7
<1>9. Rooted(t, 1)
  <2>1. p # <<>> /\ p[Len(p)] = 1 BY <1>8
  <2>2. \A k \in 1 .. Len(p) : Len(t[p[k]].path) = k /\ \A m \in 1 .. k : t[p[k]].path[m] = p[m]
    <3>1. TAKE k \in 1 .. Len(p)
    <3>2. k \in 1 .. 1 BY <1>8
    <3>3. k = 1 BY <3>2
    <3>4. p[k] = 1 BY <1>8, <3>3
    <3>5. t[p[k]].path = p BY <1>7, <3>4
    <3>6. Len(t[p[k]].path) = k BY <1>8, <3>3, <3>5
    <3> QED BY <3>5, <3>6
  <2>3. Pathed(t, 1, 1) BY <1>7, <1>8, <2>1, <2>2, Zenon DEF Pathed
  <2> QED BY <1>6, <2>3 DEF Rooted
<1>10. PICK ss : ss = <<>> OBVIOUS
<1>11. ss \in Seq(StmtRecs) /\ DOMAIN ss = {} /\ Len(ss) = 0 BY <1>10
<1>12. History(t, 1, ss) BY <1>11 DEF History
<1>13. IsOpen(t, 1, open, 1) /\ Cur = 1 BY <1>2, <1>6 DEF IsOpen, Cur
<1>14. LimitsHeld(t, open, ss, blocks, 1)
  <2>1. ASSUME NEW i \in 1 .. 1, NEW l \in LimitNames PROVE Holds(ss, blocks[i].rlimits, l, LimitsOf(t, open, ss, i, l))
    <3>1. PICK ms : ms = LimitsOf(t, open, ss, i, l) OBVIOUS
    <3>2. ms = {} BY <1>11, <3>1 DEF LimitsOf
    <3>3. blocks[i].rlimits = NoLimits BY <1>3, <1>5
    <3>4. NoLimits.specified = {} /\ NoLimits.limits[l] = 0 BY DEF NoLimits
    <3> QED BY <3>1, <3>2, <3>3, <3>4 DEF Holds
  <2> QED BY <2>1 DEF LimitsHeld
<1>15. \A i : Cardinality(FilesUpTo(ss, i, Len(ss))) = 0 BY <1>11, FilesUpToIs
<1>16. Len(blocks[1].files) = 0 BY <1>3, <1>5
<1>17. EntriesRight(t, 1, ss, blocks)
  <2>1. \A i \in 1 .. 1 : Cardinality(FilesUpTo(ss, i, Len(ss))) <= Len(blocks[i].files) BY <1>15, <1>16
  <2> QED BY <1>11, <2>1 DEF EntriesRight
<1>18. OnlyWritten(open, ss, blocks)
  <2>1. Range(open) = {1} BY <1>2 DEF Range
  <2> QED BY <1>15, <1>16, <2>1 DEF OnlyWritten
<1>19. NamesDone(t, open, ss, blocks) BY <1>11 DEF NamesDone
<1>20. Fine(blocks, t, 1, open, 1, ss) BY <1>9, <1>12, <1>13, <1>14, <1>17, <1>18, <1>19 DEF Fine
<1>21. Fine(blocks, Tree(blocks), Len(blocks), open, Cur, stmts) BY <1>2, <1>4, <1>5, <1>10, <1>13, <1>20
<1> QED BY <1>2, <1>21 DEF TInv

LEMMA NextT == ASSUME BInv, BInv', TInv, [Next]_vars PROVE TInv'
<1>1. ASSUME NEW f \in setup.files, NEW p \in setup.prefixes, FileStmt(f, p) PROVE TInv' BY <1>1, FileT
<1>2. ASSUME NEW p \in setup.prefixes, ChangeProfileStmt(p) PROVE TInv' BY <1>2, ChangeProfileT
<1>3. ASSUME NEW p \in setup.prefixes, RuleStmt("ipc", p) PROVE TInv' BY <1>3, RuleT DEF RuleKinds
<1>4. ASSUME NEW p \in setup.prefixes, RuleStmt("all", p) PROVE TInv' BY <1>4, RuleT DEF RuleKinds
<1>5. ASSUME NEW ty \in AllTypes, NEW p \in setup.prefixes, NetStmt(ty, p) PROVE TInv' BY <1>5, NetT
<1>6. ASSUME NEW c \in AllCaps, NEW p \in setup.prefixes, CapStmt(c, p) PROVE TInv' BY <1>6, CapT
<1>7. ASSUME NEW v \in setup.limits, RlimitStmt(v.l, v.v, v.unit) PROVE TInv' BY <1>7, RlimitT
<1>8. CASE Statement BY <1>1, <1>2, <1>3, <1>4, <1>5, <1>6, <1>7, <1>8 DEF Statement
<1>9. CASE OpenSub BY <1>9, OpenT DEF OpenSub
<1>10. CASE OpenHat BY <1>10, OpenT DEF OpenHat
<1>11. ASSUME NEW val \in BOOLEAN, OpenIf(val) PROVE TInv' BY <1>11, OpenT DEF OpenIf
<1>12. ASSUME NEW val \in BOOLEAN, OpenElse(val) PROVE TInv'
  <2>1. PICK set : set \in BOOLEAN /\ set = (val /\ chain = "no") OBVIOUS
  <2>2. OpenBlock("cond", set) BY <1>12, <2>1 DEF OpenElse
  <2> QED BY <2>1, <2>2, OpenT
<1>13. ASSUME NEW p \in setup.prefixes, CloseBlock(p) PROVE TInv' BY <1>13, CloseBlockT
<1>14. CASE CloseCond BY <1>14, CloseCondT
<1>15. CASE CloseHat BY <1>15, CloseHatT
<1>16. CASE Blocks BY <1>9, <1>10, <1>11, <1>12, <1>13, <1>14, <1>15, <1>16 DEF Blocks
<1>17. CASE EndProfile BY <1>17, EndProfileT
<1>18. CASE AddImpliedRules BY <1>18 DEF AddImpliedRules, TInv
<1>19. CASE MergeRules
  <2>1. phase' \in {"done", "error"} BY <1>19 DEF MergeRules
  <2> QED BY <2>1 DEF TInv
<1>20. CASE UNCHANGED vars
  <2>1. blocks' = blocks /\ open' = open /\ phase' = phase /\ stmts' = stmts /\ Cur' = Cur BY <1>20 DEF vars, Cur
  <2> QED BY <2>1 DEF TInv
<1>21. CASE Finished BY <1>20, <1>21 DEF Finished
<1> QED BY <1>8, <1>16, <1>17, <1>18, <1>19, <1>20, <1>21 DEF Next

(***************************************************************************)
(* What the properties call the root, the rule and the name of a statement *)
(***************************************************************************)
LEMMA RootsAre ==
    ASSUME NEW n, n = Len(blocks), n \in Nat, blocks \in Sized(n), NEW t, t = Tree(blocks), NEW r \in Range(Roots)
    PROVE  r \in 1 .. n /\ t[r].kind \in {"main", "hat"}
<1>1. PICK S : S = {i \in DOMAIN blocks : blocks[i].kind \in {"main", "hat"}} OBVIOUS
<1>2. Roots = InOrder(S, n) BY <1>1 DEF Roots
<1>3. r \in S /\ r \in 1 .. n BY <1>2, InOrderRange
<1>4. blocks[r].kind \in {"main", "hat"} BY <1>1, <1>3
<1> QED BY <1>3, <1>4, TreeAt
LEMMA StmtIs ==
    ASSUME NEW n, n = Len(blocks), n \in Nat, blocks \in Sized(n), NEW t, t = Tree(blocks), Rooted(t, n), History(t, n, stmts),
           NEW m \in DOMAIN stmts, NEW h, h = HomeOf(stmts[m])
    PROVE  /\ h \in 1 .. n /\ Home(m) = h /\ Root(Home(m)) = RootOf(t, h) /\ stmts[m].path = t[h].path
           /\ Effective(stmts[m]) <=> Reached(t, RootOf(t, h), h)
<1>1. m \in 1 .. Len(stmts) BY StmtsIs
<1>2. h \in 1 .. n /\ stmts[m].path = t[h].path BY <1>1, StmtsIs
<1>3. Home(m) = h BY DEF Home, HomeOf, Last
<1>4. Root(Home(m)) = RootOf(t, h) BY <1>2, <1>3, RootAgrees
<1>5. Effective(stmts[m]) <=> Reached(t, RootOf(t, h), h) BY <1>2, EffectiveIs
<1> QED BY <1>2, <1>3, <1>4, <1>5
LEMMA CountedAll ==
    ASSUME NEW t, NEW n, Rooted(t, n), NEW r \in 1 .. n, NEW j \in 1 .. n
    PROVE  Counted(t, <<1>>, r, j) <=> Reached(t, r, j)
<1>1. PICK p : p = t[j].path OBVIOUS
<1>2. /\ Len(p) \in Nat /\ (\A k \in 1 .. Len(p) : p[k] \in 1 .. n /\ Len(t[p[k]].path) = k)
  BY <1>1, PathIs
<1>3. Len(t[r].path) \in Nat /\ Len(t[r].path) > 0 BY PathIs
<1>4. Len(t[1].path) = 1 BY DEF Rooted
<1>5. Range(<<1>>) = {1} BY DEF Range
<1>6. ASSUME NEW m \in Len(t[r].path) + 1 .. Len(p) PROVE p[m] \notin Range(<<1>>)
  <2>1. m \in 1 .. Len(p) /\ m # 1 BY <1>2, <1>3
  <2>2. Len(t[p[m]].path) # 1 BY <1>2, <2>1
  <2>3. p[m] # 1 BY <1>4, <2>2
  <2> QED BY <1>5, <2>3
<1> QED BY <1>1, <1>6 DEF Counted

(* The statements that limit l for the profile or hat r *)
OnLimit(r, l) == {n \in DOMAIN stmts : /\ stmts[n].kind = "rlimit" /\ stmts[n].what.l = l /\ Effective(stmts[n])
                                       /\ Root(Home(n)) = r}
LEMMA OnLimitIs ==
    ASSUME NEW n, n = Len(blocks), n \in Nat, blocks \in Sized(n), NEW t, t = Tree(blocks), Rooted(t, n), History(t, n, stmts),
           NEW r \in 1 .. n, t[r].kind \in {"main", "hat"}, NEW l
    PROVE  OnLimit(r, l) = LimitsOf(t, <<1>>, stmts, r, l)
<1>1. ASSUME NEW m \in DOMAIN stmts
      PROVE  Effective(stmts[m]) /\ Root(Home(m)) = r <=> Counted(t, <<1>>, r, HomeOf(stmts[m]))
  <2>1. PICK h : h = HomeOf(stmts[m]) OBVIOUS
  <2>2. h \in 1 .. n /\ Root(Home(m)) = RootOf(t, h) /\ (Effective(stmts[m]) <=> Reached(t, RootOf(t, h), h)) BY <2>1, StmtIs
  <2>3. Reached(t, r, h) => RootOf(t, h) = r BY <2>2, ReachedRoot
  <2>4. Counted(t, <<1>>, r, h) <=> Reached(t, r, h) BY <2>2, CountedAll
  <2>5. CASE RootOf(t, h) = r BY <2>1, <2>2, <2>4, <2>5
  <2>6. CASE RootOf(t, h) # r BY <2>1, <2>2, <2>3, <2>4, <2>6
  <2> QED BY <2>5, <2>6
<1> QED BY <1>1, Zenon DEF OnLimit, LimitsOf

LEMMA LimitsThere == ASSUME BInv, TInv PROVE LimitsReachProfile
<1> SUFFICES ASSUME phase = "implied", NEW r \in Range(Roots)
             PROVE  /\ blocks[r].rlimits.specified =
                         {l \in {stmts[n].what.l : n \in {m \in DOMAIN stmts : stmts[m].kind = "rlimit"}} : OnLimit(r, l) # {}}
                    /\ \A l \in blocks[r].rlimits.specified : blocks[r].rlimits.limits[l] = stmts[Max(OnLimit(r, l))].what.n
  BY ZenonT(60) DEF LimitsReachProfile, Parsed, OnLimit
<1>1. PICK n : n = Len(blocks) OBVIOUS
<1>2. PICK t : t = Tree(blocks) OBVIOUS
<1>3. n \in Nat /\ blocks \in Sized(n) BY <1>1, Opened
<1>4. Rooted(t, n) /\ History(t, n, stmts) /\ LimitsHeld(t, <<1>>, stmts, blocks, n) BY <1>1, <1>2 DEF TInv, Final
<1>5. r \in 1 .. n /\ t[r].kind \in {"main", "hat"} BY <1>1, <1>2, <1>3, RootsAre
<1>6. PICK lim : lim = blocks[r].rlimits OBVIOUS
<1>7. lim \in Limits BY <1>3, <1>5, <1>6, SizedIs, GoodIs
<1>8. \A l \in LimitNames : Holds(stmts, lim, l, OnLimit(r, l))
  <2>1. TAKE l \in LimitNames
  <2>2. OnLimit(r, l) = LimitsOf(t, <<1>>, stmts, r, l) BY <1>1, <1>2, <1>3, <1>4, <1>5, OnLimitIs
  <2> QED BY <1>4, <1>5, <1>6, <2>2 DEF LimitsHeld
<1>9. PICK ls : ls = {stmts[m].what.l : m \in {k \in DOMAIN stmts : stmts[k].kind = "rlimit"}} OBVIOUS
<1>10. ls \subseteq LimitNames
  <2>1. \A m \in DOMAIN stmts : stmts[m].kind = "rlimit" => stmts[m].what.l \in LimitNames BY <1>4 DEF History
  <2> QED BY <1>9, <2>1
<1>11. \A l \in LimitNames : OnLimit(r, l) # {} => l \in ls BY <1>9 DEF OnLimit
<1>12. lim.specified \subseteq LimitNames BY <1>7 DEF Limits
<1>13. \A l \in LimitNames : l \in lim.specified <=> OnLimit(r, l) # {} BY <1>8 DEF Holds
<1>14. lim.specified = {l \in ls : OnLimit(r, l) # {}} BY <1>10, <1>11, <1>12, <1>13
<1>15. \A l \in lim.specified : lim.limits[l] = stmts[Max(OnLimit(r, l))].what.n BY <1>8, <1>12, <1>13 DEF Holds
<1> QED BY <1>6, <1>9, <1>14, <1>15, Zenon

LEMMA RuleIs ==
    ASSUME NEW n, n = Len(blocks), n \in Nat, blocks \in Sized(n), NEW t, t = Tree(blocks), Rooted(t, n), History(t, n, stmts),
           NEW m \in DOMAIN stmts, IsFile(stmts[m])
    PROVE  RuleOf(m) = EntryOf(blocks, stmts, m)
<1>1. PICK h : h = HomeOf(stmts[m]) OBVIOUS
<1>2. h \in 1 .. n /\ Home(m) = h /\ stmts[m].path = t[h].path BY <1>1, StmtIs
<1>3. m \in 1 .. Len(stmts) /\ Len(stmts) \in Nat BY StmtsIs
<1>4. PICK S : S = {x \in 1 .. m : stmts[x].path = stmts[m].path /\ IsFile(stmts[x])} OBVIOUS
<1>5. S = FilesUpTo(stmts, h, m)
  <2>1. ASSUME NEW x \in 1 .. m PROVE stmts[x].path = stmts[m].path <=> HomeOf(stmts[x]) = h
    <3>1. x \in 1 .. Len(stmts) BY <1>3
    <3>2. stmts[x].path = t[HomeOf(stmts[x])].path BY <3>1, StmtsIs
    <3>3. HomeOf(stmts[x]) = h => stmts[x].path = stmts[m].path BY <1>2, <3>2
    <3>4. stmts[x].path = stmts[m].path => HomeOf(stmts[x]) = h BY <1>1 DEF HomeOf
    <3> QED BY <3>3, <3>4
  <2> QED BY <1>4, <2>1, Zenon DEF FilesUpTo
<1>6. PICK fs : fs = blocks[h].files OBVIOUS
<1>7. RuleOf(m) = fs[Len(fs) - Cardinality(S) + 1] BY <1>2, <1>4, <1>6, Zenon DEF RuleOf
<1>8. EntryOf(blocks, stmts, m) = fs[Len(fs) - Cardinality(FilesUpTo(stmts, h, m)) + 1] BY <1>1, <1>6 DEF EntryOf, RankOf
<1> QED BY <1>5, <1>7, <1>8

(* What TransitionsNamed asks of statement n, whose entry is e and whose     *)
(* profile is root                                                          *)
LeadsRight(n, e, root) ==
  LET local == [ns |-> FALSE, prof |-> ProfName(root), tail |-> stmts[n].what.obj]
      at(i) == IF i = Local THEN local ELSE blocks[root].xtab[i - Local]
  IN  stmts[n].what.nt.prof \in {"", ProfName(root)} /\ Effective(stmts[n]) =>
        /\ "x" \in e.perms => at(e.xu) = FullName(n)
        /\ "ox" \in e.perms => at(e.xo) = FullName(n)

LEMMA LeadsRightIs ==
    ASSUME NEW m, NEW e, NEW root, NEW f, f = stmts[m].what, NEW tab, tab = blocks[root].xtab, FullName(m) = Fulls(root, f),
           Own(root, f) /\ Effective(stmts[m]) =>
             /\ "x" \in e.perms => LeadsTo(tab, root, f, e.xu)
             /\ "ox" \in e.perms => LeadsTo(tab, root, f, e.xo)
    PROVE  LeadsRight(m, e, root)
<1>1. PICK local : local = [ns |-> FALSE, prof |-> ProfName(root), tail |-> f.obj] OBVIOUS
<1>2. ASSUME NEW i, LeadsTo(tab, root, f, i) PROVE (IF i = Local THEN local ELSE tab[i - Local]) = FullName(m)
  BY <1>1, <1>2, Zenon DEF LeadsTo
<1>3. ASSUME Own(root, f) /\ Effective(stmts[m])
      PROVE  /\ "x" \in e.perms => (IF e.xu = Local THEN local ELSE tab[e.xu - Local]) = FullName(m)
             /\ "ox" \in e.perms => (IF e.xo = Local THEN local ELSE tab[e.xo - Local]) = FullName(m)
  BY <1>2, <1>3, Zenon
<1> QED BY <1>1, <1>3, Zenon DEF LeadsRight, Own

LEMMA TransitionsThere == ASSUME BInv, TInv PROVE TransitionsNamed
<1>a. SUFFICES ASSUME phase = "implied", NEW m \in Named PROVE LeadsRight(m, RuleOf(m), Root(Home(m)))
  BY Zenon DEF TransitionsNamed, Parsed, LeadsRight
<1>1. PICK n : n = Len(blocks) OBVIOUS
<1>2. PICK t : t = Tree(blocks) OBVIOUS
<1>3. n \in Nat /\ blocks \in Sized(n) BY <1>1, Opened
<1>4. Rooted(t, n) /\ History(t, n, stmts) /\ EntriesRight(t, n, stmts, blocks) /\ NamesDone(t, <<>>, stmts, blocks)
  BY <1>1, <1>2, <1>a DEF TInv, Final
<1>b. PICK f : f = stmts[m].what OBVIOUS
<1>c. PICK root : root = Root(Home(m)) OBVIOUS
<1>d. PICK e : e = RuleOf(m) OBVIOUS
<1>e. PICK tab : tab = blocks[root].xtab OBVIOUS
<1>5. m \in DOMAIN stmts /\ stmts[m].kind = "file" /\ f.nt # NoName BY <1>b DEF Named
<1>6. PICK h : h = HomeOf(stmts[m]) OBVIOUS
<1>7. h \in 1 .. n /\ root = RootOf(t, h) /\ (Effective(stmts[m]) <=> Reached(t, root, h))
  BY <1>1, <1>2, <1>3, <1>4, <1>5, <1>6, <1>c, StmtIs
<1>8. e = EntryOf(blocks, stmts, m)
  <2>1. IsFile(stmts[m]) BY <1>5 DEF IsFile
  <2> QED BY <1>1, <1>2, <1>3, <1>4, <1>5, <1>d, <2>1, RuleIs
<1>9. FullName(m) = Fulls(root, f) BY <1>b, <1>c DEF FullName, Fulls
<1>10. ASSUME Own(root, f), Effective(stmts[m])
       PROVE  /\ "x" \in e.perms => LeadsTo(tab, root, f, e.xu)
              /\ "ox" \in e.perms => LeadsTo(tab, root, f, e.xo)
  <2>1. Reached(t, root, h) BY <1>7, <1>10
  <2>2. Right(tab, root, f, e) BY <1>4, <1>5, <1>6, <1>7, <1>8, <1>b, <1>e, <2>1 DEF EntriesRight
  <2>3. root \notin Range(<<>>) BY DEF Range
  <2>4. e.nt = NoName BY <1>4, <1>5, <1>6, <1>7, <1>8, <1>b, <2>1, <2>3 DEF NamesDone
  <2>5. NamedRight(tab, root, f, e) BY <1>5, <2>2, <2>4 DEF Right
  <2> QED BY <1>5, <1>10, <2>5, Zenon DEF NamedRight, Own
<1>11. LeadsRight(m, e, root) BY <1>9, <1>10, <1>b, <1>e, LeadsRightIs, Zenon
<1> QED BY <1>11, <1>c, <1>d, Zenon

(* What is kept by number or name for a whole profile, its limits and its   *)
(* named transitions, is what its blocks say wherever they say it           *)
(* (merge_compat_rules, add_named_transition, post_parse_profile_file).     *)
THEOREM ProfileTablesThm == Spec => []ProfileTables
<1>1. Init => BInv /\ TInv BY InitBInv, InitT
<1>2. BInv /\ TInv /\ [Next]_vars => BInv' /\ TInv' BY NextBInv, NextT
<1>3. BInv /\ TInv => ProfileTables BY LimitsThere, TransitionsThere DEF ProfileTables
<1> QED BY <1>1, <1>2, <1>3, PTL DEF Spec
=============================================================================
