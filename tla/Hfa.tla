-------------------------------- MODULE Hfa --------------------------------
(***************************************************************************)
(* The automaton of the pattern compiler: hfa.h and hfa.cc.  A state is    *)
(* the number of its creation.  An automaton d has                         *)
(*   states   the list of states          nodes   the node set of a state  *)
(*   trans    the explicit transitions    other   the otherwise transition *)
(*   perms    the permissions             rel     TRUE if other is the     *)
(*   start, non   the start and the           state it is encoded against  *)
(*                nonmatching state       err     the construction threw   *)
(***************************************************************************)
EXTENDS ExprTree, MatchPerms

UpperBound == Cardinality(Chars)      \* 256 in the code

Dfa0 == [states |-> <<>>, nodes |-> <<>>, trans |-> <<>>, other |-> <<>>, perms |-> <<>>,
         rel |-> <<>>, start |-> 0, non |-> 0, queue |-> <<>>, oobRange |-> 0, err |-> FALSE]

NoTrans == [c \in {} |-> 0]
Put(f, c, v) == [x \in DOMAIN f \union {c} |-> IF x = c THEN v ELSE f[x]]
Drop(f, S) == [x \in DOMAIN f \ S |-> f[x]]

FlagsOf(nodes) == {p.leaf.flag : p \in {q \in nodes : q.leaf.t = "matchflag"}}
(* A set of accept nodes is visited by address; addr lists the flags by it. *)
ByAddress(flags, addr) == SelectSeq(addr, LAMBDA f : f \in flags)

(***************************************************************************)
(* Subset construction                                                     *)
(***************************************************************************)
(* add_new_state: the state of a node set, made and queued when it is new.  *)
NewState(d, nodes, acc) ==
  LET n == Len(d.nodes) + 1
  IN  IF acc.err THEN [d EXCEPT !.err = TRUE]
      ELSE [d EXCEPT !.states = Append(@, n), !.nodes = Append(@, nodes), !.queue = Append(@, n),
                     !.trans = Append(@, NoTrans), !.rel = Append(@, FALSE),
                     !.perms = Append(@, acc.perms),
                     !.other = Append(@, IF d.non = 0 THEN n ELSE d.non)]
AddNewState(d, nodes, addr, file) ==
  IF \E i \in DOMAIN d.nodes : d.nodes[i] = nodes THEN d
  ELSE NewState(d, nodes, AcceptPerms(ByAddress(FlagsOf(nodes), addr), file))
StateOf(d, nodes) == CHOOSE i \in DOMAIN d.nodes : d.nodes[i] = nodes

(* The constructor up to its work queue: the start state is queued twice.   *)
WithStart(d, first) ==
  IF d.err THEN d ELSE [d EXCEPT !.start = StateOf(d, first), !.queue = Append(@, StateOf(d, first))]
StartFrom(first, addr, file) ==
  WithStart(AddNewState([AddNewState(Dfa0, {}, addr, file) EXCEPT !.non = 1], first, addr, file), first)
NewDfa(root, addr, file) == StartFrom(ComputePos(root, <<>>).first, addr, file)

NoCases == [cases |-> NoTrans, has |-> FALSE, other |-> {}]

(* Mutant: explicit characters do not copy what otherwise holds. *)
Follow_explicit(k, leaf, fp) ==
  IF leaf.t \in {"char", "charset"}
  THEN [k EXCEPT !.cases = [c \in DOMAIN @ \union leaf.set |->
                              (IF c \in DOMAIN @ THEN @[c] ELSE {}) \union (IF c \in leaf.set THEN fp ELSE {})]]
  ELSE [k EXCEPT !.has = TRUE, !.other = @ \union fp]

(* ImportantNode::follow: explicit characters copy what otherwise holds so  *)
(* far; [^...] and . never match an out of band character.                  *)
Follow(k, leaf, fp) ==
  LET old(c) == IF c \in DOMAIN k.cases THEN k.cases[c]
                ELSE IF k.has /\ c >= 0 THEN k.other ELSE {}
      dom == DOMAIN k.cases \union leaf.set
      copied(c) == IF c \in DOMAIN k.cases THEN k.cases[c] ELSE k.other
  IN  IF leaf.t \in {"char", "charset"}
      THEN [k EXCEPT !.cases = [c \in dom |-> IF c \in leaf.set THEN old(c) \union fp ELSE @[c]]]
      ELSE [cases |-> [c \in dom |-> IF c >= 0 /\ c \notin leaf.set
                                     THEN copied(c) \union fp ELSE copied(c)],
            has |-> TRUE, other |-> k.other \union fp]

CasesOf(nodes, follow) ==
  FoldSet(LAMBDA p, k : Follow(k, p.leaf, {e[2] : e \in {f \in follow : f[1] = p}}), NoCases,
          {p \in nodes : p.leaf.t # "matchflag"})

(* update_state_transitions: states for the otherwise set, then for every   *)
(* character in order; a transition that otherwise covers is left out.      *)
AddStates(d, k, addr, file) ==
  FoldLeft(LAMBDA e, nodes : IF e.err THEN e ELSE AddNewState(e, nodes, addr, file), d,
           (IF k.has THEN <<k.other>> ELSE <<>>)
             \o [i \in 1 .. Cardinality(DOMAIN k.cases) |-> k.cases[Sorted(DOMAIN k.cases)[i]]])
SetTransitions(d1, s, k) ==
  LET other == IF k.has THEN StateOf(d1, k.other) ELSE d1.non
      kept == {c \in DOMAIN k.cases : StateOf(d1, k.cases[c]) # other}
  IN  IF d1.err THEN d1
      ELSE [d1 EXCEPT !.other[s] = other, !.trans[s] = [c \in kept |-> StateOf(d1, k.cases[c])],
                      !.oobRange = IF OOB \in kept THEN 1 ELSE @]

UpdateWith(d, s, k, addr, file) == SetTransitions(AddStates(d, k, addr, file), s, k)
UpdateStateTransitions(d, s, follow, addr, file) == UpdateWith(d, s, CasesOf(d.nodes[s], follow), addr, file)

ProcessWorkQueue(d, follow, addr, file) ==
  UpdateStateTransitions([d EXCEPT !.queue = Tail(@)], Head(d.queue), follow, addr, file)

(***************************************************************************)
(* State::next: an encoded state passes what it lacks to the state it is   *)
(* relative to.  An out of band character has no otherwise transition.     *)
(***************************************************************************)
RECURSIVE Next_(_, _, _)
Next_(d, s, c) == IF c \in DOMAIN d.trans[s] THEN d.trans[s][c]
                  ELSE IF d.rel[s] THEN Next_(d, d.other[s], c) ELSE d.other[s]
RECURSIVE HasTrans(_, _, _)
HasTrans(d, s, c) == c \in DOMAIN d.trans[s] \/ (d.rel[s] /\ HasTrans(d, d.other[s], c))
Step(d, s, c) == IF c = OOB /\ ~HasTrans(d, s, c) THEN d.non ELSE Next_(d, s, c)
Match(d, w) == FoldLeft(LAMBDA s, c : Step(d, s, c), d.start, w)

DfaApplyAndClearDeny(d) ==
  [d EXCEPT !.perms = [s \in DOMAIN @ |-> ApplyAndClearDeny(@[s])]]

(***************************************************************************)
(* Minimisation.  parts is the list of partitions, each a list of states   *)
(* whose first is the representative.                                      *)
(***************************************************************************)
PartOf(parts, s) == CHOOSE i \in DOMAIN parts : \E j \in DOMAIN parts[i] : parts[i][j] = s
RepOf(parts, s) == parts[PartOf(parts, s)][1]

InitialPartitions(d) ==
  FoldLeft(LAMBDA ps, s :
             LET same == {i \in DOMAIN ps : ps[i][1] # d.start /\ d.perms[ps[i][1]] = d.perms[s]}
             IN  IF s = d.start \/ same = {} THEN Append(ps, <<s>>)
                 ELSE [ps EXCEPT ![Min(same)] = Append(@, s)],
           <<>>, d.states)

SameMappings(d, parts, s1, s2) ==
  LET to(s, c) == PartOf(parts, IF c \in DOMAIN d.trans[s] THEN d.trans[s][c] ELSE d.other[s])
  IN  /\ PartOf(parts, d.other[s1]) = PartOf(parts, d.other[s2])
      /\ \A c \in DOMAIN d.trans[s1] \union DOMAIN d.trans[s2] : to(s1, c) = to(s2, c)

(* One partition of the list: the states that do not map as its first does *)
(* move to a new partition, which comes next in the list.                   *)
SplitAt(d, parts, i) ==
  LET rep == parts[i][1]
      stay == SelectSeq(parts[i], LAMBDA s : s = rep \/ SameMappings(d, parts, rep, s))
      move == SelectSeq(parts[i], LAMBDA s : s # rep /\ ~SameMappings(d, parts, rep, s))
  IN  IF move = <<>> THEN parts
      ELSE SubSeq(parts, 1, i - 1) \o <<stay, move>> \o SubSeq(parts, i + 1, Len(parts))

RECURSIVE SplitPass(_, _, _)
SplitPass(d, parts, i) ==
  IF i > Len(parts) THEN parts ELSE SplitPass(d, SplitAt(d, parts, i), i + 1)
RECURSIVE SplitAll(_, _)
SplitAll(d, parts) == LET p == SplitPass(d, parts, 1)
                      IN  IF Len(p) = Len(parts) THEN p ELSE SplitAll(d, p)

(* The representatives' transitions go to representatives, those that      *)
(* otherwise now covers disappear, and the other states are removed.        *)
Remap(d, parts) ==
  LET rep(s) == RepOf(parts, s)
      reps == {parts[i][1] : i \in DOMAIN parts}
      kept(s) == {c \in DOMAIN d.trans[s] : rep(d.trans[s][c]) # rep(d.other[s])}
  IN  [d EXCEPT !.states = SelectSeq(@, LAMBDA s : s \in reps),
                !.other = [s \in DOMAIN @ |-> IF s \in reps THEN rep(@[s]) ELSE @[s]],
                !.trans = [s \in DOMAIN @ |-> IF s \in reps
                                              THEN [c \in kept(s) |-> rep(@[s][c])] ELSE @[s]],
                !.non = rep(@), !.start = rep(@)]

Minimize(d) == LET parts == SplitAll(d, InitialPartitions(d))
               IN  IF Len(parts) = Len(d.states) THEN d ELSE Remap(d, parts)

RECURSIVE Reach(_, _)
Reach(d, S) == LET T == S \union UNION {{d.other[s]} \union {d.trans[s][c] : c \in DOMAIN d.trans[s]} : s \in S}
               IN  IF T = S THEN S ELSE Reach(d, T)
RemoveUnreachable(d) ==
  LET r == Reach(d, {d.start}) \union {d.non}
  IN  [d EXCEPT !.states = SelectSeq(@, LAMBDA s : s \in r)]

(***************************************************************************)
(* Equivalence classes of characters (-O equiv).  k.cls maps a character   *)
(* to its class, a character without one is in class 0.                    *)
(***************************************************************************)
SplitClass(k, cl, set) ==
  IF \E c \in DOMAIN k.cls : k.cls[c] = cl /\ c \notin set
  THEN [cls |-> [c \in DOMAIN k.cls |-> IF c \in set THEN k.next ELSE k.cls[c]], next |-> k.next + 1]
  ELSE k
ClassesOfEdge(k, chars) ==
  LET fresh == chars \ DOMAIN k.cls
      k1 == [cls |-> [c \in DOMAIN k.cls \union fresh |-> IF c \in fresh THEN k.next ELSE k.cls[c]],
             next |-> IF fresh = {} THEN k.next ELSE k.next + 1]
      inClass(cl) == {c \in chars : k1.cls[c] = cl}
  IN  FoldLeft(LAMBDA e, cl : SplitClass(e, cl, inClass(cl)), k1, Sorted({k1.cls[c] : c \in chars}))
EquivalenceClasses(d) ==
  LET edges(s) == LET to == {d.trans[s][c] : c \in DOMAIN d.trans[s] \ {OOB}}
                  IN  [i \in 1 .. Cardinality(to) |->
                         {c \in DOMAIN d.trans[s] \ {OOB} : d.trans[s][c] = Sorted(to)[i]}]
      all == FlattenSeq([i \in DOMAIN d.states |-> edges(d.states[i])])
  IN  FoldLeft(ClassesOfEdge, [cls |-> NoTrans, next |-> 1], all).cls

ClassOf(eq, c) == IF c \in DOMAIN eq THEN eq[c] ELSE IF c = OOB \/ DOMAIN eq = {} THEN c ELSE 0

(* The table is rewritten to classes; out of band transitions are dropped.  *)
ApplyEquivalenceClasses(d, eq) ==
  LET in(s) == DOMAIN d.trans[s] \ {OOB}
      ofClass(s, cl) == Min({c \in in(s) : eq[c] = cl})
  IN  [d EXCEPT !.trans = [s \in DOMAIN @ |->
         IF s \in Range(d.states)
         THEN [cl \in {eq[c] : c \in in(s)} |-> @[s][ofClass(s, cl)]] ELSE @[s]]]

(***************************************************************************)
(* Differential encoding.  g is the DAG: the order of the states in it,    *)
(* their depth and the parents that are less deep.                         *)
(***************************************************************************)
AddToDag(g, s, parent) ==
  LET isnew == s \notin Range(g.order)
      g1 == IF isnew THEN [g EXCEPT !.order = Append(@, s),
                                    !.depth[s] = IF parent = 0 THEN 1 ELSE g.depth[parent] + 1]
            ELSE g
  IN  IF parent # 0 /\ g1.depth[parent] < g1.depth[s]
      THEN [g1 EXCEPT !.parents[s] = Append(@, parent)] ELSE g1

(* the children of a state in the order of the walk: otherwise, then trans  *)
Children(d, s) == <<d.other[s]>> \o [i \in 1 .. Cardinality(DOMAIN d.trans[s]) |->
                                       d.trans[s][Sorted(DOMAIN d.trans[s])[i]]]
RECURSIVE DagWalk(_, _, _)
DagWalk(d, g, i) ==
  IF i > Len(g.order) THEN g
  ELSE DagWalk(d, FoldLeft(LAMBDA h, c : AddToDag(h, c, g.order[i]), g, Children(d, g.order[i])), i + 1)
Dag(d) ==
  LET g0 == [order |-> <<>>, depth |-> [s \in DOMAIN d.nodes |-> 0],
             parents |-> [s \in DOMAIN d.nodes |-> <<>>], rel |-> [s \in DOMAIN d.nodes |-> 0]]
  IN  DagWalk(d, AddToDag(AddToDag(g0, d.non, 0), d.start, 0), 2)

MaxRange(d) == UpperBound + d.oobRange

(* How many transitions s saves when it is encoded against r; 0 when r may *)
(* not be used.  (r is not encoded yet when the weights are computed.)      *)
DiffWeight(d, g, s, r) ==
  LET ts == d.trans[s]  tr == d.trans[r]
      basis == IF g.rel[r] # 0 THEN g.rel[r] ELSE r
      saved == {c \in DOMAIN tr \intersect DOMAIN ts : tr[c] = ts[c]}
      masked == {c \in DOMAIN tr \ DOMAIN ts : tr[c] # d.other[s]}
      only == DOMAIN ts \ DOMAIN tr
      default == {c \in only : ts[c] = d.other[r]}
  IN  IF s = r \/ g.depth[basis] >= g.depth[s] THEN 0
      ELSE Cardinality(saved) - Cardinality(masked) + Cardinality(default)
             - (IF d.other[r] = d.other[s] THEN 0
                ELSE MaxRange(d) - Cardinality(DOMAIN tr) - Cardinality(only))

(* diff_partition over the parents of one target; the first best one wins.  *)
DiffPartition(d, g, s, best, part) ==
  FoldLeft(LAMBDA b, r : IF r # s /\ DiffWeight(d, g, s, r) > b.weight
                         THEN [weight |-> DiffWeight(d, g, s, r), rel |-> r] ELSE b,
           best, part)
BestRel(d, g, s) ==
  FoldLeft(LAMBDA b, c : LET p == DiffPartition(d, g, s, [weight |-> 0, rel |-> 0], g.parents[c])
                         IN  IF p.weight > b.weight THEN p ELSE b,
           [weight |-> 0, rel |-> 0], Children(d, s))

(* The candidates for every state but the first two of the DAG.             *)
ChooseRels(d, g) ==
  FoldLeft(LAMBDA r, s : LET b == BestRel(d, r.g, s)
                         IN  [g |-> [r.g EXCEPT !.rel[s] = b.rel], weight |-> r.weight + b.weight],
           [g |-> g, weight |-> 0], SubSeq(g.order, 3, Len(g.order)))

(* make_relative: drop what the base has too, mask what it adds.            *)
MakeRelative(d, s, r) ==
  LET first == IF OOB \in DOMAIN d.trans[r] THEN {OOB} ELSE {}
      scanned == first \union (0 .. UpperBound - 1)
      same == {c \in scanned \intersect DOMAIN d.trans[s] : d.trans[s][c] = Next_(d, r, c)}
      mask == {c \in scanned \ DOMAIN d.trans[s] : Next_(d, r, c) # d.other[s]}
  IN  [d |-> [d EXCEPT !.rel[s] = TRUE, !.other[s] = r,
                       !.trans[s] = [c \in (DOMAIN @ \ same) \union mask |->
                                       IF c \in mask THEN d.other[s] ELSE @[c]]],
       weight |-> Cardinality(same) - Cardinality(mask)]

(* The states are encoded from the back of the DAG.                         *)
DiffEncode(d) ==
  LET x == ChooseRels(d, Dag(d))
      todo == SelectSeq(Reverse(x.g.order), LAMBDA s : x.g.rel[s] # 0)
      y == FoldLeft(LAMBDA a, s : LET m == MakeRelative(a.d, s, x.g.rel[s])
                                  IN  [d |-> m.d, weight |-> a.weight + m.weight],
                    [d |-> d, weight |-> 0], todo)
  IN  [d |-> y.d, expected |-> x.weight, saved |-> y.weight, count |-> Len(todo)]
=============================================================================
