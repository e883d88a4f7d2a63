------------------------------ MODULE ExprTree ------------------------------
(***************************************************************************)
(* Expression trees of the pattern compiler: expr-tree.h and expr-tree.cc. *)
(* A tree is a value instead of a set of pointers; the nodes that the code *)
(* keeps unique by address (the accept nodes, the shared tail) are unique  *)
(* by their contents here, as UniquePermsCache makes them.                 *)
(*                                                                         *)
(* dir = 0 works from the left and dir = 1 from the right, as in the code. *)
(***************************************************************************)
EXTENDS Integers, Sequences, SequencesExt, FiniteSetsExt

CONSTANT Chars            \* the input characters, 0 among them
OOB == -1                 \* the only out of band character in use

NoFlag == [pri |-> 0, mode |-> "none", perms |-> {}, audit |-> {}]
Nd(t, set, kids, flag) == [t |-> t, set |-> set, kids |-> kids, flag |-> flag]
Eps == Nd("eps", {}, <<>>, NoFlag)
CharNode(c) == Nd("char", {c}, <<>>, NoFlag)
CharSetNode(S) == Nd("charset", S, <<>>, NoFlag)
NotCharSetNode(S) == Nd("notcharset", S, <<>>, NoFlag)
AnyChar == Nd("anychar", {}, <<>>, NoFlag)
Star(n) == Nd("star", {}, <<n>>, NoFlag)
Optional(n) == Nd("optional", {}, <<n>>, NoFlag)
Plus(n) == Nd("plus", {}, <<n>>, NoFlag)
AltN(s) == Nd("alt", {}, s, NoFlag)
CatN(s) == Nd("cat", {}, s, NoFlag)
Alt(l, r) == AltN(<<l, r>>)
Cat(l, r) == CatN(<<l, r>>)
SharedTree(n) == Nd("sharedtree", {}, <<n>>, NoFlag)
MatchFlag(f) == Nd("matchflag", {}, <<>>, f)

Is(n, types) == n.t \in types
(* The sequence of op(e) for the elements e of s; the concatenation makes   *)
(* TLC compute it once.                                                     *)
Each(op(_), s) == [i \in DOMAIN s |-> op(s[i])] \o <<>>
NChild == {"cat", "alt"}
OneChild == {"star", "optional", "plus", "sharedtree"}

(* The order of node_type_t, highest bit first: cat after all others. *)
TypeOrder == <<"eps", "char", "charset", "notcharset", "anychar", "star",
               "optional", "plus", "alt", "matchflag", "sharedtree", "cat">>
TypeRank(n) == CHOOSE i \in DOMAIN TypeOrder : TypeOrder[i] = n.t

Sgn(i) == IF i < 0 THEN -1 ELSE IF i > 0 THEN 1 ELSE 0
FirstDiff(s) == IF \E i \in DOMAIN s : s[i] # 0
                THEN s[CHOOSE i \in DOMAIN s : s[i] # 0 /\ \A j \in 1 .. i - 1 : s[j] = 0]
                ELSE 0
Sorted(S) == SetToSortSeq(S, LAMBDA a, b : a < b)

(* CharSetNode::cmp and NotCharSetNode::cmp: the size, then the characters. *)
CharsCmp(A, B) ==
  LET a == Sorted(A)  b == Sorted(B)
  IN  IF Len(a) # Len(b) THEN Sgn(Len(a) - Len(b))
      ELSE FirstDiff([i \in DOMAIN a |-> Sgn(a[i] - b[i])])

(* Node::cmp: the type, then the contents.  eq is cmp = 0. *)
RECURSIVE Cmp(_, _)
Cmp(a, b) ==
  IF a.t # b.t THEN Sgn(TypeRank(a) - TypeRank(b))
  ELSE IF Is(a, {"char", "charset", "notcharset"}) THEN CharsCmp(a.set, b.set)
  ELSE IF Len(a.kids) # Len(b.kids) THEN Sgn(Len(a.kids) - Len(b.kids))
  ELSE FirstDiff([i \in DOMAIN a.kids |-> Cmp(a.kids[i], b.kids[i])])
Eq(a, b) == Cmp(a, b) = 0

IsExact(n) == ~Is(n, {"star", "plus", "anychar", "notcharset"})

(* The whole-tree test of the loop over a depth_first_traversal. *)
RECURSIVE ExactMatch(_)
ExactMatch(n) == IsExact(n) /\ \A i \in DOMAIN n.kids : ExactMatch(n.kids[i])

(***************************************************************************)
(* min_match_len and contains_oob                                          *)
(***************************************************************************)
RECURSIVE ContainsOob(_)
ContainsOob(n) ==
  CASE n.t \in {"char", "charset"} -> OOB \in n.set
    [] n.t = "notcharset" -> OOB \notin n.set
    [] n.t = "optional" -> FALSE
    [] OTHER -> \E i \in DOMAIN n.kids : ContainsOob(n.kids[i])

RECURSIVE MinMatchLen(_)
MinMatchLen(n) ==
  LET kid(i) == MinMatchLen(n.kids[i])
      \* a child that contains an oob character is the last to contribute
      upto == {i \in DOMAIN n.kids : \A j \in 1 .. i - 1 : ~ContainsOob(n.kids[j])}
  IN  CASE n.t \in {"char", "charset"} -> IF OOB \in n.set THEN 0 ELSE 1
        [] n.t = "notcharset" -> 1
        [] n.t \in {"plus", "sharedtree"} -> kid(1)
        [] n.t = "alt" -> Min({kid(i) : i \in DOMAIN n.kids})
        [] n.t = "cat" -> MapThenSumSet(LAMBDA i : kid(i), upto)
        [] OTHER -> 0

(***************************************************************************)
(* Pairwise simplification (-O no-expr-vector): normalize and factor the   *)
(* binary tree.                                                            *)
(***************************************************************************)
K(n, dir) == n.kids[dir + 1]
Bin(t, dir, x, y) == Nd(t, {}, IF dir = 0 THEN <<x, y>> ELSE <<y, x>>, NoFlag)

SimplifyEpsPair(n) == IF n.t \in NChild /\ n.kids = <<Eps, Eps>> THEN Eps ELSE n

RotateNode(t, dir) ==
  LET left == K(t, dir)
  IN  Bin(t.t, dir, K(left, dir),
          SimplifyEpsPair(Bin(left.t, dir, K(left, 1 - dir), K(t, 1 - dir))))

NormalizeEps(t, dir) == Bin(t.t, dir, SimplifyEpsPair(K(t, 1 - dir)), Eps)

SwapsCharset(t, dir) == /\ t.t = "alt"
                        /\ K(t, dir).t = "charset"
                        /\ K(t, 1 - dir).t = "char"

RECURSIVE Normalize(_, _)
Normalize(t, dir) ==
  IF Is(t, {"star", "optional", "plus"}) THEN [t EXCEPT !.kids[1] = Normalize(@, dir)]
  ELSE IF ~Is(t, NChild) THEN t
  ELSE LET x == K(t, dir)  y == K(t, 1 - dir)
       IN  IF x = Eps /\ y # Eps THEN Normalize(NormalizeEps(t, dir), dir)
           ELSE IF x.t = t.t THEN Normalize(RotateNode(t, dir), dir)
           ELSE IF SwapsCharset(t, dir) THEN Normalize(Bin("alt", dir, y, x), dir)
           ELSE Bin(t.t, dir, Normalize(x, dir), Normalize(y, dir))

IsCharOrCharset(n) == Is(n, {"char", "charset"})
MergeCharset(t) == CharSetNode(t.kids[1].set \union t.kids[2].set)

BasicAltFactor(t, dir) ==
  LET x == K(t, dir)  y == K(t, 1 - dir)
      factor(a, l, r) == Bin("cat", dir, a, Bin("alt", dir, l, r))
  IN  CASE t.t # "alt" -> t
        [] t.t = "alt" /\ Eq(x, y) -> x
        [] t.t = "alt" /\ ~Eq(x, y) ->
           IF IsCharOrCharset(x) /\ IsCharOrCharset(y) THEN MergeCharset(t)
           ELSE IF x.t = "cat" /\ y.t = "cat" /\ Eq(K(x, dir), K(y, dir))
           THEN factor(K(x, dir), K(x, 1 - dir), K(y, 1 - dir))
           ELSE IF y.t = "cat" /\ Eq(x, K(y, dir))
           THEN factor(K(y, dir), K(y, 1 - dir), Eps)
           ELSE IF x.t = "cat" /\ Eq(K(x, dir), y)
           THEN factor(K(x, dir), K(x, 1 - dir), Eps)
           ELSE t

BasicSimplify(t, dir) ==
  IF t.t = "cat" /\ K(t, 1 - dir) = Eps THEN K(t, dir) ELSE BasicAltFactor(t, dir)

(* The alternatives of a chain of alt nodes that hangs on child[!dir]. *)
RECURSIVE Chain(_, _)
Chain(t, dir) == IF t.t = "alt" THEN <<K(t, dir)>> \o Chain(K(t, 1 - dir), dir) ELSE <<t>>
RECURSIVE MkChain(_, _)
MkChain(s, dir) ==
  IF Len(s) = 1 THEN s[1] ELSE Bin("alt", dir, s[1], MkChain(Tail(s), dir))

FrontOf(n, dir) == IF n.t = "cat" THEN K(n, dir) ELSE n
Factors(a, n, dir) == Eq(a, n) \/ (n.t = "cat" /\ Eq(a, K(n, dir)))

(* The scan for a later copy of the head of the chain: every copy met drops *)
(* the head that is current at that time.  Result: how many were dropped.   *)
DropHeads(L) ==
  FoldLeft(LAMBDA h, j : IF Eq(L[h + 1], L[j]) THEN h + 1 ELSE h,
           0, [j \in 1 .. Len(L) - 2 |-> j + 1])

(* The scan that pulls every alternative with the head's front out of the   *)
(* chain and factors it with the head (the subject).                        *)
PullFactors(L, dir) ==
  FoldLeft(LAMBDA acc, e :
             IF Factors(FrontOf(acc.subject, dir), e, dir)
             THEN [subject |-> BasicSimplify(Bin("alt", dir, e, acc.subject), dir),
                   kept |-> acc.kept, count |-> acc.count + 1]
             ELSE [acc EXCEPT !.kept = Append(@, e)],
           [subject |-> L[1], kept |-> <<>>, count |-> 0], SubSeq(L, 2, Len(L) - 1))

(* What the chain becomes, and how often it was factored.                   *)
FactorLast(r, last, dir) ==
  LET m == Len(r.kept)
      joined == BasicSimplify(Bin("alt", dir, r.subject, last), dir)
  IN  IF Factors(FrontOf(r.subject, dir), last, dir)
      THEN [n |-> r.count + 1,
            t |-> IF m = 0 THEN joined
                  ELSE MkChain(<<r.kept[m]>> \o SubSeq(r.kept, 1, m - 1) \o <<joined>>, dir)]
      ELSE [n |-> r.count, t |-> MkChain(<<last>> \o r.kept \o <<r.subject>>, dir)]
FactorChain(L, dir) == FactorLast(PullFactors(L, dir), L[Len(L)], dir)

(* The loop of simplify_tree_base on a node whose children are done.        *)
(* mod is the modified flag, new that another node took the place of t.     *)
Unheaded(L) == SubSeq(L, DropHeads(L) + 1, Len(L))
RECURSIVE Again(_, _), FactorLoop(_, _), FactorAfter(_, _, _), FactorRest(_, _, _), FactorEnd(_, _, _)
Again(t, dir) == FactorLoop([t |-> t, mod |-> TRUE, new |-> TRUE], dir)
FactorLoop(r, dir) == FactorAfter(r, BasicSimplify(r.t, dir), dir)
FactorAfter(r, b, dir) ==
  IF b # r.t THEN Again(b, dir)
  ELSE IF b.t # "alt" \/ K(b, 1 - dir).t # "alt" THEN r
  ELSE FactorRest(r, Unheaded(Chain(b, dir)), dir)
FactorRest(r, rest, dir) ==
  IF Eq(rest[1], rest[Len(rest)]) THEN Again(MkChain(Tail(rest), dir), dir)
  ELSE FactorEnd([r EXCEPT !.new = @ \/ Len(rest) < Len(Chain(r.t, dir))], FactorChain(rest, dir), dir)
FactorEnd(r, f, dir) == IF f.n > 0 THEN Again(f.t, dir) ELSE [r EXCEPT !.t = f.t]

RECURSIVE SimplifyTreeBase(_, _)
SimplifyTreeBase(t, dir) ==
  IF ~Is(t, NChild \union {"star", "optional", "plus"})
  THEN [t |-> t, mod |-> FALSE, new |-> FALSE]
  ELSE LET kids == Each(LAMBDA k : SimplifyTreeBase(k, dir), t.kids)
           mod == \E i \in DOMAIN kids : kids[i].mod \/ kids[i].new
           t1 == [t EXCEPT !.kids = Each(LAMBDA k : k.t, kids)]
       IN  FactorLoop([t |-> t1, mod |-> mod, new |-> FALSE], dir)

RECURSIVE SimplifyPass(_, _, _), SimplifyMore(_, _, _)
SimplifyMore(r, dir, normal) == IF r.mod THEN SimplifyPass(r.t, dir, normal) ELSE r.t
SimplifyPass(t, dir, normal) == SimplifyMore(SimplifyTreeBase(IF normal THEN Normalize(t, dir) ELSE t, dir), dir, normal)

SimplifyTreeOld(t, opts) ==
  LET dir == IF opts.left THEN 0 ELSE 1
  IN  SimplifyPass(SimplifyPass(t, dir, opts.normal), 1 - dir, opts.normal)
(***************************************************************************)
(* Vector simplification (-O expr-vector, the default): flatten chains of  *)
(* cat and alt nodes, sort the alternatives and factor adjacent ones.      *)
(***************************************************************************)
RECURSIVE FlatKids(_, _)
FlatKids(type, kids) ==
  FlattenSeq([i \in DOMAIN kids |->
                IF kids[i].t = type THEN FlatKids(type, kids[i].kids) ELSE <<kids[i]>>])
FlattenNode(n) == [n EXCEPT !.kids = FlatKids(n.t, @)]

CollapseNode(n) == IF Len(n.kids) = 1 THEN n.kids[1] ELSE n

CatElem(c, k, dir) == IF dir = 1 THEN c.kids[Len(c.kids) - k] ELSE c.kids[k + 1]

(* cat nodes compare by their elements from the factoring end, then by size *)
VecCmp(a, b, dir) ==
  IF a.t # "cat" \/ b.t # "cat" THEN Cmp(a, b)
  ELSE LET n == Min({Len(a.kids), Len(b.kids)})
           d == FirstDiff([k \in 1 .. n |-> Cmp(CatElem(a, k - 1, dir), CatElem(b, k - 1, dir))])
       IN  IF d # 0 THEN d ELSE Sgn(Len(a.kids) - Len(b.kids))

SimplifyVecCat(n) ==
  LET kids == SelectSeq(FlattenNode(n).kids, LAMBDA k : k # Eps)
  IN  IF kids = <<>> THEN Eps ELSE CollapseNode(CatN(kids))

MergeAltChars(n) ==
  LET leaves == SelectSeq(n.kids, IsCharOrCharset)
      set == UNION {leaves[i].set : i \in DOMAIN leaves}
      one == IF \E c \in set : set = {c} THEN CharNode(CHOOSE c \in set : TRUE) ELSE CharSetNode(set)
  IN  IF Len(leaves) < 2 THEN n
      ELSE AltN(Append(SelectSeq(n.kids, LAMBDA k : ~IsCharOrCharset(k)), one))

SortVec(s, dir) == SortSeq(s, LAMBDA a, b : VecCmp(a, b, dir) < 0)

(* The number of elements that all cat nodes of a run share, at least one.  *)
CommonLen(run, dir) ==
  LET max == Min({Len(run[i].kids) : i \in DOMAIN run})
      same(k) == \A i \in DOMAIN run : Eq(CatElem(run[i], k, dir), CatElem(run[1], k, dir))
  IN  Max({l \in 1 .. max : \A k \in 1 .. l - 1 : same(k)})

(* Mutant: the common part is cut off in front, whichever side it is on. *)
CatRemainder_front(c, len, dir) ==
  IF Len(c.kids) = len THEN Eps ELSE CollapseNode(CatN(SubSeq(c.kids, len + 1, Len(c.kids))))
CatRemainder(c, len, dir) ==
  LET n == Len(c.kids)
      rest == IF dir = 1 THEN SubSeq(c.kids, 1, n - len) ELSE SubSeq(c.kids, len + 1, n)
  IN  IF rest = <<>> THEN Eps ELSE CollapseNode(CatN(rest))

Common(c, len, dir) == LET n == Len(c.kids)
                       IN  IF dir = 1 THEN SubSeq(c.kids, n - len + 1, n) ELSE SubSeq(c.kids, 1, len)

Dedup(s) == FoldLeft(LAMBDA out, n : IF out # <<>> /\ Eq(out[Len(out)], n) THEN out ELSE Append(out, n),
                     <<>>, s)

(* The runs of adjacent cat nodes with the same element at the factoring end. *)
Runs(cats, dir) ==
  FoldLeft(LAMBDA rs, c :
             IF rs # <<>> /\ Eq(CatElem(rs[Len(rs)][1], 0, dir), CatElem(c, 0, dir))
             THEN [rs EXCEPT ![Len(rs)] = Append(@, c)]
             ELSE Append(rs, <<c>>),
           <<>>, cats)

RECURSIVE SimplifyVecAlt(_, _)
(* x: a non cat alternative equal to the common element takes part as well  *)
FactorRun(run, x, dir) ==
  LET len == IF x THEN 1 ELSE CommonLen(run, dir)
      rest == Each(LAMBDA c : CatRemainder(c, len, dir), run) \o (IF x THEN <<Eps>> ELSE <<>>)
      alt == SimplifyVecAlt(AltN(rest), dir)
      common == Common(run[1], len, dir)
  IN  SimplifyVecCat(CatN(IF dir = 1 THEN <<alt>> \o common ELSE Append(common, alt)))

FactorAlt(kids, dir) ==
  LET cats == SelectSeq(kids, LAMBDA k : k.t = "cat")
      leaves == SelectSeq(kids, LAMBDA k : k.t # "cat")
      runs == Runs(cats, dir)
      key(r) == CatElem(r[1], 0, dir)
      x(r) == \E i \in DOMAIN leaves : Eq(leaves[i], key(r))
      factored(r) == Len(r) > 1 \/ x(r)
      out == Each(LAMBDA r : IF factored(r) THEN FactorRun(r, x(r), dir) ELSE r[1], runs)
      unused == SelectSeq(leaves, LAMBDA l : \A i \in DOMAIN runs : ~Eq(l, key(runs[i])))
  IN  IF \E i \in DOMAIN runs : factored(runs[i]) THEN SortVec(out \o unused, dir) ELSE kids

SimplifyVecAlt(n, dir) ==
  CollapseNode(AltN(FactorAlt(Dedup(SortVec(MergeAltChars(FlattenNode(n)).kids, dir)), dir)))

RECURSIVE SimplifyVec(_, _)
SimplifyVec(t, dir) ==
  IF Is(t, {"star", "optional", "plus"}) THEN [t EXCEPT !.kids[1] = SimplifyVec(@, dir)]
  ELSE IF ~Is(t, NChild) THEN t
  ELSE LET f == FlattenNode(t)
           n == [f EXCEPT !.kids = Each(LAMBDA k : SimplifyVec(k, dir), @)]
       IN  IF n.t = "cat" THEN SimplifyVecCat(n) ELSE SimplifyVecAlt(n, dir)

SimplifyTreeVec(t, opts) ==
  LET dir == IF opts.left THEN 0 ELSE 1 IN SimplifyVec(SimplifyVec(t, dir), 1 - dir)

SimplifyTree(t, opts) ==
  IF opts.vector THEN SimplifyTreeVec(t, opts) ELSE SimplifyTreeOld(t, opts)

(***************************************************************************)
(* Positions: nullable, firstpos, lastpos and followpos of compute_pos. A  *)
(* position is the leaf with the path that leads to it; the accept nodes   *)
(* and the leaves of the shared tail have one position wherever they are.  *)
(***************************************************************************)
SharedPath == <<0>>
Pos(n, path) == [leaf |-> n, path |-> IF n.t = "matchflag" THEN <<>> ELSE path]

NoPos(nullable) == [nullable |-> nullable, first |-> {}, last |-> {}, follow |-> {}]

(* A cat node joins its children from the left. *)
CatPos(l, r) ==
  [nullable |-> l.nullable /\ r.nullable,
   first |-> IF l.nullable THEN l.first \union r.first ELSE l.first,
   last |-> IF r.nullable THEN r.last \union l.last ELSE r.last,
   follow |-> l.follow \union r.follow \union (l.last \X r.first)]
AltPos(l, r) ==
  [nullable |-> l.nullable \/ r.nullable, first |-> l.first \union r.first,
   last |-> l.last \union r.last, follow |-> l.follow \union r.follow]
LoopPos(c, nullable) ==
  [c EXCEPT !.nullable = nullable, !.follow = @ \union (c.last \X c.first)]

RECURSIVE ComputePos(_, _)
ComputePos(n, path) ==
  LET kids == [i \in DOMAIN n.kids |-> ComputePos(n.kids[i], Append(path, i))] \o <<>>
  IN  CASE n.t = "eps" -> NoPos(TRUE)
        [] n.t = "star" -> LoopPos(kids[1], TRUE)
        [] n.t = "plus" -> LoopPos(kids[1], kids[1].nullable)
        [] n.t = "optional" -> [kids[1] EXCEPT !.nullable = TRUE]
        [] n.t = "sharedtree" -> ComputePos(n.kids[1], SharedPath)
        [] n.t = "cat" -> FoldLeft(CatPos, kids[1], Tail(kids))
        [] n.t = "alt" -> FoldLeft(AltPos, NoPos(FALSE), kids)
        [] OTHER -> LET p == Pos(n, path)
                    IN  [nullable |-> FALSE, first |-> {p}, last |-> {p}, follow |-> {}]

(***************************************************************************)
(* Reference: where a match of n that starts at i in the string w can end. *)
(***************************************************************************)
RECURSIVE Ends(_, _, _)
Ends(n, w, i) ==
  LET from(m, S) == UNION {Ends(m, w, j) : j \in S}
      RECURSIVE loop(_)
      loop(S) == LET T == S \union from(n.kids[1], S) IN IF T = S THEN S ELSE loop(T)
      one(ok) == IF i < Len(w) /\ ok THEN {i + 1} ELSE {}
  IN  CASE n.t \in {"eps", "matchflag"} -> {i}
        [] n.t \in {"char", "charset"} -> one(w[i + 1] \in n.set)
        [] n.t = "notcharset" -> one(w[i + 1] # OOB /\ w[i + 1] \notin n.set)
        [] n.t = "anychar" -> one(w[i + 1] # OOB)
        [] n.t = "star" -> loop({i})
        [] n.t = "plus" -> loop(Ends(n.kids[1], w, i))
        [] n.t = "optional" -> {i} \union Ends(n.kids[1], w, i)
        [] n.t = "sharedtree" -> Ends(n.kids[1], w, i)
        [] n.t = "cat" -> FoldLeft(LAMBDA S, m : from(m, S), {i}, n.kids)
        [] n.t = "alt" -> UNION {Ends(n.kids[k], w, i) : k \in DOMAIN n.kids}

Matches(n, w) == Len(w) \in Ends(n, w, 0)
=============================================================================
