-------------------------------- MODULE Chfa --------------------------------
(***************************************************************************)
(* The compressed tables: chfa.cc.  The transitions of all states share    *)
(* the cells of one next/check table; a doubly linked list runs through    *)
(* the free cells.  A table t has                                          *)
(*   cell  0..n-1 -> [next, check], check = 0 for a free cell              *)
(*   free  0..n-1 -> [prev, next], 0 ends the list                         *)
(*   first the first free cell            def, base, flags  by number      *)
(*   num   the states in the order of their numbers                        *)
(***************************************************************************)
EXTENDS Hfa

FreeCell == [next |-> 0, check |-> 0]
Size(t) == Cardinality(DOMAIN t.cell)

(* init_free_list: link the cells from start on behind prev.                *)
InitFreeList(free, prev, start, size) ==
  [i \in 0 .. size - 1 |->
     IF i >= start
     THEN [prev |-> IF i = start THEN prev ELSE i - 1, next |-> IF i = size - 1 THEN 0 ELSE i + 1]
     ELSE IF i = prev /\ prev # 0 THEN [free[i] EXCEPT !.next = start] ELSE free[i]]

FirstChar(trans) == Min(DOMAIN trans)

FitsIn(t, pos, trans) ==
  LET base == pos - FirstChar(trans)
  IN  /\ base >= 0
      /\ \A c \in DOMAIN trans : base + c >= Size(t) \/ t.cell[base + c].check = 0

(* The walk along the free list from x: the first cell the state fits at,   *)
(* 0 if there is none, and the last cell passed.                            *)
RECURSIVE FindFit(_, _, _, _)
FindFit(t, x, prev, trans) ==
  LET c == FirstChar(trans)
  IN  IF x # 0 /\ (x < c \/ x + c < 0 \/ ~FitsIn(t, x, trans))
      THEN FindFit(t, t.free[x].next, x, trans)
      ELSE [x |-> x, prev |-> prev]
RECURSIVE LastFree(_, _)
LastFree(t, x) == IF t.free[x].next = 0 THEN x ELSE LastFree(t, t.free[x].next)

Grow(t, by, prev) ==
  LET old == Size(t)
  IN  [t EXCEPT !.cell = [i \in 0 .. old + by - 1 |-> IF i < old THEN @[i] ELSE FreeCell],
                !.free = InitFreeList(@, prev, old, old + by),
                !.first = IF @ = 0 THEN old ELSE @]

(* The table with room for the state, and the cell of its first character.  *)
Place(t, trans) ==
  LET c == FirstChar(trans)
      f == FindFit(t, t.first, 0, trans)
      over == f.x + (UpperBound - 1) - c - (Size(t) - 1)
      grown == Grow(t, UpperBound - c, f.prev)
  IN  IF f.x = 0 THEN [t |-> grown, x |-> FindFit(grown, Size(t), f.prev, trans).x]
      ELSE IF over > 0 THEN [t |-> Grow(t, over, LastFree(t, f.x)), x |-> f.x]
      ELSE [t |-> t, x |-> f.x]

(* Mutant: the neighbour still points at the cell that was taken. *)
Unlink_stale(t, i) ==
  LET p == t.free[i].prev  n == t.free[i].next
  IN  [t EXCEPT !.free = IF p # 0 THEN [@ EXCEPT ![p].next = n] ELSE @,
                !.first = IF i = @ THEN n ELSE @]
Unlink(t, i) ==
  LET p == t.free[i].prev  n == t.free[i].next
      f1 == IF p # 0 THEN [t.free EXCEPT ![p].next = n] ELSE t.free
  IN  [t EXCEPT !.free = IF n # 0 THEN [f1 EXCEPT ![n].prev = p] ELSE f1,
                !.first = IF i = @ THEN n ELSE @]

(* Where a state goes on a character it has no cell for.                    *)
DefaultOf(d, s) == d.other[s]

(* insert_state: the cells of the state, its default, its base and flags.   *)
InsertState(t, d, s) ==
  LET trans == d.trans[s]
      pl == Place(t, trans)
      base == pl.x - FirstChar(trans)
      fill == FoldLeft(LAMBDA u, c :
                         Unlink([u EXCEPT !.cell[base + c] = [next |-> trans[c], check |-> s]], base + c),
                       pl.t, Sorted(DOMAIN trans))
      entry(u, b, oob) == [u EXCEPT !.num = Append(@, s), !.def = Append(@, DefaultOf(d, s)),
                                    !.base = Append(@, b),
                                    !.flags = Append(@, [oob |-> oob, diff |-> d.rel[s]])]
  IN  IF DOMAIN trans = {} THEN entry(t, 0, FALSE)
      ELSE entry(fill, base, FirstChar(trans) < 0)

(* The constructor up to the first insert_state, which is the start state.  *)
NewChfa(d) ==
  LET others == SelectSeq(d.states, LAMBDA s : s # d.start /\ s # d.non)
      optimal == 2 + FoldLeft(LAMBDA n, s : n + Cardinality(DOMAIN d.trans[s]), 0, others)
      size == Max({optimal, MaxRange(d)})
      t == [cell |-> [i \in 0 .. size - 1 |-> IF i = 0 THEN [next |-> d.non, check |-> d.non] ELSE FreeCell],
            free |-> InitFreeList([i \in 0 .. size - 1 |-> [prev |-> 0, next |-> 0]], 0, 1, size),
            first |-> 1, num |-> <<d.non>>, def |-> <<d.non>>, base |-> <<0>>,
            flags |-> <<[oob |-> FALSE, diff |-> FALSE]>>]
  IN  InsertState(t, d, d.start)

(* The order in which the other states are inserted: the list's, or with    *)
(* -O compress-fast off by the number of transitions, most first.           *)
Range_(d, s) == IF DOMAIN d.trans[s] = {} THEN 0 ELSE Max(DOMAIN d.trans[s]) - FirstChar(d.trans[s])
InsertOrder(d, high) ==
  LET others == SelectSeq(d.states, LAMBDA s : s # d.start /\ s # d.non)
      count(s) == Cardinality(DOMAIN d.trans[s])
      before(a, b) == \/ count(a) > count(b)
                      \/ count(a) = count(b) /\ Range_(d, a) > Range_(d, b)
      at(s) == CHOOSE i \in DOMAIN others : others[i] = s
  IN  IF high THEN SortSeq(others, LAMBDA a, b : before(a, b) \/ (~before(b, a) /\ at(a) < at(b)))
      ELSE others

(***************************************************************************)
(* The consumer of the tables: the cell at base + character, if it belongs *)
(* to the state, else the default, from where an encoded state goes on.    *)
(***************************************************************************)
NumOf(t, s) == CHOOSE i \in DOMAIN t.num : t.num[i] = s
RECURSIVE Lookup(_, _, _)
Lookup(t, s, c) ==
  LET n == NumOf(t, s)
  IN  IF t.cell[t.base[n] + c].check = s THEN t.cell[t.base[n] + c].next
      ELSE IF t.flags[n].diff THEN Lookup(t, t.def[n], c) ELSE t.def[n]

Occupied(t) == {i \in DOMAIN t.cell \ {0} : t.cell[i].check # 0}
RECURSIVE FreeChain(_, _, _)
FreeChain(t, x, seen) == IF x = 0 THEN seen
                         ELSE IF x \in seen THEN {-1} ELSE FreeChain(t, t.free[x].next, seen \union {x})
=============================================================================
