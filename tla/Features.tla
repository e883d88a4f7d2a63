------------------------------ MODULE Features ------------------------------
(***************************************************************************)
(* Feature sets of libapparmor (features.c): a directory of files read     *)
(* into one string of bounded size, and the lookup of a path in it.  A     *)
(* string is a sequence of characters; a directory is a sequence of        *)
(*   [name, dir, text, kids]                                               *)
(* in the order of alphasort.                                              *)
(***************************************************************************)
EXTENDS Integers, Sequences, SequencesExt, FiniteSetsExt

CONSTANTS StringSize,               \* STRING_SIZE, 8192 in the code
          Trees                     \* the directories of features, with all their subdirectories
ASSUME TreesAssumption == \A t \in Trees : \A i \in DOMAIN t : t[i].dir => t[i].kids \in Trees

LBrace == "{"
RBrace == "}"
IsBrace(c) == c \in {LBrace, RBrace}
IsSpace(c) == c \in {" ", "\n"}
(* The character at position i, NUL behind the end.                        *)
At(s, i) == IF i > Len(s) THEN "NUL" ELSE s[i]

(***************************************************************************)
(* Filling the buffer.  A buffer is [text, size, ok].                      *)
(***************************************************************************)
Remaining(b) == b.size - Len(b.text)

(* Mutant: what does not fit is cut off. *)
FeaturesSnprintf_cut(b, s) ==
  [b EXCEPT !.text = @ \o SubSeq(s, 1, Min({Len(s), Remaining(b) - 1}))]
FeaturesSnprintf(b, s) ==
  IF ~b.ok THEN b
  ELSE IF Len(s) >= Remaining(b) THEN [b EXCEPT !.ok = FALSE]
  ELSE [b EXCEPT !.text = @ \o s]

(* One byte is kept for the NUL; the read that fills the rest is taken for  *)
(* a file that goes on, and with no room at all nothing is read.            *)
LoadFeaturesFile(b, text) ==
  LET size == Remaining(b) - 1
  IN  IF ~b.ok THEN b
      ELSE IF size < 0 THEN [b EXCEPT !.ok = FALSE]
      ELSE IF size = 0 THEN b
      ELSE IF Len(text) >= size THEN [b EXCEPT !.ok = FALSE]
      ELSE [b EXCEPT !.text = @ \o text]

(* features_dir_cb under _aa_dirat_for_each, which goes on after an error   *)
(* and returns it in the end.  Dot files are skipped.                       *)
Buffers == [text : Seq(STRING), size : Nat, ok : BOOLEAN]
LoadDir[b \in Buffers, entries \in Trees] ==
  LET cb(a, e) == LET open == FeaturesSnprintf([a EXCEPT !.ok = TRUE], e.name \o <<" ", LBrace>>)
                      body == IF e.dir THEN LoadDir[open, e.kids] ELSE LoadFeaturesFile(open, e.text)
                  IN  IF e.name[1] = "." THEN a
                      ELSE [FeaturesSnprintf(body, <<RBrace, "\n">>) EXCEPT !.ok = @ /\ a.ok]
  IN  FoldLeft(cb, b, entries)

NewBuffer == [text |-> <<>>, size |-> StringSize, ok |-> TRUE]
AaFeaturesNew(e) == IF e.dir THEN LoadDir[NewBuffer, e.kids] ELSE LoadFeaturesFile(NewBuffer, e.text)
AaFeaturesNewFromString(s) == IF Len(s) >= StringSize THEN [NewBuffer EXCEPT !.ok = FALSE]
                              ELSE [NewBuffer EXCEPT !.text = s]

(***************************************************************************)
(* Looking up a path                                                       *)
(***************************************************************************)
(* tokenize_path_components: the nonempty parts between slashes, max of them *)
Components(path, max) ==
  LET put(acc, c) == IF c = "/" THEN Append(acc, <<>>)
                     ELSE [acc EXCEPT ![Len(acc)] = Append(@, c)]
      parts == SelectSeq(FoldLeft(put, <<<<>>>>, path), LAMBDA p : p # <<>>)
  IN  SubSeq(parts, 1, Min({max, Len(parts)}))

(* The scan of walk_one for comp from position from: m characters of comp   *)
(* have matched, depth is brace_count, hit the position behind the match.   *)
ScanChar(s, comp, a, i) ==
  LET c == s[i]
      d == IF c = LBrace THEN a.depth + 1 ELSE IF c = RBrace THEN a.depth - 1 ELSE a.depth
      m == IF d = 0 /\ c = comp[a.m + 1] THEN a.m + 1 ELSE 0
      ends == IsBrace(At(s, i + 1)) \/ IsSpace(At(s, i + 1)) \/ At(s, i + 1) = "NUL"
  IN  IF a.hit # 0 \/ a.depth < 0 THEN a
      ELSE IF m < Len(comp) THEN [m |-> m, depth |-> d, hit |-> 0]
      ELSE [m |-> 0, depth |-> d, hit |-> IF ends THEN i + 1 ELSE 0]
Scan(s, comp, from) ==
  FoldLeft(LAMBDA a, i : ScanChar(s, comp, a, i), [m |-> 0, depth |-> 0, hit |-> 0],
           [k \in 1 .. Len(s) - from + 1 |-> from + k - 1]).hit

(* The walk over one component from position i: the brace or NUL it ends at *)
WalkOne(s, comp, i, top) ==
  LET from == IF top THEN i ELSE i + 1
      hit == IF ~top /\ At(s, i) # LBrace THEN 0 ELSE Scan(s, comp, from)
  IN  IF hit = 0 THEN 0
      ELSE Min({j \in hit .. Len(s) + 1 : IsBrace(At(s, j)) \/ At(s, j) = "NUL"})

MaxComponents == 32
FeaturesLookup(s, path) ==
  LET comps == Components(path, MaxComponents)
  IN  IF path = <<>> \/ At(path, 1) = "/" \/ comps = <<>> THEN 0
      ELSE FoldLeft(LAMBDA i, k : IF i = 0 THEN 0 ELSE WalkOne(s, comps[k], i, k = 1),
                    1, [k \in DOMAIN comps |-> k])
AaFeaturesSupports(s, path) == FeaturesLookup(s, path) # 0

(* aa_features_value: the text up to the next brace, or none.               *)
AaFeaturesValue(s, path) ==
  LET i == FeaturesLookup(s, path)
      end == Min({j \in i + 1 .. Len(s) + 1 : IsBrace(At(s, j)) \/ At(s, j) = "NUL"})
  IN  IF i = 0 \/ At(s, i) # LBrace THEN <<"none">> ELSE SubSeq(s, i + 1, end - 1)

AaFeaturesIsEqual(a, b) == a = b

(***************************************************************************)
(* Reference definitions                                                   *)
(***************************************************************************)
RenderDir[entries \in Trees] ==
  LET render(e) == e.name \o <<" ", LBrace>> \o (IF e.dir THEN RenderDir[e.kids] ELSE e.text) \o <<RBrace, "\n">>
  IN  FlattenSeq([i \in DOMAIN entries |-> render(entries[i])])

Named(entries, n) == {i \in DOMAIN entries : entries[i].name = n}
HasPath[entries \in Trees, comps \in Seq(Seq(STRING))] ==
  \E i \in Named(entries, comps[1]) :
     \/ Len(comps) = 1
     \/ entries[i].dir /\ HasPath[entries[i].kids, Tail(comps)]
     \/ ~entries[i].dir /\ Len(comps) = 2 /\ entries[i].text = comps[2]
=============================================================================
