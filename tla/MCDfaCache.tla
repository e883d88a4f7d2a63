----------------------------- MODULE MCDfaCache -----------------------------
(* Two parsers, profiles that share their rules or only their key.          *)
EXTENDS DfaCache, TLC

Block(rules, subs, conds) == [rules |-> rules, subblocks |-> subs, conds |-> conds]
Leaf(r) == Block(<<r>>, <<>>, <<>>)
Profile(b, d, n) == [block |-> b, size |-> [dfa |-> d, perms |-> n]]

(* The same rules, in one block and in several; other rules; too many       *)
(* states and too many permissions.                                         *)
Flat == Profile(Block(<<"a", "b", "c">>, <<>>, <<>>), 1, 1)
Nested == Profile(Block(<<"a">>, <<Block(<<>>, <<>>, <<Leaf("b")>>)>>, <<Leaf("c")>>), 1, 1)
Swapped == Profile(Block(<<"b">>, <<Leaf("a")>>, <<NoBlock, Leaf("c")>>), 1, 1)
Large == Profile(Leaf("d"), 2, 0)
Wide == Profile(Leaf("e"), 1, 2)
NoRules == Profile(NoBlock, 0, 0)
RECURSIVE Within(_)
Within(b) == {b} \union UNION {Within(c) : c \in Range(b.subblocks) \union Range(b.conds)}
MCBlocks == UNION {Within(prof.block) : prof \in {Flat, Nested, Swapped, Large, Wide, NoRules}}
MCPolicies == {<<Flat>>, <<Nested, Swapped>>, <<Large, NoRules>>, <<Wide>>}

G(control, version, stacking) == [abi |-> 9, control |-> control, version |-> version, stacking |-> stacking]
MCGlobals == {G("optimize", 3, TRUE), G("optimize", 2, FALSE), G("plain", 1, TRUE)}

(* Every set of rules has the same key, except the large ones.              *)
MCFnv(h) == IF h.rules \in {<<"d">>, <<"e">>} THEN 1 ELSE 2
ASSUME MCSameOrder == SameOrder
Symmetric == Permutations(Parsers)
=============================================================================
