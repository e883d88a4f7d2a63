--------------------------- MODULE MCPolicyCache ---------------------------
EXTENDS PolicyCache

File(n, t) == [name |-> <<n>>, dir |-> FALSE, text |-> t, kids |-> <<>>]
Dir(n, k) == [name |-> <<n>>, dir |-> TRUE, text |-> <<>>, kids |-> k]
(* Kernels with and without set_load, and with compressed loads.            *)
Old == <<Dir("p", <<File("c", <<"1">>)>>)>>
New == <<Dir("m", <<File("p", <<"s">>)>>), Dir("p", <<File("s", <<"1">>)>>)>>
(* One that fills the buffer to the last byte, and one that does not fit.   *)
Ones(k) == <<Dir("m", <<File("p", [i \in 1 .. k |-> "1"])>>)>>
Edge == Ones(13)
Big == Ones(14)
MCTrees == UNION {{t, t[1].kids, t[Len(t)].kids} : t \in {Old, New, Edge, Big}}
On(k, create, rel) == [kern |-> k, create |-> create, rel |-> rel]
MCSetups == {<<On(Old, TRUE, FALSE), On(New, TRUE, FALSE)>>, <<On(New, TRUE, FALSE), On(New, TRUE, FALSE)>>,
             <<On(New, TRUE, FALSE), On(Old, TRUE, TRUE)>>, <<On(Old, TRUE, FALSE), On(Old, FALSE, FALSE)>>,
             <<On(Edge, TRUE, FALSE), On(Big, FALSE, FALSE)>>}
MCHash(t) == 7
MCIds == {7}
Plain == [bytes |-> <<1, 0, 0, 2, 0>>, compressed |-> FALSE]
Packed == [bytes |-> <<3, 0, 0>>, compressed |-> TRUE]
MCPolicies == {Plain}
Ent(k, c) == [kind |-> k, pol |-> c, by |-> RenderDir[Old]]
MCRoDirs == {[dir |-> <<7, 0>>, feat |-> RenderDir[Old], ents |-> (1 :> Ent("link", Plain) @@ 2 :> Ent("file", Packed) @@ 3 :> Ent("suffix", Plain))]}
=============================================================================
