---------------------------- MODULE MCVariables ----------------------------
(* Small preambles, and one or two profiles that use their variables.      *)
EXTENDS Variables

Set(v, op, vals) == [kind |-> "set", v |-> v, op |-> op, values |-> {Txt(s) : s \in vals}]
Bool(v, op, c) == [kind |-> "bool", v |-> v, op |-> op, cond |-> c]
Alias(from, to) == [kind |-> "alias", from |-> Txt(from), to |-> Txt(to)]
Cond(op, v, l, r) == [op |-> op, v |-> v, l |-> Txt(l), r |-> Txt(r)]
Always == Cond("true", "", <<>>, <<>>)
Not(c) == [op |-> "not", x |-> c]
And(c, d) == [op |-> "and", x |-> c, y |-> d]
Or(c, d) == [op |-> "or", x |-> c, y |-> d]
If(c, s) == [txt |-> Txt(s), link |-> <<>>, shared |-> FALSE, cond |-> c]
Rule(s) == If(Always, s)
Link(s, to) == [Rule(s) EXCEPT !.link = Txt(to)]
ChangeProfile(s) == [Rule(s) EXCEPT !.shared = TRUE]
Prof(nm, attach, rules) == [name |-> Txt(nm), attach |-> Txt(attach), rules |-> rules]

Preambles ==
  << \* assignments, slashes, references in both directions
     [n |-> 5, stmts |-> {Set("@A", "=", {<<"/", "a">>}), Set("@A", "+=", {<<"b", "/">>, <<"/">>}), Set("@A", ":=", {<<"b">>}),
                          Set("@A", "?=", {<<"a">>}), Set("@B", "=", {<<"@A", "/">>, <<"/", "p">>}), Set("@A", "+=", {<<"@B">>}),
                          Set("@B", "+=", {<<"a", "@A", "b", "@A">>})},
      profiles |-> <<Prof(<<"p">>, <<>>, <<Rule(<<"/", "a", "/", "@A", "/", "b">>), Rule(<<"@B">>), Rule(<<"/", "@A", "@B", "/", "q">>)>>)>>],
     \* undefined and malformed references
     [n |-> 5, stmts |-> {Set("@A", "=", {<<"/", "a">>, <<"@U">>}), Set("@A", ":=", {<<"@U">>}), Set("@B", "=", {<<"/">>, <<"@A", "a">>}),
                          Set("@A", "+=", {<<"@,">>}), Set("@U", "=", {<<"a">>})},
      profiles |-> <<Prof(<<"p">>, <<>>, <<Rule(<<"@B">>), Rule(<<"@A">>), Rule(<<"@,", "/", "@A">>), Rule(<<"/", "@!">>)>>)>>],
     \* the built-in variables of two profiles
     [n |-> 5, stmts |-> {Set("@A", "=", {<<"/", "a", "@N">>}), Set("@N", "=", {<<"b">>}), Set("@T", "=", {<<"/", "b">>, <<"a">>}),
                          Set("@B", "=", {<<"/", "p">>, <<"/", "q">>}), Bool("$X", "=", Cond("defined", "@A", <<>>, <<>>))},
      profiles |-> <<Prof(<<"p">>, <<>>, <<Rule(<<"@A">>), Rule(<<"/", "@N">>)>>),
                     Prof(<<"/", "q">>, <<"@B">>, <<Rule(<<"@A">>), Rule(<<"@N", "@T">>), Rule(<<"@E">>)>>),
                     Prof(<<"@B">>, <<>>, <<Rule(<<"@N", "/", "@T">>)>>)>>],
     \* conditions, in the preamble and in a profile
     [n |-> 5, stmts |-> {Set("@A", "=", {<<"a">>}), Set("@A", "+=", {<<"b">>}), Set("@B", "?=", {<<"1">>}), Set("@B", ":=", {<<"2">>}),
                          Bool("$X", "=", Cond("in", "", <<"a">>, <<"@A">>)), Bool("$X", "?=", Cond("lt", "", <<"@B">>, <<"2">>)),
                          Bool("$X", ":=", Cond("eq", "", <<"@A">>, <<"@B">>)), Bool("$X", "+=", Always), Set("$X", "+=", {<<"a">>})},
      profiles |-> <<Prof(<<"p">>, <<>>, <<If(Cond("bool", "$X", <<>>, <<>>), <<"@A">>), If(Cond("gt", "", <<"@A">>, <<"@B">>), <<"@B">>),
                                           If(Or(Cond("defined", "$X", <<>>, <<>>), Cond("ge", "", <<"1">>, <<"@B">>)), <<"b">>),
                                           If(And(Not(Cond("ne", "", <<"@B">>, <<"2">>)), Cond("le", "", <<"@A">>, <<"b">>)), <<"a">>)>>)>>],
     \* aliases
     [n |-> 5, stmts |-> {Alias(<<"/", "a">>, <<"/", "b">>), Alias(<<"/", "b">>, <<"/", "a">>), Alias(<<"/", "a">>, <<"/", "q">>),
                          Alias(<<"/">>, <<"/", "p", "/">>), Set("@A", "=", {<<"/", "a">>, <<"/", "b">>}), Set("@A", ":=", {<<"/", "a">>})},
      profiles |-> <<Prof(<<"/", "a">>, <<>>, <<Rule(<<"/", "a", "b">>), Rule(<<"@A", "/", "b">>), Link(<<"/", "a">>, <<"@A", "b">>), ChangeProfile(<<"/", "b">>)>>),
                     Prof(<<"q">>, <<"/", "b">>, <<Rule(<<"/", "b">>)>>)>>] >>
MCSetups == Range(Preambles)
=============================================================================
