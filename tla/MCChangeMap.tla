----------------------------- MODULE MCChangeMap ----------------------------
(***************************************************************************)
(* Instances of ChangeMap for TLC: the checkout of a package "store" whose *)
(* module "base" is changed, with a package inside it, programs that use   *)
(* it and two tests.                                                       *)
(***************************************************************************)
EXTENDS ChangeMap

Parts == {"store", "base", "basex", "sub", "tests", "app", "user", "web",
          "test_a", "test_b", "__init__", "open", "Store", "get", "put"}

Def(name, first, last) ==
    [defines |-> TRUE, name |-> name, first |-> first, last |-> last]

(* Line 1 is a function; lines 2 to 6 are a class with a line of its own,  *)
(* or a block, and two methods.                                            *)
Body(defines) ==
    {Def(<<"open">>, 1, 1), [Def(<<"Store">>, 2, 6) EXCEPT !.defines = defines],
     Def(<<"Store", "get">>, 4, 4), Def(<<"Store", "put">>, 5, 6)}

From(level, base, names) == [level |-> level, base |-> base, names |-> names]

Outside(package, stem, test, parses, imported, named) ==
    [package |-> package, stem |-> stem, init |-> stem = "__init__",
     changed |-> FALSE, test |-> test, parses |-> parses,
     hunks |-> {}, nodes |-> {}, imports |-> imported, mentions |-> named]

Base(defines, hunks, parses) ==
    [package |-> <<"store">>, stem |-> "base", init |-> FALSE,
     changed |-> TRUE, test |-> FALSE, parses |-> parses, hunks |-> hunks,
     nodes |-> Body(defines), imports |-> <<>>, mentions |-> <<"put">>]

Absolute == {From(0, <<"store", "base">>, {}), From(0, <<"store">>, {"base"}),
             From(0, <<"store", "basex">>, {}), From(0, <<"store">>, {"Store"})}
Relative == {From(1, <<"base">>, {"Store"}), From(1, <<>>, {"base"}),
             From(1, <<"sub">>, {})}
TwoAbove == {From(2, <<"base">>, {"Store"}), From(1, <<"base">>, {"put"})}

Some(choices) == {<<>>} \cup {<<i>> : i \in choices}

Checkouts ==
    {<<Outside(<<>>, "app", FALSE, TRUE, app, m),
       Outside(<<"store">>, "__init__", FALSE, TRUE, init, m),
       Base(d, hunks, parses),
       Outside(<<"store", "sub">>, "__init__", FALSE, TRUE, sub, <<"put">>),
       Outside(<<"store">>, "user", FALSE, parses, user, <<"get", "put">>),
       Outside(<<"tests">>, "test_a", TRUE, TRUE, a, <<"put">>),
       Outside(<<"tests">>, "test_b", TRUE, TRUE, <<From(0, <<"store", "base">>, {})>>, <<>>),
       Outside(<<>>, "web", FALSE, TRUE, <<From(0, <<"store", "base">>, {})>>, <<"put">>)>> :
          app \in Some(Absolute), init \in Some(Relative), sub \in Some(TwoAbove),
          user \in Some(Relative), a \in {<<>>, <<From(0, <<"store">>, {"base"})>>},
          m \in {<<>>, <<"put", "put">>}, d \in BOOLEAN, parses \in BOOLEAN,
          hunks \in {{}, {1}, {3}, {4, 5}, {2, 5}, 1..6}}
=============================================================================
