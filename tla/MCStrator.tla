------------------------------ MODULE MCStrator ------------------------------
(***************************************************************************)
(* Modules for TLC, in the manner of evaluation/ubench: a helper called    *)
(* with and without a lock and with different arguments; a function that   *)
(* returns with or without the lock, in a loop; mutual recursion, casts,   *)
(* a constant and a declaration; a function used before and after threads  *)
(* are created; a function that does not return, called with a lock; a     *)
(* function that locks the mutex of a struct it is given.                  *)
(***************************************************************************)
EXTENDS StratorPaths

(* Fields base and cast of a module: some values are computed from others. *)
From(values, f) == [v \in values |-> IF v \in DOMAIN f THEN f[v] ELSE NoValue]
None(values)    == [v \in values |-> NoValue]

Stmt(op, val, arg, fn, succ) ==
  [op |-> op, val |-> val, arg |-> arg, fn |-> fn, succ |-> succ]

St(op, val, succ)      == Stmt(op, val, NoValue, NoValue, succ)
CallOf(fn, arg, succ)  == Stmt("call", NoValue, arg, fn, succ)
Create(fn, arg, succ)  == Stmt("create", NoValue, arg, fn, succ)
Skip(succ)             == St("skip", NoValue, succ)
Return                 == St("ret", NoValue, <<>>)

Helper ==
  [root |-> "main", tasks |-> <<"main", "worker", "inc">>,
   first |-> [main |-> "m1", worker |-> "w1", inc |-> "i1"],
   formal |-> [main |-> NoValue, worker |-> "wa", inc |-> "p"],
   values |-> {"x", "y", "k", "p", "wa", "km", "kw"},
   base |-> From({"x", "y", "k", "p", "wa", "km", "kw"}, [km |-> "k", kw |-> "k"]),
   cast |-> None({"x", "y", "k", "p", "wa", "km", "kw"}),
   const |-> {},
   alias |-> {{"x", "p"}, {"y", "p"}, {"x", "wa"}, {"wa", "p"}},
   code |-> [m1 |-> Create("worker", "x", <<"m2">>),
             m2 |-> CallOf("inc", "x", <<"m3">>),
             m3 |-> St("lock", "km", <<"m4">>),
             m4 |-> CallOf("inc", "y", <<"m5">>),
             m5 |-> St("unlock", "km", <<"m6">>),
             m6 |-> St("pthread", NoValue, <<"m7">>),
             m7 |-> Return,
             w1 |-> St("lock", "kw", <<"w2">>),
             w2 |-> CallOf("inc", "wa", <<"w3">>),
             w3 |-> St("unlock", "kw", <<"w4">>),
             w4 |-> Return,
             i1 |-> St("load", "p", <<"i2">>),
             i2 |-> St("store", "p", <<"i3">>),
             i3 |-> Return]]

Branches ==
  [root |-> "main", tasks |-> <<"worker", "main">>,
   first |-> [main |-> "b1", worker |-> "v1", maybe |-> "c1"],
   formal |-> [main |-> NoValue, worker |-> "va", maybe |-> NoValue],
   values |-> {"x", "k", "kb", "va"},
   base |-> From({"x", "k", "kb", "va"}, [kb |-> "k"]),
   cast |-> None({"x", "k", "kb", "va"}),
   alias |-> {{"x", "va"}}, const |-> {},
   code |-> [b1 |-> Create("worker", "x", <<"b2">>),
             b2 |-> CallOf("maybe", NoValue, <<"b3">>),
             b3 |-> St("store", "x", <<"b4">>),
             b4 |-> Skip(<<"b5", "b2">>),
             b5 |-> St("unlock", "kb", <<"b6">>),
             b6 |-> Return,
             v1 |-> St("pthread", NoValue, <<"v2">>),
             v2 |-> St("load", "va", <<"v3">>),
             v3 |-> Return,
             c1 |-> Skip(<<"c2", "c3">>),
             c2 |-> St("lock", "k", <<"c3">>),
             c3 |-> Return]]

Recursion ==
  [root |-> "main", tasks |-> <<"main", "worker">>,
   first |-> [main |-> "r1", worker |-> "t1", even |-> "e1", odd |-> "o1", printf |-> NoValue],
   formal |-> [main |-> NoValue, worker |-> "ta", even |-> "e", odd |-> "o", printf |-> NoValue],
   values |-> {"x", "y", "yc", "c", "q", "ta", "e", "o"},
   base |-> From({"x", "y", "yc", "c", "q", "ta", "e", "o"}, [q |-> "x"]),
   cast |-> From({"x", "y", "yc", "c", "q", "ta", "e", "o"}, [yc |-> "y"]),
   alias |-> {{"x", "y"}}, const |-> {"c"},
   code |-> [r1 |-> Create("worker", "yc", <<"r2">>),
             r2 |-> CallOf("even", "x", <<"r3">>),
             r3 |-> St("store", "c", <<"r4">>),
             r4 |-> Stmt("bitcast", "q", "x", NoValue, <<"r5">>),
             r5 |-> St("store", "q", <<"r6">>),
             r6 |-> CallOf("printf", NoValue, <<"r7">>),
             r7 |-> Return,
             e1 |-> St("load", "e", <<"e2">>),
             e2 |-> Skip(<<"e3", "e5">>),
             e3 |-> CallOf("odd", "e", <<"e4">>),
             e4 |-> St("store", "e", <<"e5">>),
             e5 |-> Return,
             o1 |-> Skip(<<"o2", "o3">>),
             o2 |-> CallOf("even", "o", <<"o3">>),
             o3 |-> Return,
             t1 |-> St("pthread", NoValue, <<"t2">>),
             t2 |-> CallOf("even", "ta", <<"t3">>),
             t3 |-> Return]]

Early ==
  [root |-> "main", tasks |-> <<"main", "worker">>,
   first |-> [main |-> "n1", worker |-> "h1", reset |-> "g1"],
   formal |-> [main |-> NoValue, worker |-> "ha", reset |-> NoValue],
   values |-> {"x", "k", "ha"},
   base |-> None({"x", "k", "ha"}),
   cast |-> None({"x", "k", "ha"}),
   alias |-> {{"x", "ha"}}, const |-> {},
   code |-> [n1 |-> CallOf("reset", NoValue, <<"n2">>),
             n2 |-> Create("worker", "x", <<"n3">>),
             n3 |-> CallOf("reset", NoValue, <<"n4">>),
             n4 |-> Return,
             h1 |-> St("lock", "k", <<"h2">>),
             h2 |-> St("store", "ha", <<"h3">>),
             h3 |-> St("unlock", "k", <<"h4">>),
             h4 |-> Return,
             g1 |-> St("store", "x", <<"g2">>),
             g2 |-> Return]]

Endless ==
  [root |-> "main", tasks |-> <<"main", "worker">>,
   first |-> [main |-> "d1", worker |-> "f1", spin |-> "s1", add |-> "a1"],
   formal |-> [main |-> NoValue, worker |-> "fa", spin |-> "sp", add |-> NoValue],
   values |-> {"x", "k", "kd", "ka", "fa", "sp"},
   base |-> From({"x", "k", "kd", "ka", "fa", "sp"}, [kd |-> "k", ka |-> "k"]),
   cast |-> None({"x", "k", "kd", "ka", "fa", "sp"}),
   alias |-> {{"x", "fa"}}, const |-> {},
   code |-> [d1 |-> Create("worker", "x", <<"d2">>),
             d2 |-> St("lock", "kd", <<"d3">>),
             d3 |-> CallOf("spin", "x", <<"d4">>),
             d4 |-> CallOf("add", NoValue, <<"d5">>),
             d5 |-> Return,
             f1 |-> CallOf("add", NoValue, <<"f2">>),
             f2 |-> St("load", "fa", <<"f3">>),
             f3 |-> Return,
             s1 |-> Skip(<<"s2", "s3">>),
             s2 |-> St("store", "sp", <<"s1">>),
             s3 |-> Skip(<<>>),
             a1 |-> St("lock", "ka", <<"a2">>),
             a2 |-> St("store", "x", <<"a3">>),
             a3 |-> St("unlock", "ka", <<"a4">>),
             a4 |-> Return]]

(* The structs a and b are allocated with n bytes each.                    *)
Struct ==
  [root |-> "main", tasks |-> <<"main", "worker">>,
   first |-> [main |-> "l1", worker |-> "u1", lockit |-> "q1"],
   formal |-> [main |-> NoValue, worker |-> "w", lockit |-> "p"],
   values |-> {"x", "n", "a", "b", "w", "p", "ga", "gb", "gw", "gp"},
   base |-> From({"x", "n", "a", "b", "w", "p", "ga", "gb", "gw", "gp"},
                 [a |-> "n", b |-> "n", ga |-> "a", gb |-> "b", gw |-> "w", gp |-> "p"]),
   cast |-> None({"x", "n", "a", "b", "w", "p", "ga", "gb", "gw", "gp"}),
   alias |-> {}, const |-> {},
   code |-> [l1 |-> Create("worker", "b", <<"l2">>),
             l2 |-> CallOf("lockit", "a", <<"l3">>),
             l3 |-> St("unlock", "ga", <<"l4">>),
             l4 |-> CallOf("lockit", "b", <<"l5">>),
             l5 |-> St("store", "x", <<"l6">>),
             l6 |-> St("unlock", "gb", <<"l7">>),
             l7 |-> Return,
             u1 |-> St("lock", "gw", <<"u2">>),
             u2 |-> St("store", "x", <<"u3">>),
             u3 |-> St("unlock", "gw", <<"u4">>),
             u4 |-> Return,
             q1 |-> St("lock", "gp", <<"q2">>),
             q2 |-> Return]]

MCModules   == {Helper, Branches, Recursion, Early, Endless, Struct}
EarlyModule == {Early}
BothModes   == {"directed", "global"}
DirectedMode == {"directed"}
=============================================================================
