------------------------------ MODULE MCClosures ------------------------------
EXTENDS ClosuresProperties, OptionalParameters

N(x) == Name(x)
Look(x) == Eval(Name(x))

Closured(parent, params, body) == Function(parent, "closure", params, body)

(* Functions within functions, and the same names in several places. *)
Small == {Look("x"), Look("y")} \cup {Let(n, Lit) : n \in {"x", "y"}}
         \cup {Assign(n, Lit) : n \in {"x", "y"}} \cup {Block(n) : n \in {"x", "y"}}
Nesting ==
  {[m |-> Module(<<Let("x", Lit), Let("y", Lit), Fun("f"), Call("", "f", <<N("y")>>), Look("x"), Look("y")>>),
    f |-> Closured("m", <<Required(p)>>, <<s1, Fun("g"), s2, Call("", "g", <<Lit>>), Look("x"), Look("y")>>),
    g |-> Closured("f", <<Required(q)>>, <<s3, Look("x"), Look("y")>>)] :
    p \in {"x", "y", "z"}, q \in {"x", "y", "z"}, s1 \in Small, s2 \in Small \ {Look("y")}, s3 \in Small \ {Block("y")}}

(* A function that calls itself. *)
OnN == {Look("n"), Look("a"), Assign("n", Lit), Eval(Inc("n")), Let("b", N("n")), Call("a", "f", <<N("n")>>), Fun("g"), Call("", "g", <<>>), Swap("a", "b")}
Recursion ==
  {[m |-> Module(<<Let("x", Lit), Fun("f"), Call("x", "f", <<Lit>>), Look("x")>>),
    f |-> Closured("m", <<Required("n")>>, <<Let("a", Lit), s1, s2, Call("a", "f", <<e>>), s3, Return(N("a"))>>),
    g |-> Closured("f", <<>>, <<s4>>)] :
    s1 \in OnN, s2 \in OnN, s3 \in OnN \cup {Return(N("n"))}, e \in {Lit, N("n"), N("a")}, s4 \in {Look("n"), Eval(Inc("a"))}}

(* A function that returns a closure, which outlives the activation. *)
InG == {Look("n"), Look("a"), Look("x"), Eval(Inc("n")), Eval(Inc("a")), Eval(Inc("x")), Assign("a", Lit), Assign("n", Lit)}
InF == {Look("x"), Assign("a", Lit), Eval(Inc("n")), Let("b", Inc("a")), Swap("a", "x")}
Escape ==
  {[m |-> Module(<<Let("x", Lit), made[2], Let("h", N("f")), Let("k", N("f")), Call("h", "f", <<Lit>>),
                   Call("k", "f", <<N("x")>>), Call("", "h", <<>>), Call("", "k", <<>>), Call("", "h", <<>>), Look("x")>>),
    f |-> Closured("m", <<Required("n")>>, <<Let("a", N("n")), s1, made[1], s2, Return(N("g"))>>),
    g |-> Closured("f", <<>>, <<s3, s4>>)] :
    made \in {<<Fun("g"), Fun("f")>>, <<Arrow("g"), Expression("f")>>, <<Expression("g"), Arrow("f")>>},
    s1 \in InF, s2 \in {Look("x"), Assign("a", Lit), Swap("a", "n")},
    s3 \in InG, s4 \in {Look("n"), Look("a"), Eval(Inc("n")), Eval(Inc("a")), Assign("x", Lit)}}

(* Parameters and arguments of all kinds. *)
Formals == {<<Required("x"), Required("y")>>, <<Required("p"), Required("q")>>, <<Required("p"), Optional("q")>>,
            <<Optional("p"), Default("q", Lit)>>, <<Required("p"), Default("q", N("p"))>>,
            <<Default("p", N("x"))>>, <<Required("p"), Default("x", Lit)>>, <<Rest("p")>>,
            <<Required("p"), Rest("q")>>}
Actuals == {<<>>, <<Lit>>, <<Inc("x")>>, <<N("x"), Inc("x")>>, <<N("y"), N("x")>>, <<N("x"), N("y")>>, <<Spread("s")>>,
            <<Lit, Spread("s")>>, <<Spread("s"), Lit>>, <<Lit, N("x"), N("y")>>, <<Lit, Spread("s"), N("x")>>}
Names(ps) == [i \in 1..Len(ps) |-> ps[i].x]
Fits(ps, as) ==
  /\ \A i \in 1..Len(as) : as[i].kind = "spread" => HasRest(ps) /\ i > Fixed(ps)
  /\ Len(as) > Len(ps) => HasRest(ps)
  /\ \A i \in 1..Len(ps) : ps[i].kind = "required" => i <= Len(as)
Passing ==
  {[m |-> Module(<<Let("x", Lit), Let("y", Lit), Let("s", ArrayLit), Fun("f"), Fun("c"), Call("", "c", <<Lit>>), Call("", t[1], t[2]), Look("s"), Look("x")>>),
    c |-> Closured("m", <<Required(p)>>, <<s1, Call("", "f", t[2]), Look("x")>>),
    f |-> Closured("m", t[3], [i \in 1..Len(t[3]) |-> Look(t[3][i].x)] \o <<s2>>)] :
    p \in {"x", "p", "c0"}, s1 \in {Look("x"), Let("x", Lit), Let("p", Lit)}, s2 \in {Look("x"), Eval(Inc("x")), Eval(Inc("p"))},
    t \in {<<"f", as, ps>> : as \in Actuals, ps \in Formals} }
PassingFits == {p \in Passing : Fits(p["f"].params, p["c"].body[2].args)}

(* Bound functions: h expects what is left of the parameters of f. *)
AfterBind == {Call("", "f", <<Lit, Lit>>), Call("", "h", <<>>), Call("", "h", <<Lit>>), Bind("k", "f", <<Lit>>),
              Call("", "k", <<Lit>>), Call("", "c", <<N("h")>>), Look("x")}
Binding ==
  {[m |-> Module(<<Let("x", Lit), Fun("f"), Fun("c"), Bind("h", "f", as)>> \o us \o <<Look("x")>>),
    f |-> Closured("m", ps, <<Look("a"), Look("b"), Look("x")>>),
    c |-> Closured("m", <<Required("q")>>, <<Call("", "q", <<Lit>>)>>)] :
    as \in {<<Lit>>, <<Lit, Lit>>}, ps \in {<<Required("a"), Required("b")>>, <<Required("a"), Default("b", Lit)>>},
    us \in [1..3 -> AfterBind]}
BindingFits == {p \in Binding : \A i \in Of(p["m"], {"call"}) : p["m"].body[i].e.x = "h" =>
                  LET left == 2 - Len(p["m"].body[4].args)
                  IN Len(p["m"].body[i].args) \in (IF p["f"].params[2].kind = "default" THEN {0, left} ELSE {left})}

(* Generic functions and static methods. *)
InS == {Look("x"), Look("y"), Look("p"), Assign("x", Lit), Eval(Inc("y")), Let("x", Lit)}
Generated ==
  {[m |-> Module(<<Let("x", Lit), Let("y", Lit), u1, Fun("c"), Call("", "c", <<Lit>>), Call("", "s", <<e1>>), Call("", "c", <<Lit>>), Look("x")>>),
    c |-> Closured("m", <<Required(p)>>, <<u2, Call("", "s", <<e2>>), Look("x"), Look("y")>>),
    s |-> [Function("m", sort, <<Required("p")>>, <<s1, s2, Look("x")>>) EXCEPT !.text = "s"]] :
    u1 \in {Fun("s")}, sort \in {"generic", "static"}, p \in {"x", "p"}, u2 \in {Look("x"), Let("y", Lit), Let("p", Lit)},
    e1 \in {Lit, Inc("x")}, e2 \in {Lit, N("x"), Inc("y")}, s1 \in InS, s2 \in InS}
Generating == {[p EXCEPT !["m"].body = IF p["s"].sort = "static" THEN [@ EXCEPT ![3] = Look("x")] ELSE @] : p \in Generated}

(* A program that does nothing. *)
Unrun == [m |-> Module(<<>>)]

MCFamilies == <<Nesting, Recursion, Escape, PassingFits, BindingFits, Generating, {Unrun}>>

-----------------------------------------------------------------------------
(* C++ code that sets arguments of closures is independent of programs: it *)
(* runs instead of one of them.                                            *)

MCCounts == {1, 2, 8, 30, 31, 32, 33, 63}
MCPlaces == {0, 1, 2, 15, 29, 30, 31, 32, 62}

MCInit == Init /\ OptionalsInit

MCNext ==
  \/ count = 0 /\ Next /\ UNCHANGED optionalsVars
  \/ prog = Unrun /\ status = "running" /\ OptionalsNext /\ UNCHANGED vars

MCSpec == MCInit /\ [][MCNext]_<<vars, optionalsVars>>
=============================================================================
