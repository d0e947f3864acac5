------------------------------ MODULE MCLinking ------------------------------
EXTENDS LinkingProperties

Widget == <<"Widget">>
Gadget == <<"Gadget">>
Painter == <<"subclass", Widget>>      \* class Painter extends Widget, in TypeScript
Nothing == <<"undefined">>

Constant(t) == Node("constant", t, "", <<>>, <<>>)
Name(x, t) == Node("name", t, x, <<t>>, <<>>)
Narrow(x, t, declared) == Node("name", t, x, <<declared>>, <<>>)
Literal(t, es) == Node("literal", ArrayOf(t), "", <<>>, es)
Spread(t, e) == Node("spread", t, "", <<>>, <<e>>)
TypeNode(t) == Node("type", t, "", <<>>, <<>>)
Let(t, init) == Node("let", t, "", <<>>, <<TypeNode(t), init>>)
Declare(t) == Node("declare", t, "", <<>>, <<TypeNode(t)>>)
As(t, e) == Node("as", t, "", <<>>, <<e, TypeNode(t)>>)
New(t, as) == Node("new", t, "", FindConstructor(t, as), as)
Method(t, recv, x, as) == Node("method", t, x, Declared(recv.type, x), <<recv>> \o as)
Call(t, x, ps, as) == Node("call", t, x, ps, as)
Access(t, a, i) == Node("access", t, "", <<>>, <<a, i>>)
Get(a, x) == Node("get", Num, x, <<>>, <<a>>)
Set(a, x, e) == Node("set", Num, x, <<>>, <<a, e>>)
SetElement(a, i, e) == Node("set element", e.type, "", <<>>, <<a, i, e>>)
Assign(a, e) == Node("assign", e.type, "", <<>>, <<a, e>>)
ForOf(t, e) == Node("of", Nothing, "", <<>>, <<Node("declare", t, "", <<>>, <<>>), e>>)
ForIn(e) == Node("in", Nothing, "", <<>>, <<e>>)
Use(x) == Node("use", Nothing, x, <<>>, <<>>)
Callback(t) == Node("value", FunctionTo(t), "", <<>>, <<>>)
Eval(e) == Node("statement", Nothing, "", <<>>, <<e>>)

(* Elements of arrays, and a value for each.                               *)
Elements == {Num, Str, Optional(Num), Widget, ArrayOf(Num), ArrayOf(Widget)}
Value(t) == CASE t \in {Num, Str} -> Constant(t)
              [] IsArray(t) -> Literal(t[2], IF t[2] = Num THEN <<Constant(Num)>> ELSE <<Name("w", Widget)>>)
              [] OTHER -> Name("v", t)
A(t) == Name("a", ArrayOf(t))

Made(t) == {Let(ArrayOf(t), Literal(t, <<Value(t)>>)), Let(ArrayOf(t), Literal(Never, <<>>)),
            Let(ArrayOf(t), As(ArrayOf(t), Literal(Never, <<>>))), Let(ArrayOf(t), New(ArrayOf(t), <<>>)),
            Let(ArrayOf(t), Literal(t, <<Value(t), Spread(t, A(t))>>)), Let(ArrayOf(t), Call(ArrayOf(t), "f", <<>>, <<>>)),
            Declare(ArrayOf(t))}

(* One statement on an array.                                              *)
Used(t) ==
  {Eval(e) : e \in
     {Method(Num, A(t), "push", as) : as \in {<<>>, <<Value(t)>>, <<Name("v", t)>>, <<Value(t), Name("v", t)>>, <<Spread(t, A(t))>>}}
     \cup {Method(Optional(t), A(t), "pop", <<>>), Method(ArrayOf(t), A(t), "sort", <<>>), Method(ArrayOf(t), A(t), "sort", <<Callback(Num)>>),
           Method(Num, A(t), "indexOf", <<Value(t)>>), Method(Num, A(t), "indexOf", <<Name("v", t), Constant(Num)>>),
           Method(Num, A(t), "indexOf", <<Narrow("v", t, Optional(t))>>), Method(Num, A(t), "push", <<Narrow("v", t, Optional(t))>>),
           Method(ArrayOf(t), A(t), "splice", <<Constant(Num)>>), Method(ArrayOf(t), A(t), "splice", <<Constant(Num), Constant(Num)>>),
           Method(Str, A(t), "join", <<>>), Method(ArrayOf(t), A(t), "concat", <<Name("b", ArrayOf(t))>>),
           Method(ArrayOf(t), A(t), "concat", <<Literal(t, <<Value(t)>>)>>), Method(Str, A(t), "toString", <<>>),
           Method(<<"void">>, A(t), "forEach", <<Callback(Nothing)>>), Get(A(t), "length"), Set(A(t), "length", Constant(Num)),
           Access(t, A(t), Constant(Num)), SetElement(A(t), Constant(Num), Value(t)), Assign(A(t), Literal(Never, <<>>)),
           Assign(A(t), Literal(t, <<Value(t)>>))}}
  \cup {ForOf(t, A(t)), ForOf(Num, Method(<<"ArrayIterator", Num>>, A(t), "keys", <<>>)),
        ForOf(t, Method(<<"ArrayIterator", t>>, A(t), "values", <<>>)), ForIn(A(t))}
Arrays == UNION {{<<m, u>> : m \in Made(t), u \in Used(t)} : t \in Elements}

(* Calls within calls, and map.                                            *)
MapCall(t, u, recv) == Method(ArrayOf(u), recv, "map", <<Callback(u)>>)
Nested ==
  UNION {LET m == MapCall(t, u, A(t))
         IN {<<Let(ArrayOf(t), Literal(Never, <<>>)), s>> : s \in
              {Eval(m), Let(ArrayOf(u), m), Eval(Method(Num, m, "push", <<Name("v", u)>>)), Eval(Get(m, "length")),
               Eval(Method(ArrayOf(u), Name("b", ArrayOf(u)), "concat", <<m>>)), Eval(Call(Num, "f", <<ArrayOf(u)>>, <<m>>)),
               Eval(Access(u, m, Constant(Num))), ForOf(u, m), Eval(MapCall(u, t, m)), Eval(Call(Num, "f", <<ArrayOf(u)>>, <<Literal(Never, <<>>)>>)),
               Eval(Call(Num, "f", <<ArrayOf(ArrayOf(u))>>, <<Literal(ArrayOf(u), <<Literal(u, <<Name("v", u)>>)>>)>>)),
               Eval(Method(Num, Name("b", ArrayOf(ArrayOf(u))), "push", <<Literal(Never, <<>>)>>)),
               Let(ArrayOf(ArrayOf(u)), Literal(ArrayOf(u), <<Literal(u, <<Name("v", u)>>)>>)),
               Let(ArrayOf(ArrayOf(u)), Literal(ArrayOf(Never), <<Literal(Never, <<>>)>>))}} :
         t \in {Num, Optional(Num), Widget}, u \in Elements}

Mixed == {<<Let(ArrayOf(Optional(Num)), Literal(Num, <<Constant(Num)>>)), s>> :
            s \in {Eval(Method(Num, A(Optional(Num)), "push", <<Constant(Num)>>)), Eval(Method(Num, A(Optional(Num)), "indexOf", <<Constant(Num)>>)), ForOf(Optional(Num), A(Optional(Num)))}}
         \cup {<<Let(ArrayOf(Optional(Num)), Literal(Optional(Num), <<Constant(Num), Name("u", Nothing)>>))>>}

(* Maps and sets.                                                          *)
Keyed ==
  UNION {LET m == Name("m", MapOf(k, v))
         IN {<<Let(MapOf(k, v), New(MapOf(k, v), <<>>)), s>> : s \in
              {Eval(Method(MapOf(k, v), m, "set", <<Value(k), Value(v)>>)), Eval(Method(v, m, "get", <<Name("k", k)>>)), Eval(Get(m, "size")),
               Eval(Method(<<"void">>, m, "forEach", <<Callback(Nothing)>>)), Eval(Method(Bool, m, "remove", <<Value(k)>>)), ForOf(<<"tuple">>, m)}} :
         k \in {Num, Str, Widget}, v \in Elements}
  \cup UNION {LET s == Name("s", SetOf(t))
              IN {<<Let(SetOf(t), New(SetOf(t), <<>>)), st>> : st \in
                   {Eval(Method(SetOf(t), s, "add", <<Value(t)>>)), Eval(Method(Bool, s, "has", <<Narrow("v", t, Optional(t))>>)), ForOf(t, s), Eval(Get(s, "size"))}} :
              t \in Elements}
  \cup {<<Let(ArrayOf(t), Literal(Never, <<>>)), s>> :
          t \in {MapOf(Num, Widget), MapOf(ArrayOf(Widget), Gadget), SetOf(Gadget)}, s \in {Use("tuple"), ForIn(Name("o", <<"interface">>))}}

(* Classes of the project, strings and the operations of builtin classes.  *)
Ambient ==
  {<<Let(Widget, New(Widget, as)), Eval(Method(Nothing, Name("x", w), x[1], x[2]))>> :
     as \in {<<Constant(Num)>>, <<Constant(Str)>>, <<Constant(Str), Constant(Num)>>}, w \in {Widget, Gadget, Painter},
     x \in {<<"draw", <<Constant(Num)>>>>, <<"draw", <<Constant(Num), Constant(Num)>>>>, <<"draw", <<Narrow("n", Num, Optional(Num))>>>>, <<"area", <<>>>>}}
  \cup {<<Let(Gadget, New(Gadget, <<Constant(Num)>>)), Eval(Method(Nothing, Name("g", Gadget), x[1], x[2]))>> :
          x \in {<<"paint", <<>>>>, <<"spin", <<>>>>, <<"spin", <<Constant(Num), Constant(Str)>>>>, <<"spin", <<Spread(Num, A(Num))>>>>}}
  \cup {<<Eval(Method(t[1], Constant(Str), t[2], t[3]))>> :
          t \in {<<Bool, "startsWith", <<Constant(Str)>>>>, <<Bool, "startsWith", <<Constant(Str), Constant(Num)>>>>, <<ArrayOf(Str), "split", <<Constant(Str)>>>>,
                 <<Str, "slice", <<Constant(Num)>>>>, <<Str, "trim", <<>>>>, <<Str, "concat", <<Narrow("s", Str, Optional(Str))>>>>}}
  \cup {<<ForOf(Str, Constant(Str)), Use(x)>> : x \in DOMAIN OnDemand}

AllPrograms == Arrays \cup Nested \cup Mixed \cup Keyed \cup Ambient

(* The library may have instantiated map for itself.                       *)
AllExtras == {{}, {MapTo(<<"Array", CNumber>>, CString)}}
=============================================================================
