------------------------------ MODULE MCExtract ------------------------------
(* Sources of three statements: interfaces that merge or do not, a class, an *)
(* alias, and the three kinds of blocks around them.                         *)
EXTENDS Extract

NoNode      == [node |-> "none"]
Kw(n)       == [node |-> "keyword", name |-> n]
Lit(v)      == [node |-> "literal", literal |-> v]
Ref(n, as)  == [node |-> "typeRef", name |-> n, args |-> as]
Arr(t)      == [node |-> "array", type |-> t]
Tup(ts)     == [node |-> "tuple", types |-> ts]
Wrap(k, t)  == [node |-> k, type |-> t]
Many(k, ts) == [node |-> k, types |-> ts]
Obj(ms)     == [node |-> "typeLiteral", members |-> ms]
Par(n, t)   == [name |-> n, type |-> t, optional |-> FALSE, initializer |-> n = "b", rest |-> FALSE]
Fn(ps, t)   == [node |-> "function", params |-> ps, type |-> t]
TypeParam(n, d) == [name |-> n, default |-> d]

Prop(n, t)      == [node |-> "property", name |-> n, type |-> t, optional |-> FALSE, readonly |-> FALSE]
Meth(n, tps, ps, t) == [node |-> "method", name |-> n, typeParams |-> tps, params |-> ps, type |-> t]
Index(k, t)     == [node |-> "index", key |-> k, type |-> t]
Getter(n, t)    == [node |-> "getter", name |-> n, type |-> t]
Setter(n)       == [node |-> "setter", name |-> n]
Ctor(ps)        == [node |-> "ctor", params |-> ps]

T == Ref("T", <<>>)
U == Ref("U", <<>>)

Types == {T, U, Arr(Ref("I", <<T>>)), Many("union", <<Wrap("parenthesized", T), Lit("null"), Lit("a")>>),
          Tup(<<Wrap("restType", Arr(U)), Wrap("namedMember", T), Kw("string")>>),
          Fn(<<Par("a", T), Par("b", NoNode)>>, U),
          Obj(<<Prop("x", T), Meth("m", <<TypeParam("U", NoNode)>>, <<>>, U), Setter("x")>>),
          Many("intersection", <<Ref("N.T", <<>>), Wrap("conditional", T), Lit("template")>>)}

Interface(n, doc, ms) ==
  [node |-> "interface", name |-> n, doc |-> doc, typeParams |-> <<TypeParam("T", Kw("string"))>>,
   heritage |-> <<[name |-> "Base", args |-> <<T>>]>>, members |-> ms]
Class(n, t) ==
  [node |-> "class", name |-> n, doc |-> "", typeParams |-> <<TypeParam("T", NoNode), TypeParam("V", T)>>,
   heritage |-> <<>>, members |-> <<Ctor(<<Par("a", T)>>), Getter("g", t), Setter("g"), Index(Kw("string"), t)>>]
Alias(n, t) == [node |-> "alias", name |-> n, doc |-> "", typeParams |-> <<TypeParam("U", NoNode)>>, type |-> t]
In(k, n, b) == [node |-> k, name |-> n, body |-> b]

Leaves(t) == {Interface("I", "", <<Prop("p", t)>>),
              Interface("I", "doc", <<Meth("m", <<TypeParam("U", NoNode)>>, <<Par("a", t)>>, t), Setter("s")>>),
              Interface("I", "", <<Prop("x", Arr(t)), Prop("y", T)>>)}
Singles(t) == {Class("C", t), Alias("A", t), [node |-> "function", name |-> "f"]}
Blocks(t) == {In(k, n, <<i>>) : k \in Containers, n \in {"N"}, i \in Leaves(t) \cup {Class("C", t)}}
               \cup {In("module", "m", <<In("namespace", "N", <<i>>), In("global", "global", <<i>>)>>) : i \in Leaves(t)}

\* Classes and aliases are declared once in a scope.
HasClass(s) == s.node \in Containers /\ s.body[1].node = "class"
Legal(s) == /\ ~(HasClass(s[1]) /\ HasClass(s[3]) /\ s[1].node = s[3].node)
            /\ s[2].node = "class" => \A i \in {1, 3} : ~(HasClass(s[i]) /\ s[i].node = "global")

MCSources ==
  UNION {{<<a, b, c>> : a \in Leaves(t) \cup Blocks(t), b \in Leaves(t) \cup Singles(t), c \in Leaves(t) \cup Blocks(t)}
           : t \in Types}

MCPackages ==
  {[dirs |-> {}, versionDate |-> 7, source |-> s] : s \in {s \in MCSources : Legal(s)}}
    \cup {[dirs |-> d, versionDate |-> v, source |-> <<>>] : d \in SUBSET {3, 5, 7}, v \in {0, 6}}
=============================================================================
