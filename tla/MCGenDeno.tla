------------------------------ MODULE MCGenDeno ------------------------------
(* A namespace with one declaration of every class, whose types vary.       *)
EXTENDS GenDeno

CONSTANT Small   \* a selection of the types

\* The newer schema, as `deno doc` writes it.
RECURSIVE Enc(_)
EncParam(p)   == [p EXCEPT !.tsType = Enc(@)]
EncFn(fd)     == [fd EXCEPT !.params = MapSeq(EncParam, @), !.returnType = Enc(@)]
EncMembers(m) ==
  [m EXCEPT !.constructors = MapSeq(LAMBDA ps : MapSeq(EncParam, ps), @),
            !.properties = MapSeq(EncParam, @),
            !.methods = MapSeq(EncFn, @),
            !.indexSignatures = MapSeq(Enc, @)]
Val(k, v) == [kind |-> k, value |-> v]
Enc(t) ==
  CASE t.kind = "keyword"       -> Val("keyword", t.keyword)
    [] t.kind = "literal"       -> Val("literal", t.literal)
    [] t.kind = "typeRef"       -> Val("typeRef", [t.typeRef EXCEPT !.typeParams = MapSeq(Enc, @)])
    [] t.kind = "union"         -> Val("union", MapSeq(Enc, t.union))
    [] t.kind = "intersection"  -> Val("intersection", MapSeq(Enc, t.intersection))
    [] t.kind = "array"         -> Val("array", Enc(t.array))
    [] t.kind = "tuple"         -> Val("tuple", MapSeq(Enc, t.tuple))
    [] t.kind = "rest"          -> Val("rest", Enc(t.rest))
    [] t.kind = "parenthesized" -> Val("parenthesized", Enc(t.parenthesized))
    [] t.kind = "optional"      -> Val("optional", Enc(t.optional))
    [] t.kind = "typeOperator"  -> Val("typeOperator", [t.typeOperator EXCEPT !.tsType = Enc(@)])
    [] t.kind = "mapped"        -> Val("mapped", [t.mappedType EXCEPT !.tsType = Enc(@), !.constraint = Enc(@)])
    [] t.kind = "typeLiteral"   -> Val("typeLiteral", EncMembers(t.typeLiteral))
    [] OTHER                    -> t
EncDecl(e) ==
  [kind |-> e.kind,
   def |-> CASE e.kind \in {"class", "interface"}      -> EncMembers(e.def)
             [] e.kind \in {"typeAlias", "variable"} -> [e.def EXCEPT !.tsType = Enc(@)]
             [] e.kind = "function"                  -> EncFn(e.def)
             [] OTHER                                -> e.def]

Prop(n, opt, t)    == [name |-> n, tsType |-> t, optional |-> opt, readonly |-> opt]
Param(n, opt, t)   == [kind |-> "identifier", name |-> n, optional |-> opt, tsType |-> t]
RestParam(n, t)    == [kind |-> "rest", name |-> n, optional |-> FALSE, tsType |-> t]
Fn(ps, ret)        == [params |-> ps, returnType |-> ret, typeParams |-> <<>>]
Method(n, k, st, ps, ret) ==
  [name |-> n, kind |-> k, isStatic |-> st, params |-> ps, returnType |-> ret, typeParams |-> <<"T">>]
Members(cs, ps, ms, is, ext) ==
  [constructors |-> cs, properties |-> ps, methods |-> ms, indexSignatures |-> is,
   callSignatures |-> <<>>, typeParams |-> <<>>, extends |-> ext]
Object(ps)   == TypeLiteral(Members(<<>>, ps, <<>>, <<>>, <<>>))
Index(t)     == TypeLiteral(Members(<<>>, <<>>, <<>>, <<t>>, <<>>))
AliasDef(t)  == [tsType |-> t, typeParams |-> <<>>]
Decl(k, n, d) == [kind |-> k, name |-> n, def |-> d]

String == Keyword("string")
Null   == Keyword("null")
Str    == Literal("string", "a")
Bag    == Object(<<Prop("n", TRUE, String)>>)

\* As the type of A.s this has no end: its struct has a field of its own shape.
Itself == Intersection(<<Ref("A", <<>>), Bag>>)

Few  == {String, Ref("A", <<>>), Union(<<Bag, Null>>), ArrayOf(Bag), Bag}
Basic ==
  Few \cup
  {Keyword("number"), Keyword("symbol"), Null, Ref("B", <<>>), Ref("E", <<>>), Ref("Date", <<>>),
   Ref("Uint8Array", <<>>), Ref("Gone", <<>>), Ref("Array", <<Ref("B", <<>>)>>),
   Union(<<String, Null>>), Union(<<Str, Literal("string", "b")>>),
   Union(<<Bag, Object(<<Prop("s", FALSE, Ref("B", <<>>))>>)>>),
   Object(<<Prop("n", FALSE, Union(<<Bag, Null>>))>>), Index(String), Index(Keyword("number")),
   Itself, Intersection(<<Ref("A", <<>>), String>>),
   Operator("readonly", ArrayOf(Str)), Mapped(Bag, Operator("keyof", Ref("T", <<>>))),
   Opaque("fnOrConstructor", {"B"}), Opaque("conditional", {"E"})}
Rich ==
  {Ref("M", <<>>), Union(<<Ref("M", <<>>), Null>>), Ref("T", <<>>),
   Ref("Record", <<String, String>>), Ref("Promise", <<Ref("M", <<>>)>>),
   Ref("Promise", <<Null>>), Ref("Promise", <<>>),
   Object(<<Prop("n", FALSE, Union(<<String, Null>>))>>),
   Tuple(<<RestOf(Mapped(Bag, Operator("keyof", Ref("T", <<>>))))>>), Tuple(<<String, String>>),
   Paren(Union(<<Ref("M", <<>>), Str>>)), OptionalOf(String)}

Groups(t, u) ==
  << <<Decl("interface", "A", Members(<<>>, <<Prop("n", FALSE, t), Prop("s", TRUE, u),
          Prop("a", TRUE, Union(<<Ref("A", <<>>), Null>>))>>, <<>>, <<>>, <<>>))>>,
     <<Decl("interface", "B", Members(<<>>, <<>>,
          <<Method("a", "method", FALSE, <<Param("n", FALSE, t), Param("s", TRUE, u), Param("a", TRUE, String)>>, u),
            Method("n", "getter", FALSE, <<>>, t),
            Method("n", "setter", FALSE, <<Param("n", FALSE, t)>>, NoType)>>, <<>>, <<"A">>)),
       Decl("variable", "B", [tsType |-> Ref("E", <<>>)])>>,
     <<Decl("class", "K", Members(<<<<>>, <<Param("n", TRUE, t), Param("s", TRUE, u)>>>>,
          <<Prop("s", FALSE, u)>>,
          <<Method("a", "method", TRUE, <<>>, Ref("K", <<>>)),
            Method("s", "method", FALSE, <<>>, This),
            Method("s", "method", FALSE, <<Param("n", TRUE, String)>>, This)>>, <<>>, <<>>))>>,
     <<Decl("typeAlias", "M", AliasDef(t))>>,
     <<Decl("enum", "E", [members |-> <<"a">>])>>,
     <<Decl("import", "i", [members |-> <<>>])>>,
     <<Decl("variable", "v", [tsType |-> u])>>,
     <<Decl("function", "k", Fn(<<>>, Ref("M", <<>>))),
       Decl("function", "k", Fn(<<Param("n", FALSE, t), Param("s", TRUE, u)>>, Ref("Promise", <<Ref("K", <<>>)>>))),
       Decl("function", "k", Fn(<<Param("s", FALSE, u)>>, Null))>>,
     <<Decl("function", "f", Fn(<<Param("n", FALSE, Bag), RestParam("s", ArrayOf(u))>>, u))>> >>

MakeDoc(schema, roots, t, u) ==
  LET groups == Groups(t, u)
      plain  == FlattenSeq(groups)
  IN [roots |-> roots, plain |-> plain,
      symbols |-> IF schema = "old" THEN plain
                  ELSE MapSeq(LAMBDA g : [name |-> g[1].name, declarations |-> MapSeq(EncDecl, g)], groups)]

MCDocs ==
  {MakeDoc(schema, roots, p[1], p[2]) :
     schema \in {"old", "new"},
     roots \in {<<"k">>, <<"v", "f", "Lost">>},
     p \in IF Small THEN Few \X Few
                  ELSE Basic \X ((Basic \ {Itself}) \cup Rich)}

MCPascal == [n |-> "N", s |-> "S", a |-> "A", v |-> "V", k |-> "K", f |-> "F"]
=============================================================================
