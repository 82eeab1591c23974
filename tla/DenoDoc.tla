------------------------------- MODULE DenoDoc -------------------------------
(***************************************************************************)
(* What scripts/gen-deno reads: the output of `deno doc --json`, in either *)
(* of its two schemas, and how it becomes one declaration per name.        *)
(*                                                                         *)
(* A type of the older schema is [kind, <kind>: payload], of the newer one *)
(* [kind, value: payload].  norm* turn the newer into the older, on which  *)
(* everything else works; normElement and the loop over the namespace also *)
(* choose one of several declarations of a name.                           *)
(*                                                                         *)
(* Left out: doc comments, locations, computed and private members, and    *)
(* the qualifiers that lastSeg removes.  The types that no rule looks into *)
(* ("conditional", "infer", ...) keep only the names they mention.         *)
(***************************************************************************)
EXTENDS Naturals, Sequences, FiniteSets, SequencesExt

MapSeq(Op(_), s) == [i \in DOMAIN s |-> Op(s[i])]

-----------------------------------------------------------------------------
(* Types of the older schema.                                              *)

NoType           == [kind |-> "undefined"]
Keyword(k)       == [kind |-> "keyword", keyword |-> k]
Literal(k, v)    == [kind |-> "literal", literal |-> [kind |-> k, val |-> v]]
Ref(n, ps)       == [kind |-> "typeRef", typeRef |-> [typeName |-> n, typeParams |-> ps]]
Union(ts)        == [kind |-> "union", union |-> ts]
Intersection(ts) == [kind |-> "intersection", intersection |-> ts]
ArrayOf(t)       == [kind |-> "array", array |-> t]
Tuple(ts)        == [kind |-> "tuple", tuple |-> ts]
RestOf(t)        == [kind |-> "rest", rest |-> t]
Paren(t)         == [kind |-> "parenthesized", parenthesized |-> t]
OptionalOf(t)    == [kind |-> "optional", optional |-> t]
Operator(op, t)  == [kind |-> "typeOperator", typeOperator |-> [operator |-> op, tsType |-> t]]
Mapped(t, c)     == [kind |-> "mapped", mappedType |-> [tsType |-> t, constraint |-> c]]
TypeLiteral(m)   == [kind |-> "typeLiteral", typeLiteral |-> m]
This             == [kind |-> "this"]
Opaque(k, names) == [kind |-> k, mentions |-> names]   \* fnOrConstructor, ...

-----------------------------------------------------------------------------
(* norm*: from the newer schema to the older.                              *)

RECURSIVE NormType(_)

NormParam(p) == [p EXCEPT !.tsType = NormType(@)]

NormFnDef(fd) == [fd EXCEPT !.params = MapSeq(NormParam, @),
                            !.returnType = NormType(@)]

NormProperty(p) == [p EXCEPT !.tsType = NormType(@)]

NormMembers(def) ==
  [def EXCEPT !.constructors    = MapSeq(LAMBDA ps : MapSeq(NormParam, ps), @),
              !.properties      = MapSeq(NormProperty, @),
              !.methods         = MapSeq(NormFnDef, @),
              !.indexSignatures = MapSeq(NormType, @)]

\* Faulty variant: the element of an array is taken as it is.
ShallowNormType(t) ==
  LET v == t.value IN
  CASE t.kind = "keyword"  -> Keyword(v)
    [] t.kind = "union"    -> Union(MapSeq(NormType, v))
    [] t.kind = "array"    -> ArrayOf(v)
    [] OTHER -> t

NormType(t) ==
  LET v == t.value IN
  CASE t.kind = "undefined"     -> t
    [] t.kind = "keyword"       -> Keyword(v)
    [] t.kind = "literal"       -> Literal(v.kind, v.val)
    [] t.kind = "typeRef"       -> Ref(v.typeName, MapSeq(NormType, v.typeParams))
    [] t.kind = "union"         -> Union(MapSeq(NormType, v))
    [] t.kind = "intersection"  -> Intersection(MapSeq(NormType, v))
    [] t.kind = "array"         -> ArrayOf(NormType(v))
    [] t.kind = "tuple"         -> Tuple(MapSeq(NormType, v))
    [] t.kind = "rest"          -> RestOf(NormType(v))
    [] t.kind = "parenthesized" -> Paren(NormType(v))
    [] t.kind = "optional"      -> OptionalOf(NormType(v))
    [] t.kind = "typeOperator"  -> Operator(v.operator, NormType(v.tsType))
    [] t.kind = "mapped"        -> Mapped(NormType(v.tsType), NormType(v.constraint))
    [] t.kind = "typeLiteral"   -> TypeLiteral(NormMembers(v))
    [] OTHER                    -> t

-----------------------------------------------------------------------------
(* One element of several declarations.                                    *)

KindRank == [class |-> 5, interface |-> 4, typeAlias |-> 3, enum |-> 3,
             variable |-> 2, function |-> 1, namespace |-> 0]

Ranked(d) == d.kind \in DOMAIN KindRank
Width(d)  == IF d.kind = "function" THEN Len(d.def.params) ELSE 0

\* A function gives way to one with more parameters, another declaration to
\* one of a higher rank.
Better(d, best) ==
  IF d.kind = "function" /\ best.kind = "function"
  THEN Width(d) > Width(best)
  ELSE KindRank[d.kind] > KindRank[best.kind]

Best(decls) ==
  FoldLeft(LAMBDA best, d : IF Better(d, best) THEN d ELSE best, decls[1], decls)

NormDef(kind, def) ==
  CASE kind \in {"class", "interface"} -> NormMembers(def)
    [] kind = "typeAlias" -> [def EXCEPT !.tsType = NormType(@)]
    [] kind = "variable"  -> [def EXCEPT !.tsType = NormType(@)]
    [] kind = "function"  -> NormFnDef(def)
    [] OTHER -> def

\* An element of the newer schema has declarations, one of the older has not.
\* Declarations of a kind without a rank (an import) are no element.
NormElement(el) ==
  IF "declarations" \notin DOMAIN el THEN <<el>>
  ELSE LET decls == SelectSeq(el.declarations, Ranked) IN
       IF decls = <<>> THEN <<>>
       ELSE LET best == Best(decls) IN
            <<[kind |-> best.kind, name |-> el.name, def |-> NormDef(best.kind, best.def)]>>

\* The declarations of the namespace, in order.
NsElements(symbols) == FlattenSeq(MapSeq(NormElement, symbols))

\* The elements map as the sequence of its values, the first one of a name
\* replaced by an overload with more parameters.
Elements(nodes) ==
  LET Keep(els, e) ==
        LET same == {i \in DOMAIN els : els[i].name = e.name} IN
        IF e.kind \in {"namespace", "import"} THEN els
        ELSE IF same = {} THEN Append(els, e)
        ELSE LET i == CHOOSE i \in same : TRUE IN
             IF Width(e) > Width(els[i]) THEN [els EXCEPT ![i] = e] ELSE els
  IN FoldLeft(Keep, <<>>, nodes)

-----------------------------------------------------------------------------
(* collectTypeNames.                                                       *)

RECURSIVE TypeNames(_)

All(Names(_), s) == UNION {Names(s[i]) : i \in DOMAIN s}
\* Faulty variant: the result of a function is not looked into.
ArgumentNames(fd) == All(LAMBDA p : TypeNames(p.tsType), fd.params)
FnNames(fd)      == All(LAMBDA p : TypeNames(p.tsType), fd.params) \cup TypeNames(fd.returnType)
MemberNames(m)   ==
  All(LAMBDA ps : All(LAMBDA p : TypeNames(p.tsType), ps), m.constructors)
    \cup All(LAMBDA p : TypeNames(p.tsType), m.properties)
    \cup All(FnNames, m.methods)
    \cup All(TypeNames, m.indexSignatures)
    \cup Range(m.extends)

TypeNames(t) ==
  CASE t.kind = "typeRef"       -> {t.typeRef.typeName} \cup All(TypeNames, t.typeRef.typeParams)
    [] t.kind = "union"         -> All(TypeNames, t.union)
    [] t.kind = "intersection"  -> All(TypeNames, t.intersection)
    [] t.kind = "array"         -> TypeNames(t.array)
    [] t.kind = "tuple"         -> All(TypeNames, t.tuple)
    [] t.kind = "rest"          -> TypeNames(t.rest)
    [] t.kind = "parenthesized" -> TypeNames(t.parenthesized)
    [] t.kind = "optional"      -> TypeNames(t.optional)
    [] t.kind = "typeOperator"  -> TypeNames(t.typeOperator.tsType)
    [] t.kind = "mapped"        -> TypeNames(t.mappedType.tsType) \cup TypeNames(t.mappedType.constraint)
    [] t.kind = "typeLiteral"   -> MemberNames(t.typeLiteral)
    [] t.kind \in {"keyword", "literal", "undefined", "this"} -> {}
    [] OTHER                    -> t.mentions

CollectTypeNames(el) ==
  CASE el.kind \in {"class", "interface"} -> MemberNames(el.def)
    [] el.kind = "function" -> FnNames(el.def)
    [] el.kind \in {"typeAlias", "variable"} -> TypeNames(el.def.tsType)
    [] OTHER -> {}

-----------------------------------------------------------------------------
(* What the properties of a type literal or an interface amount to.        *)

Named(def, n) == CHOOSE p \in Range(def.properties) : p.name = n
Props(def) == [n \in {p.name : p \in Range(def.properties)} |->
                 [tsType |-> Named(def, n).tsType, optional |-> Named(def, n).optional]]

IsPropOnly(def) == def.methods = <<>> /\ def.callSignatures = <<>>

IsNullish(t) ==
  \/ t.kind = "keyword" /\ t.keyword \in {"null", "undefined", "void"}
  \/ t.kind = "literal" /\ t.literal.kind = "null"

IsString(t) == t.kind = "literal" /\ t.literal.kind = "string"

IsStringLiteralUnion(t) ==
  \/ IsString(t)
  \/ t.kind = "union" /\ \A i \in DOMAIN t.union : IsString(t.union[i])

Unresolved == <<>>

RECURSIVE PropMembers(_, _, _)

\* The alternative sets of properties of a type, or Unresolved when it is
\* not made of properties.  Seen names cut recursive aliases short.
PropMembers(els, t, seen) ==
  LET Of(m)   == PropMembers(els, m, seen)
      Join(a, b) == [k \in DOMAIN a \cup DOMAIN b |-> IF k \in DOMAIN b THEN b[k] ELSE a[k]]
      Product(as, bs) ==
        [i \in 1..(Len(as) * Len(bs)) |->
           Join(as[((i - 1) \div Len(bs)) + 1], bs[((i - 1) % Len(bs)) + 1])]
      AllResolved(ms) == \A i \in DOMAIN ms : Of(ms[i]) # Unresolved
  IN
  CASE t.kind = "parenthesized" -> Of(t.parenthesized)
    [] t.kind = "typeLiteral" ->
         IF IsPropOnly(t.typeLiteral) /\ t.typeLiteral.indexSignatures = <<>>
         THEN <<Props(t.typeLiteral)>> ELSE Unresolved
    [] t.kind = "typeRef" ->
         LET name == t.typeRef.typeName IN
         IF name \in seen \/ name \notin DOMAIN els THEN Unresolved
         ELSE CASE els[name].kind = "interface" ->
                     IF IsPropOnly(els[name].def) THEN <<Props(els[name].def)>> ELSE Unresolved
                [] els[name].kind = "typeAlias" ->
                     PropMembers(els, els[name].def.tsType, seen \cup {name})
                [] OTHER -> Unresolved
    [] t.kind = "union" ->
         IF AllResolved(t.union) THEN FlattenSeq(MapSeq(Of, t.union)) ELSE Unresolved
    [] t.kind = "intersection" ->
         IF AllResolved(t.intersection)
         THEN FoldLeft(Product, <<<<>>>>, MapSeq(Of, t.intersection))
         ELSE Unresolved
    [] OTHER -> Unresolved

Classify(els, el) ==
  CASE el.kind = "class" -> "wrapper"
    [] el.kind = "interface" -> IF IsPropOnly(el.def) THEN "struct" ELSE "wrapper"
    [] el.kind = "typeAlias" ->
         IF IsStringLiteralUnion(el.def.tsType) THEN "stralias"
         ELSE IF PropMembers(els, el.def.tsType, {el.name}) # Unresolved THEN "merged"
         ELSE "alias"
    [] OTHER -> el.kind
=============================================================================
