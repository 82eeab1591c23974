------------------------------- MODULE GenDeno -------------------------------
(***************************************************************************)
(* scripts/gen-deno: the generator of the Go bindings for the Deno         *)
(* namespace.  From the declarations of the documentation (DenoDoc) it     *)
(* takes the ones the roots depend on, gives each a class, registers a Go  *)
(* struct for every object shape it meets, and emits types and functions.  *)
(*                                                                         *)
(* A Go type is the sequence of its constructors with a name at the end:   *)
(* <<"*", "Kv">>, <<"[]", "string">>.  A conversion keeps the Go type, what *)
(* its generated code does with a missing value (codec) and the flags that *)
(* steer the generator.  Emitted text is kept as what the properties ask   *)
(* of it: the names it declares and uses, and the functions it defines.    *)
(*                                                                         *)
(* Left out: the writing of the files and gofmt, doc comments, constants   *)
(* of enums, the order of the fields of a struct.                          *)
(***************************************************************************)
EXTENDS DenoDoc, TLC

CONSTANTS
  Docs,      \* the inputs: [symbols: the namespace, roots: names,
             \* plain: the same namespace in the older schema]
  Pascal     \* pascal(), on the names that occur in Docs

VARIABLES
  doc,       \* what was read
  phase,     \* where the script is
  nodes,     \* nsNode.namespaceDef.elements
  els,       \* elements, by name
  queue,     \* names whose dependencies are to be collected
  reached,
  class,     \* elemClass
  next,      \* the index of the loop over nodes
  gen        \* structDecls, structKeys, anonCounter and what was emitted

vars == <<doc, phase, nodes, els, queue, reached, class, next, gen>>

Gen0 == [structs |-> <<>>, keys |-> <<>>, anon |-> 0,
         decls |-> <<>>,   \* the names of emitted types, in order
         uses |-> {},      \* the type names that emitted code mentions
         funcs |-> <<>>,   \* emitted functions
         asked |-> {}]     \* history: the shapes struct names were given to

-----------------------------------------------------------------------------
(* Conversions.                                                            *)

Conv(go, codec, nilable, scalar) ==
  [go |-> go, codec |-> codec, nilable |-> nilable, scalar |-> scalar, inline |-> FALSE]

StringConv  == Conv(<<"string">>, "scalar", FALSE, TRUE)
FloatConv   == Conv(<<"float64">>, "scalar", FALSE, TRUE)
BoolConv    == Conv(<<"bool">>, "scalar", FALSE, TRUE)
AnyConv     == Conv(<<"any">>, "any", TRUE, FALSE)
JsValueConv == Conv(<<"js.Value">>, "js", TRUE, FALSE)
BigIntConv  == Conv(<<"uint64">>, "scalar", FALSE, TRUE)
BytesConv   == Conv(<<"[]byte">>, "bytes", TRUE, FALSE)
TimeConv    == Conv(<<"time.Time">>, "time", FALSE, FALSE)
StrMapConv  == Conv(<<"map[string]string">>, "map", TRUE, FALSE)
SliceConv(elem) == Conv(<<"[]">> \o elem.go, "slice", TRUE, FALSE)
PtrConv(base)   == Conv(<<"*">> \o base.go, "ptr", TRUE, FALSE)
WrapperConv(n)  == Conv(<<"*", n>>, "wrapper", TRUE, FALSE)
StructConv(n, inline) == [Conv(<<n>>, "struct", FALSE, FALSE) EXCEPT !.inline = inline]
AliasConv(n, inner)   == [inner EXCEPT !.go = <<n>>, !.inline = FALSE]

Builtin == {"string", "float64", "bool", "any", "js.Value", "uint64", "[]byte",
            "time.Time", "map[string]string"}

KeywordConv(k) == CASE k = "string"  -> StringConv
                    [] k = "number"  -> FloatConv
                    [] k = "boolean" -> BoolConv
                    [] k = "bigint"  -> BigIntConv
                    [] k = "symbol"  -> JsValueConv
                    [] OTHER         -> AnyConv

LiteralConv(k) == CASE k = "string"  -> StringConv
                    [] k = "number"  -> FloatConv
                    [] k = "boolean" -> BoolConv
                    [] OTHER         -> AnyConv

\* What JavaScript gets for a Go value that is nil, and for one that is not.
ToJS(c, x) == IF x # "nil" THEN "value"
              ELSE CASE c.codec \in {"any", "bytes"} -> "null"
                     [] c.codec = "slice" -> "value"     \* an empty array
                     [] OTHER -> "undefined"

\* What Go gets: a scalar, a struct and a time have a zero value instead of
\* nil, and StrRecordToMap makes an empty map.
FromJS(c, j) == IF j \in {"null", "undefined"} /\ c.nilable /\ c.codec # "map"
                THEN "nil" ELSE "value"

-----------------------------------------------------------------------------
(* The registry of structs.                                                *)

Plain(c, g) == [conv |-> c, gen |-> g]
OrNil(r)    == IF r.conv.nilable THEN r ELSE Plain(PtrConv(r.conv), r.gen)

RECURSIVE MapType(_, _, _, _), FreshName(_, _, _, _)

StructNames(g) == {g.structs[i].name : i \in DOMAIN g.structs}

FreshName(preferred, name, selfName, g) ==
  IF (~selfName /\ name \in DOMAIN els) \/ name \in StructNames(g)
  THEN FreshName(preferred, preferred \o ToString(g.anon + 1), selfName, [g EXCEPT !.anon = @ + 1])
  ELSE [name |-> name, gen |-> g]

\* `deno doc` prints keywords, literals and references; of other types the
\* key has the kind only.
Repr(t) == CASE t.kind = "keyword" -> t.keyword
             [] t.kind = "literal" -> t.literal.val
             [] t.kind = "typeRef" -> t.typeRef.typeName
             [] OTHER -> t.kind

StructKey(members) ==
  MapSeq(LAMBDA m : {<<k, m[k].optional, Repr(m[k].tsType)>> : k \in DOMAIN m}, members)

PickFieldType(candidates) ==
  LET good == SelectSeq(candidates, LAMBDA c : ~IsNullish(c.tsType)) IN
  IF good # <<>> THEN good[1] ELSE candidates[1]

Candidates(n, members) ==
  MapSeq(LAMBDA m : m[n], SelectSeq(members, LAMBDA m : n \in DOMAIN m))

\* A field of the alternatives: required only if every one requires it.
AddField(acc, n, members, mapped) ==
  LET candidates == Candidates(n, members)
      required   == \A i \in DOMAIN members : n \in DOMAIN members[i] /\ ~members[i][n].optional
      nullable   == \E i \in DOMAIN candidates : IsNullish(candidates[i].tsType)
  IN [fields |-> Append(acc.fields, [json |-> n, optional |-> ~required,
                                     conv |-> (IF nullable THEN OrNil(mapped) ELSE mapped).conv]),
      gen |-> mapped.gen]

\* The fields of all alternatives: [fields, gen].
RegisterFields(members, preferred, ctx, g) ==
  FoldLeft(LAMBDA acc, n :
             AddField(acc, n, members,
                      MapType(PickFieldType(Candidates(n, members)).tsType,
                              [ctx EXCEPT !.owner = preferred], preferred \o Pascal[n], acc.gen)),
           [fields |-> <<>>, gen |-> g],
           SetToSeq(UNION {DOMAIN members[i] : i \in DOMAIN members}))

Registered(name, members, made) ==
  [name |-> name,
   gen  |-> [made.gen EXCEPT
               !.keys = (StructKey(members) :> name) @@ @,
               !.structs = Append(@, [name |-> name, fields |-> made.fields]),
               !.asked = @ \cup {<<members, name>>}]]

Known(name, members, g) ==
  [name |-> name, gen |-> [g EXCEPT !.asked = @ \cup {<<members, name>>}]]

RegisterStruct(preferred, members, ctx, selfName, g) ==
  LET fresh == FreshName(preferred, preferred, selfName, g) IN
  IF StructKey(members) \in DOMAIN g.keys
  THEN Known(g.keys[StructKey(members)], members, g)
  ELSE Registered(fresh.name, members, RegisterFields(members, preferred, ctx, fresh.gen))

-----------------------------------------------------------------------------
(* From a type to its conversion: [conv, gen].                             *)

Inline(r)       == Plain(StructConv(r.name, TRUE), r.gen)
Slice(elem)     == Plain(SliceConv(elem.conv), elem.gen)
StrMap(val)     == Plain(IF val.conv.go = <<"string">> THEN StrMapConv ELSE AnyConv, val.gen)
Alias(n, inner) == Plain(AliasConv(n, inner.conv), inner.gen)

InlineStruct(members, ctx, name, g) ==
  IF members = Unresolved THEN Plain(AnyConv, g)
  ELSE Inline(RegisterStruct(name, members, ctx, FALSE, g))

SliceOf(t, ctx, name, g) == Slice(MapType(t, ctx, name \o "Elem", g))

MapTuple(ts, ctx, name, g) ==
  IF Len(ts) = 1 /\ ts[1].kind = "rest"
  THEN LET inner == ts[1].rest IN
       SliceOf(IF inner.kind = "mapped" THEN inner.mappedType.tsType ELSE inner, ctx, name, g)
  ELSE Plain(SliceConv(AnyConv), g)

MapTypeLiteral(t, ctx, name, g) ==
  LET tl == t.typeLiteral IN
  IF tl.properties = <<>> /\ IsPropOnly(tl) /\ tl.indexSignatures # <<>>
  THEN StrMap(MapType(tl.indexSignatures[1], ctx, name \o "Val", g))
  ELSE InlineStruct(PropMembers(els, t, {}), ctx, name, g)

ClassOf(n) == IF n \in DOMAIN class THEN class[n] ELSE Classify(els, els[n])

MapElementRef(n, ctx, g) ==
  CASE ClassOf(n) = "wrapper"             -> Plain(WrapperConv(n), g)
    [] ClassOf(n) \in {"struct", "merged"} -> Plain(StructConv(n, FALSE), g)
    [] ClassOf(n) = "stralias"            -> Plain(Conv(<<n>>, "scalar", FALSE, TRUE), g)
    [] ClassOf(n) = "enum"                -> Plain(Conv(<<n>>, "scalar", FALSE, FALSE), g)
    [] ClassOf(n) = "alias"               -> Alias(n, MapType(els[n].def.tsType, ctx, n, g))
    [] OTHER                              -> Plain(JsValueConv, g)

IsKeyword(t, k) == t.kind = "keyword" /\ t.keyword = k

MapTypeRef(t, ctx, name, g) ==
  LET n == t.typeRef.typeName
      params == t.typeRef.typeParams
  IN
  CASE n = "Promise" -> Plain(AnyConv, g)
    [] n \in {"Uint8Array", "Uint8ClampedArray"} -> Plain(BytesConv, g)
    [] n = "Date" -> Plain(TimeConv, g)
    [] n = "URL" -> Plain(StringConv, g)
    [] n \in {"Array", "ReadonlyArray"} ->
         IF params # <<>> THEN SliceOf(params[1], ctx, name, g) ELSE Plain(SliceConv(AnyConv), g)
    [] n = "Record" ->
         Plain(IF Len(params) = 2 /\ IsKeyword(params[1], "string") /\ IsKeyword(params[2], "string")
               THEN StrMapConv ELSE AnyConv, g)
    [] OTHER ->
         IF n \in ctx.typeParams THEN Plain(AnyConv, g)
         ELSE IF n \notin DOMAIN els THEN Plain(JsValueConv, g)
         ELSE MapElementRef(n, ctx, g)

MapUnion(ts, ctx, name, g) ==
  LET rest    == SelectSeq(ts, LAMBDA m : ~IsNullish(m))
      Nullish(r) == IF Len(rest) # Len(ts) THEN OrNil(r) ELSE r
  IN
  CASE rest = <<>>    -> Plain(AnyConv, g)
    [] Len(rest) = 1  -> Nullish(MapType(rest[1], ctx, name, g))
    [] OTHER          ->
         IF \A i \in DOMAIN rest : IsString(rest[i]) THEN Nullish(Plain(StringConv, g))
         ELSE Nullish(InlineStruct(PropMembers(els, Union(rest), {}), ctx, name, g))

MapType(t, ctx, name, g) ==
  CASE t.kind = "keyword"       -> Plain(KeywordConv(t.keyword), g)
    [] t.kind = "literal"       -> Plain(LiteralConv(t.literal.kind), g)
    [] t.kind = "typeRef"       -> MapTypeRef(t, ctx, name, g)
    [] t.kind = "union"         -> MapUnion(t.union, ctx, name, g)
    [] t.kind = "intersection"  -> InlineStruct(PropMembers(els, t, {}), ctx, name, g)
    [] t.kind = "array"         -> SliceOf(t.array, ctx, name, g)
    [] t.kind = "tuple"         -> MapTuple(t.tuple, ctx, name, g)
    [] t.kind = "typeLiteral"   -> MapTypeLiteral(t, ctx, name, g)
    [] t.kind = "fnOrConstructor" -> Plain(JsValueConv, g)
    [] t.kind = "this"          -> Plain(WrapperConv(ctx.owner), g)
    [] t.kind = "typeOperator"  -> IF t.typeOperator.operator = "readonly"
                                   THEN MapType(t.typeOperator.tsType, ctx, name, g)
                                   ELSE Plain(AnyConv, g)
    [] t.kind = "parenthesized" -> MapType(t.parenthesized, ctx, name, g)
    [] t.kind = "rest"          -> MapType(t.rest, ctx, name, g)
    [] t.kind = "optional"      -> MapType(t.optional, ctx, name, g)
    [] t.kind = "mapped"        -> LET c == t.mappedType.constraint IN
                                   IF c.kind = "typeOperator" /\ c.typeOperator.operator = "keyof"
                                   THEN SliceOf(t.mappedType.tsType, ctx, name, g)
                                   ELSE Plain(AnyConv, g)
    [] OTHER                    -> Plain(AnyConv, g)

-----------------------------------------------------------------------------
(* Functions.                                                              *)

Use(c, g)    == [g EXCEPT !.uses = @ \cup {Last(c.go)}]
Declare(n, g) == [g EXCEPT !.decls = Append(@, n)]

\* Faulty variant: any optional scalar becomes variadic.
AnyVariadic(p, isLast, c) ==
  CASE p.kind = "rest" -> "rest"
    [] p.kind # "rest" /\ ~(p.optional \/ p.kind = "assign") ->
         IF c.inline THEN "reqPtr" ELSE "required"
    [] OTHER -> IF c.scalar THEN "optVar"
                ELSE IF c.nilable \/ c.inline THEN "opt" ELSE "ptr"

ParamKind(p, isLast, c) ==
  CASE p.kind = "rest" -> "rest"
    [] p.kind # "rest" /\ ~(p.optional \/ p.kind = "assign") ->
         IF c.inline THEN "reqPtr" ELSE "required"
    [] OTHER -> IF isLast /\ c.scalar THEN "optVar"
                ELSE IF c.nilable \/ c.inline THEN "opt" ELSE "ptr"

AddParam(acc, p, isLast, m) ==
  [params |-> Append(acc.params, [conv |-> m.conv, kind |-> ParamKind(p, isLast, m.conv)]),
   gen    |-> Use(m.conv, m.gen)]

BuildParams(ps, prefix, ctx, g) ==
  LET Type(p) == IF p.kind = "rest" /\ p.tsType.kind = "array" THEN p.tsType.array ELSE p.tsType
      Name(p) == prefix \o Pascal[p.name] \o (IF p.kind = "rest" THEN "Elem" ELSE "")
  IN FoldLeft(LAMBDA acc, i : AddParam(acc, ps[i], i = Len(ps),
                                       MapType(Type(ps[i]), ctx, Name(ps[i]), acc.gen)),
              [params |-> <<>>, gen |-> g], [i \in DOMAIN ps |-> i])

\* The Go type of a parameter.
ParamDecl(p) ==
  CASE p.kind \in {"rest", "optVar"}  -> <<"...">> \o p.conv.go
    [] p.kind \in {"reqPtr", "ptr"}   -> <<"*">> \o p.conv.go
    [] p.kind = "opt" /\ p.conv.inline -> <<"*">> \o p.conv.go
    [] OTHER                          -> p.conv.go

\* emitArgs: which parameters the arguments of the JavaScript call come from,
\* when given[i] values are passed for parameter i.
EmitArgs(params, given) ==
  FlattenSeq([i \in DOMAIN params |->
    CASE params[i].kind = "optVar" -> IF given[i] > 0 THEN <<i>> ELSE <<>>
      [] params[i].kind = "rest"   -> [k \in 1..given[i] |-> i]
      [] OTHER                     -> <<i>>])

IsPromise(t) == t.kind = "typeRef" /\ t.typeRef.typeName = "Promise"

\* fe: [recv, go, js, params, returnType, isNew, typeParams, ctx, prefix]
Owned(fe) == fe.isNew \/ fe.returnType.kind = "this"

\* What the function, or its promise, has for a result.
ResultType(rt) ==
  IF ~IsPromise(rt) THEN rt
  ELSE IF rt.typeRef.typeParams = <<>> THEN NoType ELSE rt.typeRef.typeParams[1]

IsVoid(fe) ==
  LET value == ResultType(fe.returnType) IN
  ~Owned(fe) /\ (value.kind = "undefined" \/ IsNullish(value))

AddFunc(fe, params, result, g) ==
  LET void == IsVoid(fe) IN
  [(IF void THEN g ELSE Use(result.conv, result.gen)) EXCEPT
     !.funcs = Append(@, [recv |-> fe.recv, go |-> fe.go, js |-> fe.js, params |-> params,
                          result |-> (IF void THEN <<>> ELSE <<result.conv.go>>)
                                       \o (IF IsPromise(fe.returnType) THEN <<<<"error">>>> ELSE <<>>)])]

FuncOf(fe, ctx, built) ==
  AddFunc(fe, built.params,
          IF Owned(fe) THEN Plain(WrapperConv(ctx.owner), built.gen)
          ELSE MapType(ResultType(fe.returnType), ctx, fe.prefix \o "Result", built.gen),
          built.gen)

EmitFunc(fe, g) ==
  LET ctx == [fe.ctx EXCEPT !.typeParams = @ \cup Range(fe.typeParams)] IN
  FuncOf(fe, ctx, BuildParams(fe.params, fe.prefix, ctx, g))

-----------------------------------------------------------------------------
(* Elements.                                                               *)

TypeNamesOut == {n \in DOMAIN class : class[n] \notin {"variable", "function"}}

FuncName(n) == IF Pascal[n] \in TypeNamesOut THEN "Get" \o Pascal[n] ELSE Pascal[n]

AddAccessor(recv, go, m) ==
  [Use(m.conv, m.gen) EXCEPT !.funcs = Append(@, [recv |-> recv, go |-> go, js |-> go,
                                                  params |-> <<>>, result |-> <<m.conv.go>>])]

Accessor(recv, go, t, name, ctx, g) == AddAccessor(recv, go, MapType(t, ctx, name, g))

Widest(seqs) == LET n == CHOOSE i \in DOMAIN seqs :
                           \A j \in DOMAIN seqs : Len(seqs[i]) > Len(seqs[j])
                                                  \/ (Len(seqs[i]) = Len(seqs[j]) /\ i <= j)
                IN seqs[n]

\* The methods that are emitted: of those with one name, the first of the
\* widest ones; a setter does not compete with its getter.
MethodMap(methods) ==
  LET Same(a, b) == a.name = b.name /\ (a.kind = "setter" <=> b.kind = "setter")
      Wins(i) == \A j \in DOMAIN methods : Same(methods[i], methods[j]) =>
                   \/ Len(methods[i].params) > Len(methods[j].params)
                   \/ Len(methods[i].params) = Len(methods[j].params) /\ i <= j
      Keep(acc, i) == IF Wins(i) THEN Append(acc, methods[i]) ELSE acc
  IN FoldLeft(Keep, <<>>, [i \in DOMAIN methods |-> i])

EmitWrapper(el, g) ==
  LET n   == el.name
      def == el.def
      ctx == [owner |-> n, typeParams |-> Range(def.typeParams)]
      Func(go, recv, js, params, ret, isNew, tps, prefix, h) ==
        EmitFunc([recv |-> recv, go |-> go, js |-> js, params |-> params, returnType |-> ret,
                  isNew |-> isNew, typeParams |-> tps, ctx |-> ctx, prefix |-> prefix], h)
      Ctor(h) == IF def.constructors = <<>> THEN h
                 ELSE Func("New" \o n, "", n, Widest(def.constructors), NoType, TRUE, <<>>,
                           n \o "New", h)
      Property(h, p) ==
        LET get == Accessor(n, Pascal[p.name], p.tsType, n \o Pascal[p.name], ctx, h)
        IN IF p.readonly THEN get
           ELSE [get EXCEPT !.funcs = Append(@, [recv |-> n, go |-> "Set" \o Pascal[p.name], js |-> p.name,
                                                 params |-> <<>>, result |-> <<>>])]
      Method(h, m) ==
        LET full == n \o Pascal[m.name] IN
        CASE m.kind = "getter" -> Accessor(n, Pascal[m.name], m.returnType, full, ctx, h)
          [] m.kind = "setter" -> Accessor(n, "Set" \o Pascal[m.name], m.params[1].tsType, full, ctx, h)
          [] m.isStatic -> Func(full, "", m.name, m.params, m.returnType, FALSE, m.typeParams, full, h)
          [] OTHER -> Func(Pascal[m.name], n, m.name, m.params, m.returnType, FALSE, m.typeParams, full, h)
  IN FoldLeft(Method, FoldLeft(Property, Ctor(Declare(n, g)), def.properties), MethodMap(def.methods))

ElementCtx(el) ==
  [owner |-> el.name, typeParams |-> IF el.kind \in {"class", "interface", "typeAlias"}
                                     THEN Range(el.def.typeParams) ELSE {}]

DeclareAlias(n, m) == Declare(n, Use(m.conv, m.gen))

EmitAlias(el, g) == DeclareAlias(el.name, MapType(el.def.tsType, ElementCtx(el), el.name, g))

EmitVariable(el, g) ==
  LET n == Pascal[el.name] IN
  Accessor("", "Get" \o n, el.def.tsType, n, [owner |-> n, typeParams |-> {}], g)

EmitNamespaceFunc(el, g) ==
  LET n == Pascal[el.name] IN
  EmitFunc([recv |-> "", go |-> FuncName(el.name), js |-> el.name, params |-> el.def.params,
            returnType |-> el.def.returnType, isNew |-> FALSE, typeParams |-> el.def.typeParams,
            ctx |-> [owner |-> n, typeParams |-> {}], prefix |-> n], g)

\* `type A = B` when the shape of A was registered as B.
StructAliasIfDeduped(n, r) == IF r.name = n THEN r.gen
                              ELSE [Declare(n, r.gen) EXCEPT !.uses = @ \cup {r.name}]

RegisterElement(el, g) ==
  LET members == IF class[el.name] = "struct" THEN <<Props(el.def)>>
                 ELSE PropMembers(els, el.def.tsType, {el.name})
  IN StructAliasIfDeduped(el.name, RegisterStruct(el.name, members, ElementCtx(el), TRUE, g))

EmitElement(el, g) ==
  CASE class[el.name] = "wrapper"  -> EmitWrapper(el, g)
    [] class[el.name] \in {"stralias", "enum"} -> Declare(el.name, g)
    [] class[el.name] = "alias"    -> EmitAlias(el, g)
    [] class[el.name] = "variable" -> EmitVariable(el, g)
    [] class[el.name] = "function" -> EmitNamespaceFunc(el, g)
    [] OTHER                       -> g

\* Faulty variant: absent scalars are read like required ones.
AlwaysDirect(f, j) == FromJS(f.conv, j)

\* emitStruct, one field: what fromJS assigns for a property that is j ...
FieldFromJS(f, j) ==
  IF ~f.optional \/ f.conv.nilable THEN FromJS(f.conv, j)
  ELSE IF j \in {"null", "undefined"} THEN "nil" ELSE "value"

\* ... and what toJS makes of the field: optional ones are left out if nil.
FieldToJS(f, x) ==
  IF f.optional THEN (IF x = "nil" THEN "undefined" ELSE ToJS(f.conv, x))
  ELSE IF f.conv.go[1] = "*" THEN (IF x = "nil" THEN "null" ELSE ToJS(f.conv, x))
  ELSE ToJS(f.conv, x)

EmitStruct(d, g) ==
  FoldLeft(LAMBDA h, f : Use(f.conv, h), Declare(d.name, g), d.fields)

-----------------------------------------------------------------------------
(* The script.                                                             *)

Eligible(e) == e.name \in reached /\ e.name \in DOMAIN els /\ els[e.name] = e

Init ==
  /\ doc \in Docs
  /\ phase = "read"
  /\ nodes = <<>> /\ els = <<>> /\ queue = <<>> /\ reached = {} /\ class = <<>>
  /\ next = 1
  /\ gen = Gen0

Read ==
  /\ phase = "read"
  /\ nodes' = NsElements(doc.symbols)
  /\ LET chosen == Elements(NsElements(doc.symbols)) IN
       els' = [n \in {chosen[i].name : i \in DOMAIN chosen} |->
                 CHOOSE e \in Range(chosen) : e.name = n]
  /\ queue' = doc.roots
  /\ phase' = "reach"
  /\ UNCHANGED <<doc, reached, class, next, gen>>

Visit(n, rest) ==
  IF n \in reached \/ n \notin DOMAIN els
  THEN queue' = rest /\ UNCHANGED reached
  ELSE /\ reached' = reached \cup {n}
       /\ queue' = rest \o SetToSeq((CollectTypeNames(els[n]) \cap DOMAIN els) \ reached')

\* One turn of the work list: the last name that was added.
Reach ==
  /\ phase = "reach" /\ queue # <<>>
  /\ Visit(Last(queue), Front(queue))
  /\ UNCHANGED <<doc, phase, nodes, els, class, next, gen>>

Classified ==
  /\ phase = "reach" /\ queue = <<>>
  /\ class' = [n \in reached |-> Classify(els, els[n])]
  /\ phase' = "register"
  /\ UNCHANGED <<doc, nodes, els, queue, reached, next, gen>>

\* One turn of the loop that gives declared shapes their own names first.
PreRegister ==
  /\ phase = "register" /\ next <= Len(nodes)
  /\ LET e == nodes[next] IN
       gen' = IF Eligible(e) /\ class[e.name] \in {"struct", "merged"}
              THEN RegisterElement(e, gen) ELSE gen
  /\ next' = next + 1
  /\ UNCHANGED <<doc, phase, nodes, els, queue, reached, class>>

StartEmitting ==
  /\ phase = "register" /\ next > Len(nodes)
  /\ phase' = "emit" /\ next' = 1
  /\ UNCHANGED <<doc, nodes, els, queue, reached, class, gen>>

EmitNode ==
  /\ phase = "emit" /\ next <= Len(nodes)
  /\ gen' = IF Eligible(nodes[next]) THEN EmitElement(nodes[next], gen) ELSE gen
  /\ next' = next + 1
  /\ UNCHANGED <<doc, phase, nodes, els, queue, reached, class>>

\* The structs that were collected, and the end.
EmitStructs ==
  /\ phase = "emit" /\ next > Len(nodes)
  /\ gen' = FoldLeft(LAMBDA g, d : EmitStruct(d, g), gen, gen.structs)
  /\ phase' = "done"
  /\ UNCHANGED <<doc, nodes, els, queue, reached, class, next>>

Next == \/ Read \/ Reach \/ Classified \/ PreRegister
        \/ StartEmitting \/ EmitNode \/ EmitStructs

Spec == Init /\ [][Next]_vars

-----------------------------------------------------------------------------
Done == phase = "done"
Distinct(s) == \A i, j \in DOMAIN s : s[i] = s[j] => i = j

\* The tables the phases hand on to one another agree.
TypeOK ==
  /\ phase \in {"read", "reach", "register", "emit", "done"}
  /\ \A n \in DOMAIN els : els[n].name = n /\ els[n] \in Range(nodes)
  /\ reached \subseteq DOMAIN els
  /\ DOMAIN class \subseteq reached
  /\ StructNames(gen) = {gen.keys[k] : k \in DOMAIN gen.keys}
                          \cup {a[2] : a \in gen.asked}
  /\ next \in 1..(Len(nodes) + 1)

\* The generated package is closed: whatever type its code names is a Go type
\* or is declared in it (the closure from the roots, mapTypeRef, emit*).
Closed == Done => gen.uses \subseteq Builtin \cup Range(gen.decls)

\* No two types or functions of the package have the same name: not two
\* structs, not an anonymous shape and a declaration, not a function and a
\* type ("so they keep their declared names ...", before the first loop).
DeclaredOnce ==
  Done => LET top == SelectSeq(gen.funcs, LAMBDA f : f.recv = "") IN
          Distinct(gen.decls \o MapSeq(LAMBDA f : f.go, top))

\* A property that is missing stays missing on the way to Go and back, one
\* that is there stays there: string maps are not told apart from empty ones.
AbsenceKept ==
  \A i \in DOMAIN gen.structs : \A k \in DOMAIN gen.structs[i].fields :
    LET f == gen.structs[i].fields[k] IN
    f.optional /\ f.conv.codec # "map" =>
      \A j \in {"undefined", "value"} : FieldToJS(f, FieldFromJS(f, j)) = j

\* A parameter of Go reaches the JavaScript function at its own place,
\* whichever optional ones are left out (the variadic form of buildParams).
ArgsInPlace ==
  \A i \in DOMAIN gen.funcs :
    LET ps == gen.funcs[i].params IN
    \A given \in [DOMAIN ps -> {0, 1}] :
      LET args == EmitArgs(ps, given) IN \A k \in DOMAIN args : args[k] = k

\* Of the overloads of a function the one with the most parameters is bound.
WidestBound ==
  Done => \A i \in DOMAIN gen.funcs : gen.funcs[i].recv = "" =>
            \A n \in DOMAIN els : els[n].kind = "function" /\ gen.funcs[i].js = n =>
              \A s \in Range(doc.symbols) : s.name = n =>
                LET decls == IF "declarations" \in DOMAIN s THEN s.declarations ELSE <<s>> IN
                \A d \in Range(decls) : Width(d) <= Len(gen.funcs[i].params)

\* What is emitted is a package: its tables agree, every name it uses is
\* declared, and nothing is declared twice.
Wellformed == TypeOK /\ Closed /\ DeclaredOnce

\* A call of a generated function reaches the JavaScript function it was made
\* from, of the widest overload and with every argument in its place.
CallsFit == ArgsInPlace /\ WidestBound

\* The same declarations, written in either schema, give the same elements
\* (norm*, normElement and the loop that keeps one overload).
SchemasAgree ==
  phase # "read" => {els[n] : n \in DOMAIN els} = Range(Elements(doc.plain))

\* What the comment above structAliasIfDeduped says: a struct stands for
\* several shapes only if they are identical.
ShapesKept == \A a, b \in gen.asked : a[2] = b[2] => a[1] = b[1]
=============================================================================
