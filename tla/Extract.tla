------------------------------- MODULE Extract -------------------------------
(***************************************************************************)
(* scripts/gen-bindings/src/extract.ts: from the declarations of           *)
(* @cloudflare/workers-types to the intermediate representation that the   *)
(* Go generator reads.  The syntax tree is walked once, without the type   *)
(* checker: what is a type parameter is known from the enclosing           *)
(* declarations only, and declarations of one interface are merged when    *)
(* the second one is met.                                                  *)
(*                                                                         *)
(* A syntax node is a record with its kind in `node`, an IR node one with  *)
(* its kind in `k` (types) or `kind` (members, declarations).  The scope   *)
(* is a sequence of sets of names, pushed by the caller and popped by the  *)
(* return.  Left out: reading and writing the files, the texts of doc      *)
(* comments (a node has one or not) and of unsupported types.              *)
(***************************************************************************)
EXTENDS Naturals, Sequences, FiniteSets, SequencesExt, TLC

CONSTANTS
  Packages,   \* installed packages: [dirs, versionDate, source]
  Today       \* the day of the run

ASSUME TodayAssumption == Today \in Nat

VARIABLES
  package,   \* the installed @cloudflare/workers-types
  entry,     \* EntryPoint, NoEntry before it is found
  todo,      \* statements to visit, with their module and namespace prefix
  order,     \* declOrder
  decls      \* declsByKey

vars == <<package, entry, todo, order, decls>>

MapSeq(Op(_), s) == [i \in DOMAIN s |-> Op(s[i])]
Names(typeParams) == {typeParams[i].name : i \in DOMAIN typeParams}

-----------------------------------------------------------------------------
(* findEntryPoint.                                                         *)

NoEntry == [file |-> "none", date |-> 0]

\* The latest dated directory; a flat package has the date in its version,
\* or none, and then the day of the run stands for it.
FindEntryPoint(p) ==
  IF p.dirs # {} THEN [file |-> "dated", date |-> CHOOSE d \in p.dirs : \A e \in p.dirs : e <= d]
  ELSE [file |-> "flat", date |-> IF p.versionDate # 0 THEN p.versionDate ELSE Today]

-----------------------------------------------------------------------------
(* Types.                                                                  *)

Prim(n) == [k |-> "prim", name |-> n]
Unsupported == [k |-> "unsupported"]

Bound(n, scope) == \E i \in DOMAIN scope : n \in scope[i]

RECURSIVE ConvertType(_, _), ConvertMember(_, _)

\* A literal that is negated is a number, `null` is a primitive.
ConvertLiteralType(t) ==
  CASE t.literal = "null" -> Prim("null")
    [] t.literal \in {"template", "expression"} -> Unsupported
    [] OTHER -> [k |-> "literal", value |-> t.literal]

ConvertTypeRef(t, scope) ==
  IF t.args = <<>> /\ Bound(t.name, scope)   \* a qualified name is never bound
  THEN [k |-> "typeParam", name |-> t.name]
  ELSE [k |-> "ref", name |-> t.name, args |-> MapSeq(LAMBDA a : ConvertType(a, scope), t.args)]

ConvertParam(p, scope) ==
  [name |-> p.name, type |-> ConvertType(p.type, scope),
   optional |-> p.optional \/ p.initializer, rest |-> p.rest]

\* Named, optional and rest elements of a tuple are their types.
ConvertElement(e, scope) ==
  ConvertType(IF e.node \in {"namedMember", "optionalType", "restType"} THEN e.type ELSE e, scope)

\* Members without a form in the representation are dropped.
ConvertMembers(ms, scope) ==
  FlattenSeq(MapSeq(LAMBDA m : ConvertMember(m, scope), ms))

ConvertType(t, scope) ==
  LET In(u) == ConvertType(u, scope) IN
  CASE t.node = "none"          -> Prim("any")
    [] t.node = "keyword"       -> Prim(t.name)
    [] t.node = "parenthesized" -> In(t.type)
    [] t.node = "literal"       -> ConvertLiteralType(t)
    [] t.node = "typeRef"       -> ConvertTypeRef(t, scope)
    [] t.node = "array"         -> [k |-> "array", elem |-> In(t.type)]
    [] t.node = "tuple"         -> [k |-> "tuple", elems |-> MapSeq(LAMBDA e : ConvertElement(e, scope), t.types)]
    [] t.node = "union"         -> [k |-> "union", types |-> MapSeq(In, t.types)]
    [] t.node = "intersection"  -> [k |-> "intersection", types |-> MapSeq(In, t.types)]
    [] t.node = "typeLiteral"   -> [k |-> "object", members |-> ConvertMembers(t.members, scope)]
    [] t.node = "function"      -> [k |-> "function",
                                    params |-> MapSeq(LAMBDA p : ConvertParam(p, scope), t.params),
                                    returns |-> In(t.type)]
    [] OTHER                    -> Unsupported

\* A type parameter and its default, if it has one.
ConvertTypeParam(p, scope) ==
  [name |-> p.name,
   default |-> IF p.default.node = "none" THEN <<>> ELSE <<ConvertType(p.default, scope)>>]

ConvertTypeParams(ps, scope) == MapSeq(LAMBDA p : ConvertTypeParam(p, scope), ps)

\* Faulty variant: the parameters of a method are not in scope in its own types.
UnscopedMethod(m, scope) ==
  [kind |-> "method", name |-> m.name,
   params |-> MapSeq(LAMBDA p : ConvertParam(p, scope), m.params),
   returns |-> ConvertType(m.type, scope),
   typeParams |-> ConvertTypeParams(m.typeParams, scope)]

\* The type parameters are converted before their scope is pushed.
ConvertMethod(m, scope) ==
  LET inner == Append(scope, Names(m.typeParams)) IN
  [kind |-> "method", name |-> m.name,
   params |-> MapSeq(LAMBDA p : ConvertParam(p, inner), m.params),
   returns |-> ConvertType(m.type, inner),
   typeParams |-> ConvertTypeParams(m.typeParams, scope)]

ConvertMember(m, scope) ==
  CASE m.node = "property" -> <<[kind |-> "property", name |-> m.name, type |-> ConvertType(m.type, scope),
                                 optional |-> m.optional, readonly |-> m.readonly]>>
    [] m.node = "method"   -> <<ConvertMethod(m, scope)>>
    [] m.node = "index"    -> <<[kind |-> "index", keyType |-> ConvertType(m.key, scope),
                                 valueType |-> ConvertType(m.type, scope)]>>
    [] m.node = "getter"   -> <<[kind |-> "getter", name |-> m.name, type |-> ConvertType(m.type, scope)]>>
    [] m.node = "ctor"     -> <<[kind |-> "ctor", params |-> MapSeq(LAMBDA p : ConvertParam(p, scope), m.params)]>>
    [] OTHER               -> <<>>

ConvertHeritage(types, scope) ==
  MapSeq(LAMBDA t : [k |-> "ref", name |-> t.name,
                     args |-> MapSeq(LAMBDA a : ConvertType(a, scope), t.args)], types)

-----------------------------------------------------------------------------
(* Declarations.                                                           *)

DeclKinds == {"interface", "class", "alias"}
Containers == {"module", "global", "namespace"}

Qualify(prefix, name) == IF prefix = "" THEN name ELSE prefix \o "." \o name

DeclKey(module, kind, name) == <<module, kind, name>>

\* The declaration of a statement, its own type parameters in scope.
Declaration(stmt, module, prefix) ==
  LET scope == <<Names(stmt.typeParams)>>
      common == [kind |-> stmt.node, name |-> Qualify(prefix, stmt.name), module |-> module,
                 doc |-> stmt.doc, typeParams |-> ConvertTypeParams(stmt.typeParams, scope)]
  IN IF stmt.node = "alias"
     THEN common @@ [type |-> ConvertType(stmt.type, scope)]
     ELSE common @@ [extends |-> ConvertHeritage(stmt.heritage, scope),
                     members |-> ConvertMembers(stmt.members, scope)]

\* Faulty variant: the second declaration of an interface takes over.
ReplaceDecl(key, decl) ==
  /\ decls' = (key :> decl) @@ decls
  /\ order' = IF key \in DOMAIN decls THEN order ELSE Append(order, key)

\* Interfaces merge: members and bases are appended, the first doc stays.
AddDecl(key, decl) ==
  IF decl.kind = "interface" /\ key \in DOMAIN decls
  THEN /\ decls' = [decls EXCEPT ![key].members = @ \o decl.members,
                                 ![key].extends = @ \o decl.extends,
                                 ![key].doc = IF @ = "" THEN decl.doc ELSE @]
       /\ UNCHANGED order
  ELSE /\ decls' = (key :> decl) @@ decls
       /\ order' = Append(order, key)

Visit(stmts, module, prefix) ==
  MapSeq(LAMBDA s : [stmt |-> s, module |-> module, prefix |-> prefix], stmts)

\* What the statements of a block belong to: `declare module "m"` changes the
\* module, `declare global` nothing, a namespace adds to the prefix.
Block(v) ==
  LET s == v.stmt IN
  CASE s.node = "module" -> Visit(s.body, s.name, v.prefix)
    [] s.node = "global" -> Visit(s.body, v.module, v.prefix)
    [] OTHER             -> Visit(s.body, v.module, Qualify(v.prefix, s.name))

-----------------------------------------------------------------------------
Init ==
  /\ package \in Packages
  /\ entry = NoEntry
  /\ todo = <<>> /\ order = <<>> /\ decls = <<>>

Start ==
  /\ entry = NoEntry
  /\ entry' = FindEntryPoint(package)
  /\ todo' = Visit(package.source, "", "")
  /\ UNCHANGED <<package, order, decls>>

VisitDeclaration ==
  /\ todo # <<>> /\ Head(todo).stmt.node \in DeclKinds
  /\ LET v == Head(todo)
         d == Declaration(v.stmt, v.module, v.prefix)
     IN AddDecl(DeclKey(d.module, d.kind, d.name), d)
  /\ todo' = Tail(todo)
  /\ UNCHANGED <<package, entry>>

\* A module declaration without a block has nothing to visit.
VisitContainer ==
  /\ todo # <<>> /\ Head(todo).stmt.node \in Containers
  /\ todo' = Block(Head(todo)) \o Tail(todo)
  /\ UNCHANGED <<package, entry, order, decls>>

\* Functions, variables, enums and export statements have no representation.
Skip ==
  /\ todo # <<>> /\ Head(todo).stmt.node \notin DeclKinds \cup Containers
  /\ todo' = Tail(todo)
  /\ UNCHANGED <<package, entry, order, decls>>

Next == Start \/ VisitDeclaration \/ VisitContainer \/ Skip

Spec == Init /\ [][Next]_vars

Done == entry # NoEntry /\ todo = <<>>

-----------------------------------------------------------------------------
(* The representation that main writes, and what it must say.              *)

Ir == MapSeq(LAMBDA key : decls[key], order)

\* The declarations of the source, wherever they are, with their key, in the
\* order of the text.
RECURSIVE Sources(_, _, _)
Sources(stmts, module, prefix) ==
  FlattenSeq(MapSeq(
    LAMBDA s : CASE s.node \in DeclKinds -> <<[key |-> <<module, s.node, Qualify(prefix, s.name)>>, stmt |-> s]>>
                 [] s.node = "module"    -> Sources(s.body, s.name, prefix)
                 [] s.node = "global"    -> Sources(s.body, module, prefix)
                 [] s.node = "namespace" -> Sources(s.body, module, Qualify(prefix, s.name))
                 [] OTHER                -> <<>>, stmts))

Expected == Sources(package.source, "", "")

\* The names that occur in a type as type parameters it does not bind itself,
\* or as plain references.
RECURSIVE Uses(_, _)
UsesOf(s, k) == UNION {Uses(s[i], k) : i \in DOMAIN s}
MemberUses(m, k) ==
  CASE m.kind = "index" -> Uses(m.keyType, k) \cup Uses(m.valueType, k)
    [] m.kind = "ctor"  -> UNION {Uses(m.params[i].type, k) : i \in DOMAIN m.params}
    [] m.kind = "method" ->
         (UNION {Uses(m.params[i].type, k) : i \in DOMAIN m.params} \cup Uses(m.returns, k))
           \ (IF k = "typeParam" THEN Names(m.typeParams) ELSE {})
    [] OTHER            -> Uses(m.type, k)
Uses(t, k) ==
  CASE t.k = "typeParam" -> IF k = "typeParam" THEN {t.name} ELSE {}
    [] t.k = "ref"       -> (IF k = "ref" /\ t.args = <<>> THEN {t.name} ELSE {}) \cup UsesOf(t.args, k)
    [] t.k = "array"     -> Uses(t.elem, k)
    [] t.k = "tuple"     -> UsesOf(t.elems, k)
    [] t.k \in {"union", "intersection"} -> UsesOf(t.types, k)
    [] t.k = "object"    -> UNION {MemberUses(t.members[i], k) : i \in DOMAIN t.members}
    [] t.k = "function"  -> UNION {Uses(t.params[i].type, k) : i \in DOMAIN t.params} \cup Uses(t.returns, k)
    [] OTHER             -> {}

TypeOK ==
  /\ entry = NoEntry \/ entry.date \in Nat
  /\ \A i, j \in DOMAIN order : order[i] = order[j] => i = j
  /\ DOMAIN decls = Range(order)
  /\ \A key \in DOMAIN decls : <<decls[key].module, decls[key].kind, decls[key].name>> = key

\* What is a type parameter of a member is bound by the member or by its
\* declaration, and a plain reference to a bound name never passes for a type
\* of the package (ScopeStack; defaults of a method's own parameters are the
\* exception, they are converted outside of its scope).
ScopesAreLexical ==
  \A key \in DOMAIN decls : key[2] # "alias" =>
    LET d == decls[key] IN
    \A i \in DOMAIN d.members :
      LET m == d.members[i]
          own == IF m.kind = "method" THEN Names(m.typeParams) ELSE {}
          bound == Names(d.typeParams) \cup own
      IN /\ MemberUses(m, "typeParam") \subseteq Names(d.typeParams)
         /\ MemberUses(m, "ref") \cap bound = {}

\* Every declaration of the source is in the representation, under the module
\* and the namespace it stands in, once, in the order of the first one.
NothingLost ==
  Done => /\ {Expected[i].key : i \in DOMAIN Expected} = Range(order)
          /\ \A i, j \in DOMAIN order : i < j =>
               \E m \in DOMAIN Expected : /\ Expected[m].key = order[i]
                                          /\ \A n \in 1..m : Expected[n].key # order[j]

\* A merged interface has the members of all its declarations, in the order of
\* the text, and no member of another one.
MergeIsComplete ==
  Done => \A i \in DOMAIN Ir : Ir[i].kind # "alias" =>
            LET parts == SelectSeq(Expected, LAMBDA e : e.key = order[i])
                Count(e) == Cardinality({k \in DOMAIN e.stmt.members : e.stmt.members[k].node # "setter"})
                Named(e) == MapSeq(LAMBDA m : m.name,
                                   SelectSeq(e.stmt.members, LAMBDA m : m.node \in {"property", "method"}))
            IN /\ Len(Ir[i].members) = FoldLeft(LAMBDA n, e : n + Count(e), 0, parts)
               /\ MapSeq(LAMBDA m : m.name,
                         SelectSeq(Ir[i].members, LAMBDA m : m.kind \in {"property", "method"}))
                    = FlattenSeq(MapSeq(Named, parts))

\* The types come from the latest dated directory, or from the flat file.
NewestEntry ==
  entry # NoEntry =>
    IF package.dirs = {} THEN entry.file = "flat"
    ELSE entry.file = "dated" /\ entry.date \in package.dirs /\ \A d \in package.dirs : d <= entry.date

\* What main writes is the whole of the newest types: every declaration once,
\* in order, with every member, under a key that is its own.
IrIsWhole == TypeOK /\ NewestEntry /\ NothingLost /\ MergeIsComplete
=============================================================================
