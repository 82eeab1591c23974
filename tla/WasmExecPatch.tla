--------------------------- MODULE WasmExecPatch ---------------------------
(***************************************************************************)
(* The patches of scripts/gen-wasm-exec: what is done to the text of an    *)
(* upstream wasm_exec.js so that run() takes a runtime context and shows   *)
(* it to Go as globalThis.context, and to the script that runs Go's tests  *)
(* under Node.                                                             *)
(*                                                                         *)
(* A wasm_exec.js is a sequence of tokens: the statements, comment marks   *)
(* and lines the patches look for, field at being the indentation; a       *)
(* wasm_exec_node.js is a sequence of line names.                          *)
(***************************************************************************)
EXTENDS Integers, Sequences, FiniteSets, SequencesExt

CONSTANT
  Refused                   \* what a patch that throws returns

-----------------------------------------------------------------------------
(* post-process.ts *)

Mark(k) == [k |-> k]
Kinds(src, k) == {i \in DOMAIN src : src[i].k = k}

\* The members of S that come first after o: one, or none.
FirstAfter(S, o) == {c \in S : c > o /\ \A j \in S : j > o => c <= j}

\* The places in a /* ... */, its marks among them.  A mark in a comment opens
\* none, and a comment that is never closed is none.
Commented(src) ==
  UNION {UNION {o .. c : c \in FirstAfter(Kinds(src, "*/"), o)} : o \in Kinds(src, "/*")}

\* preserveBlockComments: every comment becomes an identifier of its own, which
\* stands for what is in it, here place by place.
PreserveBlockComments(src) ==
  [i \in DOMAIN src |-> IF i \in Commented(src) THEN [k |-> "hole", was |-> src[i]] ELSE src[i]]

\* restoreBlockComments: the identifiers back to what they stood for.
RestoreBlockComments(src) ==
  [i \in DOMAIN src |-> IF src[i].k = "hole" THEN src[i].was ELSE src[i]]

\* normalizeIndent, on one line: runs of four spaces after the leading tabs
\* become tabs.
NormalizeIndent(tok) ==
  IF "at" \in DOMAIN tok
    THEN [tok EXCEPT !.at = [tabs |-> @.tabs + @.spaces \div 4, spaces |-> @.spaces % 4]]
    ELSE tok

\* recast (external): a printer that may indent a statement near a change with
\* four spaces for some of the tabs.
Reprint(tok) ==
  IF "at" \in DOMAIN tok /\ tok.at.tabs > 1
    THEN [tok EXCEPT !.at = [tabs |-> 1, spaces |-> 4 * (@.tabs - 1) + @.spaces]]
    ELSE tok

-----------------------------------------------------------------------------
(* transform-wasm-exec.ts *)

\* babel (external): a comment that does not close, or closes twice, is not JS.
Parses(src) == Kinds(src, "/*") = {} /\ Kinds(src, "*/") = {}

GoAssigns(src, g) == {i \in Kinds(src, "go") : src[i].g = g}
RunMethods(src, g) == {r \in Kinds(src, "run") : \E c \in GoAssigns(src, g) : c < r}
RunBody(src, r) == {i \in DOMAIN src : i > r /\ \A e \in Kinds(src, "endrun") : e > r => i < e}
StandaloneGlobals(src, r, g) == {i \in RunBody(src, r) : src[i].k = "bare" /\ src[i].g = g}
ValuesStmts(src, r) == {i \in RunBody(src, r) : src[i].k = "values"}

\* The shape of an upstream file the patch was written for; it throws on
\* any other.
Expected(src, g, count) ==
  /\ Parses(src)
  /\ Cardinality(GoAssigns(src, g)) = 1
  /\ Cardinality(RunMethods(src, g)) = 1
  /\ \E r \in RunMethods(src, g) :
       /\ src[r].params = <<"instance">>
       /\ Cardinality(StandaloneGlobals(src, r, g)) = count
       /\ Cardinality(ValuesStmts(src, r)) = 1

\* The patch proper: run() gets the parameter, each standalone global of its
\* body becomes the proxy, and only then is the proxy's declaration put in
\* front of the value table.
PatchToken(src, r, g, i) ==
  CASE i = r -> [src[i] EXCEPT !.params = Append(@, "context")]
    [] i \in StandaloneGlobals(src, r, g) -> [src[i] EXCEPT !.k = "use"]
    [] OTHER -> src[i]

Patch(src, r, g) ==
  LET v == CHOOSE i \in ValuesStmts(src, r) : TRUE
      edited == [i \in DOMAIN src |-> PatchToken(src, r, g, i)]
  IN  InsertAt(edited, v, [k |-> "proxy", target |-> g, at |-> src[v].at])

TransformWasmExec(raw, g, count) ==
  LET source == PreserveBlockComments(raw) IN
  IF ~Expected(source, g, count) THEN Refused
  ELSE LET patched == Patch(source, CHOOSE i \in RunMethods(source, g) : TRUE, g)
           printed == [i \in DOMAIN patched |-> Reprint(patched[i])]
           restored == RestoreBlockComments(printed)
       IN  [i \in DOMAIN restored |-> NormalizeIndent(restored[i])]

\* transform-go.ts
TransformGo(raw) == TransformWasmExec(raw, "globalThis", 2)

-----------------------------------------------------------------------------
(* transform-tinygo.ts *)

\* Faulty variant: the block that spans two ifs ends with the first.
ClosesEach == <<1, 1, 1, 1, 1>>

\* NODEJS_BLOCKS: how many closing lines end each of the Node.js-only blocks.
Closes == <<1, 1, 1, 2, 1>>

Opening(src, b) == {i \in Kinds(src, "open") : src[i].b = b}
ClosesAfter(src, i) == {j \in Kinds(src, "close") : j > i}
NthClose(src, i, n) ==
  CHOOSE j \in ClosesAfter(src, i) : Cardinality({c \in ClosesAfter(src, i) : c <= j}) = n

BlocksFound(src) ==
  \A b \in DOMAIN Closes :
    \E i \in Opening(src, b) :
      /\ \A j \in Opening(src, b) : i <= j
      /\ Cardinality(ClosesAfter(src, i)) >= Closes[b]

\* findBlockRanges
BlockRange(src, b) ==
  LET start == CHOOSE i \in Opening(src, b) : \A j \in Opening(src, b) : i <= j
  IN  [start |-> start, end |-> NthClose(src, start, Closes[b])]

\* The ranges are those of the untouched source, so they are spliced from the
\* last to the first.
SortedRanges(src) ==
  SetToSortSeq({BlockRange(src, b) : b \in DOMAIN Closes}, LAMBDA a, b : a.start > b.start)

SpliceComment(src, range) ==
  SubSeq(src, 1, range.start - 1) \o <<Mark("/*")>>
    \o SubSeq(src, range.start, range.end) \o <<Mark("*/")>>
    \o SubSeq(src, range.end + 1, Len(src))

CommentOutNodejsBlocks(src) == FoldLeft(SpliceComment, src, SortedRanges(src))

IsCurrentLayout(src) == GoAssigns(src, "globalThis") # {}

TransformTinygo(raw) ==
  IF IsCurrentLayout(raw) THEN TransformWasmExec(raw, "globalThis", 1)
  ELSE IF ~BlocksFound(raw) THEN Refused
  ELSE TransformWasmExec(CommentOutNodejsBlocks(raw), "global", 1)

-----------------------------------------------------------------------------
(* transform-node.ts: four lines, each replaced where it stands exactly once *)

EnvEdit         == [line |-> "env",         by |-> <<"// env">>]
RequireEdit     == [line |-> "require",     by |-> <<"require", "tryCatch">>]
InstantiateEdit == [line |-> "instantiate",
                    by |-> <<"context", "importObject", "instantiate with ready">>]
RunEdit         == [line |-> "run",         by |-> <<"run with context">>]

\* replaceExactlyOnce
ReplaceExactlyOnce(src, edit) ==
  LET found == {i \in DOMAIN src : src[i] = edit.line}
      at == CHOOSE i \in found : TRUE
  IN  IF Cardinality(found) # 1 THEN Refused
      ELSE SubSeq(src, 1, at - 1) \o edit.by \o SubSeq(src, at + 1, Len(src))

\* The first line that is not found, or found twice, ends it.
ThenReplace(src, edit) == IF src = Refused THEN Refused ELSE ReplaceExactlyOnce(src, edit)

TransformNode(raw) ==
  ThenReplace(ThenReplace(ThenReplace(ReplaceExactlyOnce(
    raw, EnvEdit), RequireEdit), InstantiateEdit), RunEdit)

-----------------------------------------------------------------------------
(* What a release publishes.                                               *)

\* The tokens of an upstream text: no edit of the patch is among them, and
\* tabs indent it, with up to three spaces after them.
Indent == [tabs : Nat, spaces : 0 .. 3]
Token ==
       [k : {"/*", "*/", "endrun"}]
  \union [k : {"stmt"}, b : Nat, n : Nat, at : Indent]
  \union [k : {"open", "close"}, b : Nat]
  \union [k : {"go"}, g : STRING]
  \union [k : {"run"}, params : Seq(STRING \ {"context"}), at : Indent]
  \union [k : {"bare"}, g : STRING, at : Indent]
  \union [k : {"values"}, at : Indent]

\* run() mentions the global object in, or after, the value table, never
\* before it.
PublishedText(src, g) ==
  /\ src \in Seq(Token)
  /\ LET live == PreserveBlockComments(src) IN
     \A r \in RunMethods(live, g) :
       \A i \in StandaloneGlobals(live, r, g), v \in ValuesStmts(live, r) : v < i

\* A runner that holds no edit yet, and runs what it has instantiated.
PublishedRunner(src) ==
  /\ src \in Seq(STRING)
  /\ \A i \in DOMAIN src :
       src[i] \notin {"// env", "tryCatch", "context", "importObject",
                      "instantiate with ready", "run with context"}
  /\ \A i, j \in DOMAIN src : src[i] = "instantiate" /\ src[j] = "run" => i < j
=============================================================================
