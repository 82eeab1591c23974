---------------------------- MODULE GenWasmExec ----------------------------
(***************************************************************************)
(* scripts/gen-wasm-exec/src/index.ts: the script that downloads the       *)
(* wasm_exec.js files of a Go and of a TinyGo release, patches them, and   *)
(* writes them into the assets and into the runner of Go's tests.  Every   *)
(* step may fail and ends the script where it stands; the user then runs   *)
(* it again, perhaps for other releases.                                   *)
(***************************************************************************)
EXTENDS WasmExecPatch

CONSTANTS
  GoTags, TinygoTags,       \* the releases a user may name
  WasmExec,                 \* Go's lib/wasm/wasm_exec.js, per Go tag
  WasmExecNode,             \* Go's lib/wasm/wasm_exec_node.js, per Go tag
  JsWasmExec,               \* Go's lib/wasm/go_js_wasm_exec, per Go tag
  TinygoWasmExec,           \* TinyGo's targets/wasm_exec.js, per TinyGo tag
  CheckedIn,                \* the tags the files in the tree were made from
  Missing,                  \* a URL that answers 404; an option not given
  Runs                      \* bound: how often the script is started

ASSUME TagsAssumption ==
  /\ DOMAIN WasmExec = GoTags /\ DOMAIN WasmExecNode = GoTags /\ DOMAIN JsWasmExec = GoTags
  /\ DOMAIN TinygoWasmExec = TinygoTags
  /\ CheckedIn.go \in GoTags /\ CheckedIn.tinygo \in TinygoTags
  /\ Missing \notin GoTags \union TinygoTags /\ Missing # Refused
ASSUME RunsAssumption == Runs \in Nat
ASSUME TextsAssumption ==
  /\ \A go \in GoTags :
       /\ WasmExec[go] # Missing => PublishedText(WasmExec[go], "globalThis")
       /\ WasmExecNode[go] # Missing => PublishedRunner(WasmExecNode[go])
  /\ \A tinygo \in TinygoTags :
       TinygoWasmExec[tinygo] # Missing => PublishedText(TinygoWasmExec[tinygo], "globalThis")

VARIABLES
  args,       \* --go and --tinygo of the last start, Missing when not given
  pc,         \* the step of Program it is at; 0 before it has read its options
  text,       \* what it has downloaded, then patched, per file
  status,     \* "running", "done", "failed"
  disk,       \* the five files in the tree; Missing: cut short by a failed write
  executable, \* the mode of go_js_wasm_exec has the x bits
  started     \* how often the script has been started

vars == <<args, pc, text, status, disk, executable, started>>

Paths == {"wasm_exec_go.js", "wasm_exec_tinygo.js", "wasm_exec.js",
          "wasm_exec_node.js", "go_js_wasm_exec"}

Op(op, on) == [op |-> op, on |-> on]

\* Faulty variant: each text is written as soon as it is patched.
ProgramEager ==
  << Op("fetch", "go"), Op("fetch", "tinygo"), Op("fetch", "node"), Op("fetch", "exec"),
     Op("patch", "go"), Op("write", "wasm_exec_go.js"), Op("write", "wasm_exec.js"),
     Op("patch", "tinygo"), Op("write", "wasm_exec_tinygo.js"),
     Op("patch", "node"), Op("write", "wasm_exec_node.js"),
     Op("write", "go_js_wasm_exec"), Op("chmod", "go_js_wasm_exec") >>

\* main after its options: the steps that may fail, in their order.
Program ==
  << Op("fetch", "go"), Op("fetch", "tinygo"), Op("fetch", "node"), Op("fetch", "exec"),
     Op("patch", "go"), Op("patch", "tinygo"), Op("patch", "node"),
     Op("write", "wasm_exec_go.js"), Op("write", "wasm_exec_tinygo.js"),
     Op("write", "wasm_exec.js"), Op("write", "wasm_exec_node.js"),
     Op("write", "go_js_wasm_exec"), Op("chmod", "go_js_wasm_exec") >>

\* Faulty variant: the runner's files are taken from a release of their own.
UpstreamPinned(file) ==
  CASE file = "go"     -> WasmExec[args.go]
    [] file = "tinygo" -> TinygoWasmExec[args.tinygo]
    [] file = "node"   -> WasmExecNode[CheckedIn.go]
    [] file = "exec"   -> JsWasmExec[args.go]

\* fetch.ts: the URL of each download names a release and a file of it.
Upstream(file) ==
  CASE file = "go"     -> WasmExec[args.go]
    [] file = "tinygo" -> TinygoWasmExec[args.tinygo]
    [] file = "node"   -> WasmExecNode[args.go]
    [] file = "exec"   -> JsWasmExec[args.go]

PatchOf(file) ==
  CASE file = "go"     -> TransformGo(text.go)
    [] file = "tinygo" -> TransformTinygo(text.tinygo)
    [] file = "node"   -> TransformNode(text.node)

\* The text each write puts in its file: the patched Go text goes into two.
Written(path) ==
  CASE path \in {"wasm_exec_go.js", "wasm_exec.js"} -> text.go
    [] path = "wasm_exec_tinygo.js" -> text.tinygo
    [] path = "wasm_exec_node.js"   -> text.node
    [] path = "go_js_wasm_exec"     -> text.exec

\* What the tree holds after the script has run for a pair of releases.
Tree(go, tinygo) ==
  [path \in Paths |->
    CASE path \in {"wasm_exec_go.js", "wasm_exec.js"} -> TransformGo(WasmExec[go])
      [] path = "wasm_exec_tinygo.js" -> TransformTinygo(TinygoWasmExec[tinygo])
      [] path = "wasm_exec_node.js"   -> TransformNode(WasmExecNode[go])
      [] path = "go_js_wasm_exec"     -> JsWasmExec[go]]

NoText == [file \in {"go", "tinygo", "node", "exec"} |-> Missing]

TypeOK ==
  /\ args.go \in GoTags \union {Missing} /\ args.tinygo \in TinygoTags \union {Missing}
  /\ pc \in 0 .. Len(Program) + 1
  /\ DOMAIN text = DOMAIN NoText /\ DOMAIN disk = Paths
  /\ status \in {"running", "done", "failed"}
  /\ executable \in BOOLEAN /\ started \in 0 .. Runs

Init ==
  /\ args = CheckedIn
  /\ pc = Len(Program) + 1 /\ text = NoText /\ status = "done"
  /\ disk = Tree(CheckedIn.go, CheckedIn.tinygo)
  /\ executable \in BOOLEAN          \* a checkout may lose the x bits
  /\ started = 0

-----------------------------------------------------------------------------
(* Actions *)

\* A start from the command line, with either option left out or not.
Start(go, tinygo) ==
  /\ status # "running" /\ started < Runs
  /\ args' = [go |-> go, tinygo |-> tinygo]
  /\ pc' = 0 /\ text' = NoText /\ status' = "running"
  /\ started' = started + 1
  /\ UNCHANGED <<disk, executable>>

\* Any failure ends in process.exit(1).
Fail == status' = "failed" /\ UNCHANGED <<args, pc, text, executable, started>>

\* parseArgs and the two checks of main.
ReadOptions ==
  /\ status = "running" /\ pc = 0
  /\ IF Missing \in {args.go, args.tinygo}
       THEN Fail /\ UNCHANGED disk
       ELSE pc' = 1 /\ UNCHANGED <<args, text, status, disk, executable, started>>

At(op) == status = "running" /\ pc \in DOMAIN Program /\ Program[pc].op = op
On == Program[pc].on
Advance ==
  /\ pc' = pc + 1
  /\ status' = IF pc = Len(Program) THEN "done" ELSE "running"

\* fetchText: the network may fail, and so may the answer.
Fetch ==
  /\ At("fetch")
  /\ \/ /\ Upstream(On) # Missing
        /\ text' = [text EXCEPT ![On] = Upstream(On)]
        /\ Advance /\ UNCHANGED <<args, disk, executable, started>>
     \/ Fail /\ UNCHANGED disk

PatchText ==
  /\ At("patch")
  /\ IF PatchOf(On) = Refused
       THEN Fail /\ UNCHANGED disk
       ELSE /\ text' = [text EXCEPT ![On] = PatchOf(On)]
            /\ Advance /\ UNCHANGED <<args, disk, executable, started>>

\* writeFile: a failure leaves the old file or a part of the new one.  The mode
\* it is given counts only for a file it creates; those of the tree exist.
WriteFile ==
  /\ At("write")
  /\ \/ /\ disk' = [disk EXCEPT ![On] = Written(On)]
        /\ Advance /\ UNCHANGED <<args, text, executable, started>>
     \/ Fail /\ disk' \in {disk, [disk EXCEPT ![On] = Missing]}

Chmod ==
  /\ At("chmod")
  /\ \/ executable' = TRUE /\ Advance /\ UNCHANGED <<args, text, disk, started>>
     \/ Fail /\ UNCHANGED disk

Next ==
  \/ \E go \in GoTags \union {Missing}, tinygo \in TinygoTags \union {Missing} :
       Start(go, tinygo)
  \/ ReadOptions \/ Fetch \/ PatchText \/ WriteFile \/ Chmod

Spec == Init /\ [][Next]_vars

-----------------------------------------------------------------------------
(* Properties *)

Patched(file) ==
  /\ started > 0 /\ status # "failed"
  /\ pc > CHOOSE i \in DOMAIN Program : Program[i] = Op("patch", file)

\* The tree changes only once this start has all of its four texts, patched:
\* a release whose files are refused, or that has none, touches nothing
\* (index.ts:85-95 after 76-90).
NothingWrittenEarly ==
  [][disk' # disk =>
       /\ text.go = TransformGo(WasmExec[args.go]) /\ text.go # Refused
       /\ text.tinygo = TransformTinygo(TinygoWasmExec[args.tinygo]) /\ text.tinygo # Refused
       /\ text.node = TransformNode(WasmExecNode[args.go]) /\ text.node # Refused
       /\ text.exec = JsWasmExec[args.go] /\ text.exec # Missing]_vars

\* A start that ends well leaves all five files made from the releases it was
\* asked for, whatever an earlier start that failed half way had left
\* (index.ts:92-106), the two copies of Go's wasm_exec.js being the same
\* (index.ts:102), and a runner that can be executed, also where the file was
\* there before without the mode (index.ts:106).
DoneIsWhole ==
  /\ TypeOK
  /\ status = "done" => disk = Tree(args.go, args.tinygo)
  /\ status = "done" /\ started > 0 => executable

\* What is not in a comment.
Live(src) == PreserveBlockComments(src)

\* What the patched run() looks like: it takes the context, declares one proxy
\* over the real global object before anything uses it, and hands Go no other
\* global object (transform-wasm-exec.ts:79-118).
RunSeesContext(src, g, uses) ==
  \E r \in DOMAIN src, p \in DOMAIN src :
    /\ RunMethods(src, g) = {r} /\ src[r].params = <<"instance", "context">>
    /\ Kinds(src, "proxy") = {p} /\ p \in RunBody(src, r) /\ src[p].target = g
    /\ StandaloneGlobals(src, r, g) = {}
    /\ Cardinality(Kinds(src, "use")) = uses
    /\ \A u \in Kinds(src, "use") : p < u /\ u \in RunBody(src, r)
ContextReachesGo ==
  /\ Patched("go") => RunSeesContext(Live(text.go), "globalThis", 2)
  /\ Patched("tinygo") =>
       \E g \in {"globalThis", "global"} : RunSeesContext(Live(text.tinygo), g, 1)

\* Undoing the three edits gives back the upstream text, comments, order and
\* indentation included: the round trip through the parser and the stand-ins
\* for comments loses nothing (post-process.ts:6-12, 40-44).  Only the legacy
\* TinyGo text also gets comment marks.
Unpatched(src) ==
  LET live == Live(src)
      back(i) ==
        CASE live[i].k = "run" /\ live[i].params = <<"instance", "context">> ->
               [src[i] EXCEPT !.params = <<"instance">>]
          [] live[i].k = "use" -> [src[i] EXCEPT !.k = "bare"]
          [] OTHER -> src[i]
  IN  RemoveAt([i \in DOMAIN src |-> back(i)], CHOOSE p \in Kinds(live, "proxy") : TRUE)
NoMarks(src) == SelectSeq(src, LAMBDA tok : tok.k \notin {"/*", "*/"})
NothingLostInPrint ==
  /\ Patched("go") => Unpatched(text.go) = WasmExec[args.go]
  /\ Patched("tinygo") =>
       LET raw == TinygoWasmExec[args.tinygo]
           undone == Unpatched(text.tinygo)
       IN  IF IsCurrentLayout(raw) THEN undone = raw ELSE NoMarks(undone) = NoMarks(raw)

\* In a legacy TinyGo text exactly the Node.js-only blocks end up in comments
\* added by the patch: all of each of them, and no line of anything else
\* (transform-tinygo.ts:27-30).
OnlyNodeBlocksOff ==
  Patched("tinygo") /\ ~IsCurrentLayout(TinygoWasmExec[args.tinygo]) =>
    LET lines(src) == SelectSeq(src, LAMBDA tok : tok.k \in {"open", "stmt", "close"}) IN
    lines(Live(text.tinygo))
      = SelectSeq(lines(Live(TinygoWasmExec[args.tinygo])), LAMBDA tok : tok.b = 0)

\* A runner that is written has each of its four edits once and none of the
\* lines they replace: it can start the instrumented instance with a context
\* declared before it is passed (transform-node.ts:1-19).
RunnerIsPatched ==
  Patched("node") =>
    LET at(line) == {i \in DOMAIN text.node : text.node[i] = line} IN
    /\ at("env") = {} /\ at("run") = {} /\ at("instantiate") = {}
    /\ \A line \in {"// env", "require", "tryCatch", "context", "importObject",
                    "instantiate with ready", "run with context"} :
         Cardinality(at(line)) = 1
    /\ \A c \in at("context"), r \in at("run with context") : c < r

\* A release that is not refused comes out of its patch with the edits the
\* workers need, each once, and otherwise as it was published.
PatchesAreExact ==
  ContextReachesGo /\ NothingLostInPrint /\ OnlyNodeBlocksOff /\ RunnerIsPatched
=============================================================================
