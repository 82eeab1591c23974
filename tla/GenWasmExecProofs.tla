-------------------------- MODULE GenWasmExecProofs --------------------------
(***************************************************************************)
(* For any releases and any number of starts that fail at any step:        *)
(* nothing in the tree changes before all of a start's texts are there and *)
(* patched, and a start that ends well leaves the whole tree made from the *)
(* releases it was asked for.  For that the patches are not expanded.      *)
(*                                                                         *)
(* For any text of a wasm_exec.js in the layout of Go, which is TinyGo's   *)
(* current one, and any runner: a text that is not refused comes out of    *)
(* its patch with its edits, each where it belongs, and otherwise as it    *)
(* was published.                                                          *)
(***************************************************************************)
EXTENDS GenWasmExec, FiniteSetTheorems, FunctionTheorems, SequenceTheorems, TLAPS

Files == {"go", "tinygo", "node", "exec"}

\* The steps of Program that fetch, patch and write; go_js_wasm_exec is not
\* patched.
FetchAt(file) == CASE file = "go" -> 1 [] file = "tinygo" -> 2 [] file = "node" -> 3
                   [] file = "exec" -> 4
PatchAt(file) == CASE file = "go" -> 5 [] file = "tinygo" -> 6 [] file = "node" -> 7
                   [] file = "exec" -> 13
WriteAt(path) == CASE path = "wasm_exec_go.js" -> 8 [] path = "wasm_exec_tinygo.js" -> 9
                   [] path = "wasm_exec.js" -> 10 [] path = "wasm_exec_node.js" -> 11
                   [] path = "go_js_wasm_exec" -> 12

\* What a file of the releases asked for is once it is patched.
Result(file) == CASE file = "go" -> TransformGo(WasmExec[args.go])
                  [] file = "tinygo" -> TransformTinygo(TinygoWasmExec[args.tinygo])
                  [] file = "node" -> TransformNode(WasmExecNode[args.go])
                  [] file = "exec" -> JsWasmExec[args.go]

\* The texts and the tree are functions on the names the script uses.
ShapeInv ==
  /\ args.go \in GoTags \union {Missing} /\ args.tinygo \in TinygoTags \union {Missing}
  /\ pc \in 0..14 /\ started \in 0..Runs
  /\ text = [file \in Files |-> text[file]] /\ disk = [path \in Paths |-> disk[path]]
  /\ status \in {"running", "done", "failed"} /\ executable \in BOOLEAN

\* The texts are those of the releases asked for, as far as the start has come.
TextsInv ==
  /\ pc > 0 => Missing \notin {args.go, args.tinygo}
  /\ \A file \in Files :
       /\ pc > FetchAt(file) =>
            /\ Upstream(file) # Missing
            /\ text[file] = IF pc > PatchAt(file) THEN Result(file) ELSE Upstream(file)
       /\ file # "exec" /\ pc > PatchAt(file) => Result(file) # Refused

\* So are the files of the tree that it has written.
TreeInv == \A path \in Paths : pc > WriteAt(path) => disk[path] = Tree(args.go, args.tinygo)[path]

RunningInv == status = "running" => pc \in 0..13 /\ TextsInv /\ TreeInv

DoneInv ==
  status = "done" => /\ disk = Tree(args.go, args.tinygo)
                     /\ started > 0 => executable /\ pc = 14 /\ TextsInv

IInv == ShapeInv /\ RunningInv /\ DoneInv

-----------------------------------------------------------------------------
(* The program.                                                            *)

\* Which step is at which place.
LEMMA ProgramSteps ==
  /\ Len(Program) = 13 /\ DOMAIN Program = 1..13
  /\ \A i \in 1..13 :
       /\ Program[i].op = "fetch" => Program[i].on \in Files /\ i = FetchAt(Program[i].on)
       /\ Program[i].op = "patch" => /\ Program[i].on \in Files \ {"exec"}
                                     /\ i = PatchAt(Program[i].on)
       /\ Program[i].op = "write" => Program[i].on \in Paths /\ i = WriteAt(Program[i].on)
       /\ Program[i].op = "chmod" => i = 13
<1>1. Len(Program) = 13 /\ DOMAIN Program = 1..13
  BY DEF Program
<1>2. /\ Program[1] = Op("fetch", "go") /\ Program[2] = Op("fetch", "tinygo")
      /\ Program[3] = Op("fetch", "node") /\ Program[4] = Op("fetch", "exec")
      /\ Program[5] = Op("patch", "go") /\ Program[6] = Op("patch", "tinygo")
      /\ Program[7] = Op("patch", "node")
      /\ Program[8] = Op("write", "wasm_exec_go.js")
      /\ Program[9] = Op("write", "wasm_exec_tinygo.js")
      /\ Program[10] = Op("write", "wasm_exec.js")
      /\ Program[11] = Op("write", "wasm_exec_node.js")
      /\ Program[12] = Op("write", "go_js_wasm_exec")
      /\ Program[13] = Op("chmod", "go_js_wasm_exec")
  BY DEF Program
<1>3. \A op, on : Op(op, on).op = op /\ Op(op, on).on = on
  BY DEF Op
<1> HIDE DEF Program, Op
<1>4. ASSUME NEW i \in 1..4
      PROVE  Program[i].op = "fetch" /\ Program[i].on \in Files /\ i = FetchAt(Program[i].on)
  <2>1. i = 1 \/ i = 2 \/ i = 3 \/ i = 4
    OBVIOUS
  <2> QED
    BY <1>2, <1>3, <2>1 DEF Files, FetchAt
<1>5. ASSUME NEW i \in 5..7
      PROVE  /\ Program[i].op = "patch" /\ Program[i].on \in Files \ {"exec"}
             /\ i = PatchAt(Program[i].on)
  <2>1. i = 5 \/ i = 6 \/ i = 7
    OBVIOUS
  <2> QED
    BY <1>2, <1>3, <2>1 DEF Files, PatchAt
<1>6. ASSUME NEW i \in 8..12
      PROVE  Program[i].op = "write" /\ Program[i].on \in Paths /\ i = WriteAt(Program[i].on)
  <2>1. i = 8 \/ i = 9 \/ i = 10 \/ i = 11 \/ i = 12
    OBVIOUS
  <2> QED
    BY <1>2, <1>3, <2>1 DEF Paths, WriteAt
<1>7. Program[13].op = "chmod"
  BY <1>2, <1>3
<1>8. \A i \in 1..13 : i \in 1..4 \/ i \in 5..7 \/ i \in 8..12 \/ i = 13
  OBVIOUS
<1> QED
  BY <1>1, <1>4, <1>5, <1>6, <1>7, <1>8

\* The order of the steps: every text is fetched before any is patched, and
\* patched before anything is written.
LEMMA StepsOrder ==
  /\ \A file \in Files : FetchAt(file) \in 1..4 /\ PatchAt(file) \in {5, 6, 7, 13}
  /\ \A file \in Files \ {"exec"} : PatchAt(file) \in 5..7
  /\ PatchAt("exec") = 13
  /\ \A path \in Paths : WriteAt(path) \in 8..12
  /\ \A f, g \in Files : (FetchAt(f) = FetchAt(g) => f = g) /\ (PatchAt(f) = PatchAt(g) => f = g)
  /\ \A p, q \in Paths : WriteAt(p) = WriteAt(q) => p = q
<1>1. /\ FetchAt("go") = 1 /\ FetchAt("tinygo") = 2 /\ FetchAt("node") = 3 /\ FetchAt("exec") = 4
      /\ PatchAt("go") = 5 /\ PatchAt("tinygo") = 6 /\ PatchAt("node") = 7 /\ PatchAt("exec") = 13
  BY DEF FetchAt, PatchAt
<1>2. /\ WriteAt("wasm_exec_go.js") = 8 /\ WriteAt("wasm_exec_tinygo.js") = 9
      /\ WriteAt("wasm_exec.js") = 10 /\ WriteAt("wasm_exec_node.js") = 11
      /\ WriteAt("go_js_wasm_exec") = 12
  BY DEF WriteAt
<1>3. /\ \A file \in Files : FetchAt(file) \in 1..4 /\ PatchAt(file) \in {5, 6, 7, 13}
      /\ \A file \in Files \ {"exec"} : PatchAt(file) \in 5..7
      /\ \A f, g \in Files :
           (FetchAt(f) = FetchAt(g) => f = g) /\ (PatchAt(f) = PatchAt(g) => f = g)
  BY <1>1 DEF Files
<1>4. /\ \A path \in Paths : WriteAt(path) \in 8..12
      /\ \A p, q \in Paths : WriteAt(p) = WriteAt(q) => p = q
  BY <1>2 DEF Paths
<1> QED
  BY <1>1, <1>3, <1>4

-----------------------------------------------------------------------------
(* The steps.                                                              *)

\* A step of the program that succeeds, other than the last, from the place of
\* the step: what it has to establish.
LEMMA Advances ==
  ASSUME ShapeInv, status = "running", pc \in 1..12, Advance,
         UNCHANGED <<args, executable, started>>,
         text' = [file \in Files |-> text'[file]], disk' = [path \in Paths |-> disk'[path]],
         TextsInv', TreeInv'
  PROVE  IInv'
<1>1. pc' = pc + 1 /\ status' = "running"
  BY ProgramSteps DEF Advance
<1>2. pc' \in 0..13
  BY <1>1
<1> QED
  BY <1>1, <1>2 DEF IInv, ShapeInv, RunningInv, DoneInv

\* A step that fails: nothing is claimed of the tree.
LEMMA Fails ==
  ASSUME ShapeInv, Fail, disk' = [path \in Paths |-> disk'[path]]
  PROVE  IInv'
BY DEF IInv, ShapeInv, RunningInv, DoneInv, Fail

\* The release is the same, and so is what is made of it.
LEMMA SameRelease ==
  ASSUME UNCHANGED args
  PROVE  \A file : Upstream(file)' = Upstream(file) /\ Result(file)' = Result(file)
BY DEF Upstream, Result

\* A start reads its options later.
LEMMA StartInv == ASSUME IInv, NEW go \in GoTags \union {Missing},
                         NEW tinygo \in TinygoTags \union {Missing}, Start(go, tinygo)
                  PROVE  IInv'
<1>1. /\ args'.go = go /\ args'.tinygo = tinygo /\ pc' = 0 /\ status' = "running"
      /\ text' = NoText /\ UNCHANGED <<disk, executable>>
      /\ started \in Nat /\ started' \in 0..Runs
  BY RunsAssumption DEF Start, IInv, ShapeInv
<1>2. text' = [file \in Files |-> text'[file]]
  BY <1>1 DEF NoText, Files
<1>3. ShapeInv'
  BY <1>1, <1>2 DEF IInv, ShapeInv
<1>4. TextsInv' /\ TreeInv'
  BY <1>1, StepsOrder DEF TextsInv, TreeInv
<1> QED
  BY <1>1, <1>3, <1>4 DEF IInv, RunningInv, DoneInv

\* With both options there, the downloads begin.
LEMMA ReadOptionsInv == ASSUME IInv, ReadOptions PROVE IInv'
<1>1. CASE Missing \in {args.go, args.tinygo}
  BY <1>1, Fails DEF ReadOptions, IInv, ShapeInv
<1>2. CASE Missing \notin {args.go, args.tinygo}
  <2>1. pc' = 1 /\ status' = "running" /\ UNCHANGED <<args, text, status, disk, executable, started>>
    BY <1>2 DEF ReadOptions
  <2>2. TextsInv' /\ TreeInv'
    <3>1. Missing \notin {args'.go, args'.tinygo}
      BY <1>2, <2>1
    <3>2. /\ \A file \in Files : ~(pc' > FetchAt(file)) /\ ~(pc' > PatchAt(file))
          /\ \A path \in Paths : ~(pc' > WriteAt(path))
      BY <2>1, StepsOrder
    <3> QED
      BY <3>1, <3>2 DEF TextsInv, TreeInv
  <2> QED
    BY <2>1, <2>2 DEF IInv, ShapeInv, RunningInv, DoneInv
<1> QED
  BY <1>1, <1>2

\* The text that arrives is the one whose turn it is.
LEMMA FetchInv == ASSUME IInv, Fetch PROVE IInv'
<1>1. CASE Fail /\ UNCHANGED disk
  BY <1>1, Fails DEF IInv, ShapeInv
<1>2. CASE ~Fail
  <2>1. PICK f \in Files : f = On /\ pc = FetchAt(f)
    BY ProgramSteps DEF Fetch, At, On
  <2>2. /\ status = "running" /\ Upstream(f) # Missing /\ text' = [text EXCEPT ![f] = Upstream(f)]
        /\ Advance /\ UNCHANGED <<args, disk, executable, started>>
    BY <1>2, <2>1 DEF Fetch, At
  <2>3. ShapeInv /\ pc \in 1..12 /\ pc \in 1..4 /\ TextsInv /\ TreeInv /\ pc' = pc + 1
    BY <2>1, <2>2, StepsOrder DEF IInv, RunningInv, Advance
  <2>4. /\ text'[f] = Upstream(f) /\ \A g \in Files : g # f => text'[g] = text[g]
        /\ text' = [file \in Files |-> text'[file]]
    BY <2>2, <2>3 DEF ShapeInv
  <2>5. TextsInv'
    <3> SUFFICES ASSUME NEW g \in Files
                 PROVE  /\ pc' > FetchAt(g) => Upstream(g) # Missing /\ text'[g] = Upstream(g)
                        /\ ~(pc' > PatchAt(g))
      BY <2>2, <2>3, SameRelease DEF TextsInv
    <3>1. ~(pc' > PatchAt(g)) /\ ~(pc > PatchAt(g))
      BY <2>3, StepsOrder
    <3>2. pc' > FetchAt(g) => g = f \/ pc > FetchAt(g)
      BY <2>1, <2>3, StepsOrder
    <3> QED
      BY <2>2, <2>3, <2>4, <3>1, <3>2 DEF TextsInv
  <2>6. TreeInv'
    BY <2>3, StepsOrder DEF TreeInv
  <2>7. disk' = [path \in Paths |-> disk'[path]]
    BY <2>2, <2>3 DEF ShapeInv
  <2> QED
    BY <2>2, <2>3, <2>4, <2>5, <2>6, <2>7, Advances
<1> QED
  BY <1>1, <1>2 DEF Fetch

\* The text that is patched is the one downloaded for it.
LEMMA PatchTextInv == ASSUME IInv, PatchText PROVE IInv'
<1>1. CASE Fail /\ UNCHANGED disk
  BY <1>1, Fails DEF IInv, ShapeInv
<1>2. CASE ~Fail
  <2>1. PICK f \in Files \ {"exec"} : f = On /\ pc = PatchAt(f)
    BY ProgramSteps DEF PatchText, At, On
  <2>2. /\ status = "running" /\ PatchOf(f) # Refused /\ text' = [text EXCEPT ![f] = PatchOf(f)]
        /\ Advance /\ UNCHANGED <<args, disk, executable, started>>
    BY <1>2, <2>1 DEF PatchText, At
  <2>3. ShapeInv /\ pc \in 1..12 /\ pc \in 5..7 /\ TextsInv /\ TreeInv /\ pc' = pc + 1
    BY <2>1, <2>2, StepsOrder DEF IInv, RunningInv, Advance
  <2>4. /\ text'[f] = PatchOf(f) /\ \A g \in Files : g # f => text'[g] = text[g]
        /\ text' = [file \in Files |-> text'[file]]
    BY <2>2, <2>3 DEF ShapeInv
  <2>5. text[f] = Upstream(f)
    BY <2>1, <2>3, StepsOrder DEF TextsInv
  <2>6. PatchOf(f) = Result(f)
    BY <2>5 DEF PatchOf, Result, Upstream, Files
  <2>7. TextsInv'
    <3> SUFFICES ASSUME NEW g \in Files
                 PROVE  /\ text'[g] = IF pc' > PatchAt(g) THEN Result(g) ELSE Upstream(g)
                        /\ g # "exec" /\ pc' > PatchAt(g) => Result(g) # Refused
                        /\ Upstream(g) # Missing
      BY <2>2, <2>3, SameRelease DEF TextsInv
    <3>1. pc > FetchAt(g)
      BY <2>3, StepsOrder
    <3>2. CASE g = f
      BY <2>1, <2>2, <2>3, <2>4, <2>6, <3>1, <3>2, StepsOrder DEF TextsInv
    <3>3. CASE g # f
      <4>1. pc' > PatchAt(g) <=> pc > PatchAt(g)
        BY <2>1, <2>3, <3>3, StepsOrder
      <4> QED
        BY <2>3, <2>4, <3>1, <3>3, <4>1 DEF TextsInv
    <3> QED
      BY <3>2, <3>3
  <2>8. TreeInv'
    BY <2>3, StepsOrder DEF TreeInv
  <2>9. disk' = [path \in Paths |-> disk'[path]]
    BY <2>2, <2>3 DEF ShapeInv
  <2> QED
    BY <2>2, <2>3, <2>4, <2>7, <2>8, <2>9, Advances
<1> QED
  BY <1>1, <1>2 DEF PatchText

\* From the first write on, all texts are there.
LEMMA AllTexts ==
  ASSUME TextsInv, pc \in 8..13
  PROVE  /\ \A file \in Files : text[file] = Result(file) /\ Upstream(file) # Missing
         /\ \A file \in Files \ {"exec"} : Result(file) # Refused
         /\ Result("exec") # Missing
<1>1. \A file \in Files : pc > FetchAt(file)
  BY StepsOrder
<1>2. \A file \in Files \ {"exec"} : pc > PatchAt(file)
  BY StepsOrder
<1>3. ~(pc > PatchAt("exec")) /\ "exec" \in Files
  BY StepsOrder DEF Files
<1>4. Result("exec") = Upstream("exec")
  BY DEF Result, Upstream
<1> QED
  BY <1>1, <1>2, <1>3, <1>4 DEF TextsInv

\* The file that is written gets what the tree is to hold there.
LEMMA WriteFileInv == ASSUME IInv, WriteFile PROVE IInv'
<1>1. CASE Fail /\ disk' \in {disk, [disk EXCEPT ![On] = Missing]}
  <2>1. disk' = [path \in Paths |-> disk'[path]]
    BY <1>1 DEF IInv, ShapeInv
  <2> QED
    BY <1>1, <2>1, Fails DEF IInv
<1>2. CASE /\ disk' = [disk EXCEPT ![On] = Written(On)]
           /\ Advance /\ UNCHANGED <<args, text, executable, started>>
  <2>1. PICK p \in Paths : p = On /\ pc = WriteAt(p)
    BY ProgramSteps DEF WriteFile, At, On
  <2>2. /\ status = "running" /\ disk' = [disk EXCEPT ![p] = Written(p)]
        /\ Advance /\ UNCHANGED <<args, text, executable, started>>
    BY <1>2, <2>1 DEF WriteFile, At
  <2>3. /\ ShapeInv /\ pc \in 1..12 /\ pc \in 8..12 /\ pc \in 8..13 /\ TextsInv /\ TreeInv
        /\ pc' = pc + 1
    BY <2>1, <2>2, StepsOrder DEF IInv, RunningInv, Advance
  <2>4. /\ disk'[p] = Written(p) /\ \A q \in Paths : q # p => disk'[q] = disk[q]
        /\ disk' = [path \in Paths |-> disk'[path]]
    BY <2>2, <2>3 DEF ShapeInv
  <2>5. \A file \in Files : text[file] = Result(file)
    BY <2>3, AllTexts
  <2>6. Written(p) = Tree(args.go, args.tinygo)[p]
    BY <2>5 DEF Written, Tree, Result, Paths, Files
  <2>7. TreeInv'
    <3> SUFFICES ASSUME NEW q \in Paths, pc' > WriteAt(q)
                 PROVE  disk'[q] = Tree(args.go, args.tinygo)[q]
      BY <2>2 DEF TreeInv
    <3>1. q = p \/ pc > WriteAt(q)
      BY <2>1, <2>3, StepsOrder
    <3> QED
      BY <2>3, <2>4, <2>6, <3>1 DEF TreeInv
  <2>8. TextsInv'
    <3> SUFFICES ASSUME NEW g \in Files
                 PROVE  /\ text[g] = IF pc' > PatchAt(g) THEN Result(g) ELSE Upstream(g)
                        /\ g # "exec" => Result(g) # Refused
                        /\ Upstream(g) # Missing
      BY <2>2, <2>3, SameRelease DEF TextsInv
    <3>1. g = "exec" => ~(pc' > PatchAt(g)) /\ Upstream(g) = Result(g)
      BY <2>3, StepsOrder DEF Result, Upstream
    <3>2. g # "exec" => pc' > PatchAt(g)
      BY <2>3, StepsOrder
    <3> QED
      BY <2>3, <2>5, <3>1, <3>2, AllTexts
  <2>9. text' = [file \in Files |-> text'[file]]
    BY <2>2, <2>3 DEF ShapeInv
  <2> QED
    BY <2>2, <2>3, <2>4, <2>7, <2>8, <2>9, Advances
<1> QED
  BY <1>1, <1>2 DEF WriteFile

\* The last step: every file has been written.
LEMMA ChmodInv == ASSUME IInv, Chmod PROVE IInv'
<1>1. CASE Fail /\ UNCHANGED disk
  BY <1>1, Fails DEF IInv, ShapeInv
<1>2. CASE ~Fail
  <2>1. /\ status = "running" /\ pc = 13 /\ executable' = TRUE /\ pc' = 14 /\ status' = "done"
        /\ UNCHANGED <<args, text, disk, started>>
    BY <1>2, ProgramSteps DEF Chmod, At, Advance
  <2>2. \A path \in Paths : disk[path] = Tree(args.go, args.tinygo)[path]
    BY <2>1, StepsOrder DEF IInv, RunningInv, TreeInv
  <2>3. disk = [path \in Paths |-> Tree(args.go, args.tinygo)[path]]
    BY <2>2 DEF IInv, ShapeInv
  <2>4. disk = Tree(args.go, args.tinygo)
    BY <2>3 DEF Tree
  <2>5. /\ \A file \in Files : text[file] = Result(file) /\ Upstream(file) # Missing
        /\ \A file \in Files \ {"exec"} : Result(file) # Refused
    BY <2>1, AllTexts DEF IInv, RunningInv
  <2>6. TextsInv'
    <3>1. \A file \in Files : pc' > PatchAt(file)
      BY <2>1, StepsOrder
    <3>2. Missing \notin {args.go, args.tinygo}
      BY <2>1 DEF IInv, RunningInv, TextsInv
    <3> QED
      BY <2>1, <2>5, <3>1, <3>2, SameRelease DEF TextsInv
  <2> QED
    BY <2>1, <2>4, <2>6 DEF IInv, ShapeInv, RunningInv, DoneInv
<1> QED
  BY <1>1, <1>2 DEF Chmod

\* Every step keeps the invariant.
LEMMA NextInv == IInv /\ [Next]_vars => IInv'
<1> SUFFICES ASSUME IInv, [Next]_vars PROVE IInv'
  OBVIOUS
<1>1. CASE UNCHANGED vars
  BY <1>1 DEF IInv, ShapeInv, RunningInv, TextsInv, TreeInv, DoneInv, Upstream, Result, vars
<1> QED
  BY <1>1, StartInv, ReadOptionsInv, FetchInv, PatchTextInv, WriteFileInv, ChmodInv DEF Next

\* The tree of any two releases is a function on the five paths.
LEMMA TreeShape ==
  ASSUME NEW go, NEW tinygo
  PROVE  Tree(go, tinygo) = [path \in Paths |-> Tree(go, tinygo)[path]]
<1> DEFINE Text(path) ==
      CASE path \in {"wasm_exec_go.js", "wasm_exec.js"} -> TransformGo(WasmExec[go])
        [] path = "wasm_exec_tinygo.js" -> TransformTinygo(TinygoWasmExec[tinygo])
        [] path = "wasm_exec_node.js"   -> TransformNode(WasmExecNode[go])
        [] path = "go_js_wasm_exec"     -> JsWasmExec[go]
<1>1. Tree(go, tinygo) = [path \in Paths |-> Text(path)]
  BY DEF Tree
<1> HIDE DEF Text
<1> QED
  BY <1>1

\* The tree as it is checked in.
LEMMA InitInv == Init => IInv
<1> SUFFICES ASSUME Init PROVE IInv
  OBVIOUS
<1>1. Len(Program) = 13
  BY ProgramSteps
<1>2. ShapeInv
  <2>1. text = [file \in Files |-> text[file]]
    BY DEF Init, NoText, Files
  <2>2. disk = [path \in Paths |-> disk[path]]
    BY TreeShape DEF Init
  <2> QED
    BY <1>1, <2>1, <2>2, TagsAssumption, RunsAssumption DEF Init, ShapeInv
<1> QED
  BY <1>2 DEF Init, IInv, RunningInv, DoneInv

\* The inductive invariant.
THEOREM Invariance == Spec => []IInv
BY InitInv, NextInv, PTL DEF Spec

-----------------------------------------------------------------------------
(* What a run of the script leaves.                                        *)

\* The types of the variables follow.
LEMMA Types == IInv => TypeOK
<1>1. NoText = [file \in Files |-> Missing]
  BY DEF NoText, Files
<1>2. DOMAIN NoText = Files
  BY <1>1
<1>3. ShapeInv => DOMAIN text = Files /\ DOMAIN disk = Paths
  <2> SUFFICES ASSUME ShapeInv PROVE DOMAIN text = Files /\ DOMAIN disk = Paths
    OBVIOUS
  <2>1. DOMAIN text = DOMAIN [file \in Files |-> text[file]]
    BY DEF ShapeInv
  <2>2. DOMAIN disk = DOMAIN [path \in Paths |-> disk[path]]
    BY DEF ShapeInv
  <2> QED
    BY <2>1, <2>2
<1> QED
  BY <1>2, <1>3, ProgramSteps DEF IInv, ShapeInv, TypeOK

\* A start that ends well leaves all five files made from the releases it was
\* asked for and a runner that can be executed, whatever earlier starts that
\* failed had left (main).
THEOREM TreeIsWhole == Spec => []DoneIsWhole
<1>1. IInv => DoneIsWhole
  BY Types DEF IInv, DoneInv, DoneIsWhole
<1> QED
  BY <1>1, Invariance, PTL

\* The tree changes only once the start has all of its texts, patched, whichever
\* download or patch may fail (main).
THEOREM WritesComeLast == Spec => NothingWrittenEarly
<1> DEFINE Ready == /\ text.go = TransformGo(WasmExec[args.go]) /\ text.go # Refused
                    /\ text.tinygo = TransformTinygo(TinygoWasmExec[args.tinygo])
                    /\ text.tinygo # Refused
                    /\ text.node = TransformNode(WasmExecNode[args.go]) /\ text.node # Refused
                    /\ text.exec = JsWasmExec[args.go] /\ text.exec # Missing
<1>1. IInv /\ [Next]_vars => [disk' # disk => Ready]_vars
  <2> SUFFICES ASSUME IInv, Next, disk' # disk PROVE Ready
    BY DEF vars
  <2>1. WriteFile
    BY DEF Next, Start, ReadOptions, Fetch, PatchText, Chmod, Fail
  <2>2. status = "running" /\ pc \in 8..13
    BY <2>1, ProgramSteps, StepsOrder DEF WriteFile, At
  <2>3. /\ \A file \in Files : text[file] = Result(file)
        /\ \A file \in Files \ {"exec"} : Result(file) # Refused
        /\ Result("exec") # Missing
    BY <2>2, AllTexts DEF IInv, RunningInv
  <2> QED
    BY <2>3 DEF Result, Files
<1> QED
  BY <1>1, Invariance, PTL DEF Spec, NothingWrittenEarly
-----------------------------------------------------------------------------
(* What is done to one token.                                              *)

\* A record of its fields, one of which is its kind, indented as upstream does.
IsToken(tok) ==
  /\ tok = [x \in DOMAIN tok |-> tok[x]] /\ "k" \in DOMAIN tok
  /\ "at" \in DOMAIN tok => tok.at \in Indent

\* The printer moves indentation into spaces, and the script takes it back.
LEMMA IndentComesBack ==
  ASSUME NEW tok, IsToken(tok)
  PROVE  /\ NormalizeIndent(tok) = tok /\ NormalizeIndent(Reprint(tok)) = tok
         /\ Reprint(tok).k = tok.k
<1>1. CASE "at" \notin DOMAIN tok
  BY <1>1 DEF NormalizeIndent, Reprint
<1>2. CASE "at" \in DOMAIN tok
  <2>1. PICK t \in Nat, s \in 0..3 : tok.at = [tabs |-> t, spaces |-> s]
    BY <1>2 DEF IsToken, Indent
  <2>2. t + s \div 4 = t /\ s % 4 = s
    BY <2>1
  <2>3. \A e : [tok EXCEPT !.at = e].at = e /\ "at" \in DOMAIN [tok EXCEPT !.at = e]
    BY <1>2 DEF IsToken
  <2>4. [tok EXCEPT !.at = tok.at] = tok
    BY <1>2 DEF IsToken
  <2>5. NormalizeIndent(tok) = tok
    BY <1>2, <2>1, <2>2, <2>4 DEF NormalizeIndent
  <2>6. CASE t <= 1
    BY <2>1, <2>5, <2>6 DEF Reprint
  <2>7. CASE t > 1
    <3> DEFINE printed == [tabs |-> 1, spaces |-> 4 * (t - 1) + s]
    <3>1. Reprint(tok) = [tok EXCEPT !.at = printed]
      BY <1>2, <2>1, <2>7 DEF Reprint
    <3>2. (4 * (t - 1) + s) \div 4 = t - 1 /\ (4 * (t - 1) + s) % 4 = s
      BY <2>1, <2>7
    <3>3. [tabs |-> printed.tabs + printed.spaces \div 4, spaces |-> printed.spaces % 4] = tok.at
      BY <2>1, <2>7, <3>2
    <3> HIDE DEF printed
    <3>4. NormalizeIndent(Reprint(tok)) = [[tok EXCEPT !.at = printed] EXCEPT !.at = tok.at]
      BY <2>3, <3>1, <3>3 DEF NormalizeIndent
    <3>5. [[tok EXCEPT !.at = printed] EXCEPT !.at = tok.at] = [tok EXCEPT !.at = tok.at]
      BY <1>2 DEF IsToken
    <3>6. Reprint(tok).k = tok.k
      BY <3>1 DEF IsToken
    <3> QED
      BY <2>4, <2>5, <3>4, <3>5, <3>6
  <2> QED
    BY <2>1, <2>6, <2>7
<1> QED
  BY <1>1, <1>2

\* What can be read from a published token.
LEMMA TokenShape ==
  ASSUME NEW tok \in Token
  PROVE  /\ IsToken(tok) /\ tok.k \notin {"hole", "proxy", "use"}
         /\ tok.k = "run" => "params" \in DOMAIN tok /\ tok.params \in Seq(STRING \ {"context"})
         /\ tok.k = "values" => "at" \in DOMAIN tok
<1>1. CASE tok \in [k : {"/*", "*/", "endrun"}]
  BY <1>1 DEF IsToken
<1>2. CASE tok \in [k : {"stmt"}, b : Nat, n : Nat, at : Indent]
  BY <1>2 DEF IsToken
<1>3. CASE tok \in [k : {"open", "close"}, b : Nat]
  BY <1>3 DEF IsToken
<1>4. CASE tok \in [k : {"go"}, g : STRING]
  BY <1>4 DEF IsToken
<1>5. CASE tok \in [k : {"run"}, params : Seq(STRING \ {"context"}), at : Indent]
  BY <1>5 DEF IsToken
<1>6. CASE tok \in [k : {"bare"}, g : STRING, at : Indent]
  BY <1>6 DEF IsToken
<1>7. CASE tok \in [k : {"values"}, at : Indent]
  BY <1>7 DEF IsToken
<1> QED
  BY <1>1, <1>2, <1>3, <1>4, <1>5, <1>6, <1>7 DEF Token

-----------------------------------------------------------------------------
(* The patch of a wasm_exec.js, place by place.                            *)

\* Where the patch moves what stands at i, when it inserts a statement at v.
Shift(v, i) == IF i < v THEN i ELSE i + 1

Proxy(g, at) == [k |-> "proxy", target |-> g, at |-> at]

\* The parts of a text the patch has found.
Fits(src, r, v, g, count) ==
  /\ Parses(src) /\ r \in DOMAIN src /\ v \in DOMAIN src
  /\ RunMethods(src, g) = {r} /\ src[r].params = <<"instance">>
  /\ ValuesStmts(src, r) = {v}
  /\ Cardinality(StandaloneGlobals(src, r, g)) = count

\* What the patch counts once is one place.
LEMMA OneElement ==
  ASSUME NEW n \in Nat, NEW S \in SUBSET (1..n), Cardinality(S) = 1
  PROVE  \E x \in 1..n : S = {x}
<1>1. IsFiniteSet(1..n)
  BY FS_Interval
<1>2. IsFiniteSet(S)
  BY <1>1, FS_Subset
<1> QED
  BY <1>2, FS_Singleton

\* A text that is not refused has one run() and one value table.
LEMMA ExpectedFits ==
  ASSUME NEW src, NEW n \in Nat, DOMAIN src = 1..n, NEW g, NEW count, Expected(src, g, count)
  PROVE  \E r, v \in 1..n : Fits(src, r, v, g, count)
<1>1. PICK r \in 1..n : RunMethods(src, g) = {r}
  BY OneElement DEF Expected, RunMethods, Kinds
<1>2. /\ src[r].params = <<"instance">> /\ Cardinality(StandaloneGlobals(src, r, g)) = count
      /\ Cardinality(ValuesStmts(src, r)) = 1
  BY <1>1 DEF Expected
<1>3. PICK v \in 1..n : ValuesStmts(src, r) = {v}
  BY <1>2, OneElement DEF ValuesStmts, RunBody
<1> QED
  BY <1>1, <1>2, <1>3 DEF Expected, Fits

\* What the printer is given for a comment, and for the rest.
LEMMA LiveTokens ==
  ASSUME NEW raw \in Seq(Token), NEW i \in DOMAIN raw
  PROVE  LET live == PreserveBlockComments(raw) IN
         /\ DOMAIN live = DOMAIN raw
         /\ i \in Commented(raw) => live[i] = [k |-> "hole", was |-> raw[i]]
         /\ i \notin Commented(raw) => live[i] = raw[i]
         /\ i \in Commented(raw) <=> live[i].k = "hole"
         /\ raw[i] \in Token
<1>1. raw[i] \in Token
  OBVIOUS
<1>2. raw[i].k # "hole"
  BY <1>1, TokenShape
<1> QED
  BY <1>1, <1>2 DEF PreserveBlockComments

\* run() gets a second parameter.
LEMMA AppendOne == ASSUME NEW a, NEW b PROVE Append(<<a>>, b) = <<a, b>>
<1> DEFINE s == Append(<<a>>, b)
           t == <<a, b>>
<1>1. /\ <<a>> \in Seq({a, b}) /\ Len(<<a>>) = 1 /\ <<a>>[1] = a
      /\ t \in Seq({a, b}) /\ Len(t) = 2 /\ t[1] = a /\ t[2] = b
  OBVIOUS
<1>2. s \in Seq({a, b}) /\ Len(s) = 2 /\ s[1] = a /\ s[2] = b
  BY <1>1, AppendProperties
<1>3. \A i \in 1..2 : i = 1 \/ i = 2
  OBVIOUS
<1> HIDE DEF s, t
<1>4. \A i \in 1..Len(s) : s[i] = t[i]
  BY <1>1, <1>2, <1>3
<1>5. s = t
  BY <1>1, <1>2, <1>4, SeqEqual
<1> QED
  BY <1>5 DEF s, t

\* What the patch makes of one token.
LEMMA EditedTokens ==
  ASSUME NEW raw \in Seq(Token), NEW i \in DOMAIN raw, NEW g, NEW count,
         NEW r, NEW v, Fits(PreserveBlockComments(raw), r, v, g, count)
  PROVE  LET live == PreserveBlockComments(raw)
             new == PatchToken(live, r, g, i) IN
         /\ i = r => /\ i \notin Commented(raw) /\ raw[i].k = "run"
                     /\ new = [raw[i] EXCEPT !.params = <<"instance", "context">>]
                     /\ new.k = "run" /\ new.params = <<"instance", "context">>
         /\ i \in StandaloneGlobals(live, r, g) =>
              /\ i \notin Commented(raw) /\ raw[i].k = "bare" /\ i # r
              /\ new = [raw[i] EXCEPT !.k = "use"] /\ new.k = "use"
         /\ i # r /\ i \notin StandaloneGlobals(live, r, g) => new = live[i]
         /\ i \notin Commented(raw) => IsToken(new) /\ new.k # "hole"
<1> DEFINE live == PreserveBlockComments(raw)
<1>1. /\ raw[i] \in Token /\ i \notin Commented(raw) => live[i] = raw[i]
      /\ live[i].k # "hole" => i \notin Commented(raw)
      /\ i \in Commented(raw) => live[i].k = "hole"
      /\ DOMAIN live = DOMAIN raw
  BY LiveTokens
<1>2. IsToken(raw[i]) /\ raw[i].k \notin {"hole", "proxy", "use"}
  BY <1>1, TokenShape
<1>3. r \in RunMethods(live, g) /\ live[r].params = <<"instance">>
  BY DEF Fits
<1> HIDE DEF live
<1>4. ASSUME i = r
      PROVE  /\ i \notin Commented(raw) /\ raw[i].k = "run"
             /\ PatchToken(live, r, g, i) = [raw[i] EXCEPT !.params = <<"instance", "context">>]
             /\ PatchToken(live, r, g, i).k = "run"
             /\ PatchToken(live, r, g, i).params = <<"instance", "context">>
             /\ IsToken(PatchToken(live, r, g, i))
  <2>1. live[i].k = "run"
    BY <1>3, <1>4 DEF RunMethods, Kinds
  <2>2. i \notin Commented(raw) /\ live[i] = raw[i] /\ raw[i].k = "run"
    BY <1>1, <2>1
  <2>3. "params" \in DOMAIN raw[i]
    BY <1>1, <2>2, TokenShape
  <2>4. raw[i].params = <<"instance">>
    BY <1>3, <1>4, <2>2
  <2>5. PatchToken(live, r, g, i) = [raw[i] EXCEPT !.params = Append(@, "context")]
    <3>1. i \notin StandaloneGlobals(live, r, g)
      BY <2>1 DEF StandaloneGlobals
    <3> QED
      BY <1>4, <2>2, <3>1 DEF PatchToken
  <2>6. Append(<<"instance">>, "context") = <<"instance", "context">>
    BY AppendOne
  <2>7. PatchToken(live, r, g, i) = [raw[i] EXCEPT !.params = <<"instance", "context">>]
    BY <2>4, <2>5, <2>6
  <2> QED
    BY <1>2, <2>2, <2>3, <2>7 DEF IsToken
<1>5. ASSUME i \in StandaloneGlobals(live, r, g)
      PROVE  /\ i \notin Commented(raw) /\ raw[i].k = "bare" /\ i # r
             /\ PatchToken(live, r, g, i) = [raw[i] EXCEPT !.k = "use"]
             /\ PatchToken(live, r, g, i).k = "use"
             /\ IsToken(PatchToken(live, r, g, i))
  <2>1. live[i].k = "bare" /\ i # r
    BY <1>5, <1>3 DEF StandaloneGlobals, RunMethods, Kinds
  <2>2. i \notin Commented(raw) /\ live[i] = raw[i] /\ raw[i].k = "bare"
    BY <1>1, <2>1
  <2>3. PatchToken(live, r, g, i) = [raw[i] EXCEPT !.k = "use"]
    BY <1>5, <2>1, <2>2 DEF PatchToken
  <2> QED
    BY <1>2, <2>1, <2>2, <2>3 DEF IsToken
<1>6. ASSUME i # r, i \notin StandaloneGlobals(live, r, g)
      PROVE  PatchToken(live, r, g, i) = live[i]
  BY <1>6 DEF PatchToken
<1>7. ASSUME i \notin Commented(raw)
      PROVE  IsToken(PatchToken(live, r, g, i)) /\ PatchToken(live, r, g, i).k # "hole"
  BY <1>1, <1>2, <1>4, <1>5, <1>6, <1>7
<1> QED
  BY <1>4, <1>5, <1>6, <1>7 DEF live

\* A place of the text that is longer by a statement is that statement's, or
\* somebody's that stood in the text before.
LEMMA ShiftCovers ==
  ASSUME NEW n \in Nat, NEW v \in 1..n
  PROVE  /\ \A i \in 1..n : Shift(v, i) \in 1..(n + 1) /\ Shift(v, i) # v
         /\ \A i, j \in 1..n : /\ Shift(v, i) = Shift(v, j) => i = j
                               /\ i < j <=> Shift(v, i) < Shift(v, j)
                               /\ i <= j <=> Shift(v, i) <= Shift(v, j)
         /\ \A i \in 1..n : (v < Shift(v, i) <=> v <= i) /\ (Shift(v, i) < v <=> i < v)
         /\ \A j \in 1..(n + 1) : j # v => \E i \in 1..n : j = Shift(v, i)
<1>1. \A j \in 1..(n + 1) : j # v => \E i \in 1..n : j = Shift(v, i)
  <2> SUFFICES ASSUME NEW j \in 1..(n + 1), j # v PROVE \E i \in 1..n : j = Shift(v, i)
    OBVIOUS
  <2>1. CASE j < v
    BY <2>1 DEF Shift
  <2>2. CASE j > v
    <3>1. j - 1 \in 1..n /\ j = Shift(v, j - 1)
      BY <2>2 DEF Shift
    <3> QED
      BY <3>1
  <2> QED
    BY <2>1, <2>2
<1>2. \A i \in 1..n : Shift(v, i) \in 1..(n + 1) /\ Shift(v, i) # v
  BY DEF Shift
<1>3. \A i, j \in 1..n : /\ Shift(v, i) = Shift(v, j) => i = j
                         /\ i < j <=> Shift(v, i) < Shift(v, j)
                         /\ i <= j <=> Shift(v, i) <= Shift(v, j)
  BY DEF Shift
<1>4. \A i \in 1..n : (v < Shift(v, i) <=> v <= i) /\ (Shift(v, i) < v <=> i < v)
  BY DEF Shift
<1> QED
  BY <1>1, <1>2, <1>3, <1>4

\* A text that keeps the first m places of s, and those from k on, with others
\* in between.
IsSplice(out, s, m, by, k) ==
  /\ DOMAIN out = 1..Len(out) /\ Len(out) = m + Len(by) + (Len(s) + 1 - k)
  /\ \A i \in 1..Len(out) :
       out[i] = IF i <= m THEN s[i]
                ELSE IF i <= m + Len(by) THEN by[i - m]
                ELSE s[i - (m + Len(by)) + (k - 1)]

\* What replaceExactlyOnce and the insertion of a statement leave of a text.
LEMMA Spliced ==
  ASSUME NEW T, NEW s \in Seq(T), NEW U, NEW by \in Seq(U),
         NEW m \in 0..Len(s), NEW k \in (m + 1)..(Len(s) + 1)
  PROVE  /\ SubSeq(s, 1, m) \o by \o SubSeq(s, k, Len(s)) \in Seq(T \union U)
         /\ IsSplice(SubSeq(s, 1, m) \o by \o SubSeq(s, k, Len(s)), s, m, by, k)
<1> DEFINE W == T \union U
           a == SubSeq(s, 1, m)
           b == SubSeq(s, k, Len(s))
           c == a \o by
           all == c \o b
<1>1. /\ a \in Seq(W) /\ Len(a) = m /\ \A i \in 1..m : a[i] = s[i]
      /\ b \in Seq(W) /\ Len(b) = Len(s) + 1 - k
      /\ \A i \in 1..(Len(s) + 1 - k) : b[i] = s[i + (k - 1)]
      /\ by \in Seq(W) /\ Len(by) \in Nat /\ Len(s) \in Nat
  OBVIOUS
<1> HIDE DEF a, b, W
<1>3. /\ c \in Seq(W) /\ Len(c) = m + Len(by)
      /\ \A i \in 1..(m + Len(by)) : c[i] = IF i <= m THEN a[i] ELSE by[i - m]
  <2>1. a \in Seq(W) /\ by \in Seq(W)
    BY <1>1
  <2>2. /\ c \in Seq(W) /\ Len(c) = Len(a) + Len(by)
        /\ \A i \in 1 .. Len(a) + Len(by) : c[i] = IF i <= Len(a) THEN a[i] ELSE by[i - Len(a)]
    BY <2>1, ConcatProperties
  <2> HIDE DEF c
  <2> QED
    BY <1>1, <2>2
<1> HIDE DEF c
<1>4. /\ all \in Seq(W) /\ Len(all) = Len(c) + Len(b)
      /\ \A i \in 1..(Len(c) + Len(b)) : all[i] = IF i <= Len(c) THEN c[i] ELSE b[i - Len(c)]
  <2>1. c \in Seq(W) /\ b \in Seq(W)
    BY <1>1, <1>3
  <2> QED
    BY <2>1, ConcatProperties
<1> HIDE DEF all
<1>5. Len(all) = m + Len(by) + (Len(s) + 1 - k)
  BY <1>1, <1>3, <1>4
<1>6. ASSUME NEW i \in 1..Len(all)
      PROVE  all[i] = IF i <= m THEN s[i]
                      ELSE IF i <= m + Len(by) THEN by[i - m]
                      ELSE s[i - (m + Len(by)) + (k - 1)]
  <2>1. CASE i <= m
    <3>1. c[i] = a[i] /\ a[i] = s[i] /\ i <= Len(c) /\ i \in 1..(Len(c) + Len(b))
      BY <1>1, <1>3, <2>1
    <3> QED
      BY <1>4, <2>1, <3>1
  <2>2. CASE i > m /\ i <= m + Len(by)
    BY <1>1, <1>3, <1>4, <2>2
  <2>3. CASE i > m + Len(by)
    <3>1. i - (m + Len(by)) \in 1..(Len(s) + 1 - k) /\ ~(i <= m)
      BY <1>1, <1>5, <2>3
    <3>2. all[i] = b[i - (m + Len(by))]
      BY <1>1, <1>3, <1>4, <2>3
    <3>3. b[i - (m + Len(by))] = s[i - (m + Len(by)) + (k - 1)]
      BY <1>1, <3>1
    <3> QED
      BY <2>3, <3>1, <3>2, <3>3
  <2> QED
    BY <1>1, <2>1, <2>2, <2>3
<1> QED
  <2>1. DOMAIN all = 1..Len(all)
    BY <1>4
  <2>2. IsSplice(all, s, m, by, k)
    BY <1>5, <1>6, <2>1 DEF IsSplice
  <2> QED
    BY <1>4, <2>2 DEF a, b, c, all, W

\* A text with one token put in at v.
LEMMA InsertedAt ==
  ASSUME NEW T, NEW s \in Seq(T), NEW v \in 1..Len(s), NEW e
  PROVE  /\ DOMAIN InsertAt(s, v, e) = 1..(Len(s) + 1)
         /\ InsertAt(s, v, e)[v] = e
         /\ \A i \in 1..Len(s) : InsertAt(s, v, e)[Shift(v, i)] = s[i]
<1> DEFINE out == InsertAt(s, v, e)
           one == <<e>>
           m == v - 1
<1>1. one \in Seq({e}) /\ Len(one) = 1 /\ one[1] = e /\ Len(s) \in Nat
  OBVIOUS
<1>2. out = SubSeq(s, 1, m) \o one \o SubSeq(s, v, Len(s))
  BY DEF InsertAt
<1>3. m \in 0..Len(s) /\ v \in (m + 1)..(Len(s) + 1)
  BY <1>1
<1> HIDE DEF out, one, m
<1>4. IsSplice(out, s, m, one, v)
  BY <1>1, <1>2, <1>3, Spliced
<1>5. /\ DOMAIN out = 1..(Len(s) + 1)
      /\ \A i \in 1..(Len(s) + 1) :
           out[i] = IF i < v THEN s[i] ELSE IF i = v THEN e ELSE s[i - 1]
  BY <1>1, <1>4 DEF m, IsSplice
<1>6. out[v] = e
  BY <1>1, <1>5
<1>7. \A i \in 1..Len(s) : out[Shift(v, i)] = s[i]
  BY <1>1, <1>5 DEF Shift
<1> QED
  BY <1>5, <1>6, <1>7 DEF out

\* The text that comes out of the printer and the last two steps, place by
\* place.
Made(raw, out, r, v, g, count) ==
  LET live == PreserveBlockComments(raw) IN
  /\ r \in 1..Len(raw) /\ v \in 1..Len(raw) /\ Fits(live, r, v, g, count)
  /\ out = [j \in 1..(Len(raw) + 1) |-> out[j]]
  /\ out[v] = Proxy(g, raw[v].at)
  /\ \A i \in 1..Len(raw) :
       out[Shift(v, i)] = IF i \in Commented(raw) THEN raw[i] ELSE PatchToken(live, r, g, i)

\* A text that is not refused comes out as that.
LEMMA Transformed ==
  ASSUME NEW raw \in Seq(Token), NEW g, NEW count,
         TransformWasmExec(raw, g, count) # Refused
  PROVE  \E r, v : Made(raw, TransformWasmExec(raw, g, count), r, v, g, count)
<1> DEFINE live == PreserveBlockComments(raw)
           n == Len(raw)
<1>1. n \in Nat /\ DOMAIN raw = 1..n /\ DOMAIN live = 1..n
  BY DEF PreserveBlockComments
<1>2. Expected(live, g, count)
  BY DEF TransformWasmExec
<1>3. PICK r \in 1..n, v \in 1..n : Fits(live, r, v, g, count)
  BY <1>1, <1>2, ExpectedFits
<1> HIDE DEF n
<1> DEFINE proxy == Proxy(g, live[v].at)
           edited == [i \in 1..n |-> PatchToken(live, r, g, i)]
           patched == InsertAt(edited, v, proxy)
<1>4. live[v].k = "values" /\ v \notin Commented(raw) /\ live[v] = raw[v]
  <2>1. live[v].k = "values"
    BY <1>3 DEF Fits, ValuesStmts
  <2> QED
    BY <1>1, <2>1, LiveTokens
<1>5. IsToken(proxy) /\ proxy.k = "proxy" /\ proxy = Proxy(g, raw[v].at)
  <2>1. raw[v] \in Token /\ raw[v].k = "values"
    BY <1>1, <1>4
  <2>2. raw[v].at \in Indent
    BY <2>1, TokenShape DEF IsToken
  <2> QED
    BY <1>4, <2>2 DEF IsToken, Proxy
<1>6. Patch(live, CHOOSE i \in RunMethods(live, g) : TRUE, g) = patched
  <2> DEFINE method == CHOOSE i \in RunMethods(live, g) : TRUE
             stmt == CHOOSE i \in ValuesStmts(live, r) : TRUE
  <2>1. method = r /\ stmt = v
    BY <1>3 DEF Fits
  <2>2. Patch(live, r, g) = InsertAt([i \in DOMAIN live |-> PatchToken(live, r, g, i)], stmt,
                                     Proxy(g, live[stmt].at))
    BY DEF Patch, Proxy
  <2> HIDE DEF method, stmt
  <2>3. Patch(live, method, g) = patched
    BY <1>1, <2>1, <2>2
  <2> QED
    BY <2>3 DEF method
<1>7. /\ DOMAIN patched = 1..(n + 1) /\ patched[v] = proxy
      /\ \A i \in 1..n : patched[Shift(v, i)] = PatchToken(live, r, g, i)
  <2>1. edited \in Seq({edited[i] : i \in 1..n}) /\ Len(edited) = n
    BY <1>1
  <2>2. \A i \in 1..n : edited[i] = PatchToken(live, r, g, i)
    OBVIOUS
  <2> HIDE DEF edited
  <2> QED
    BY <2>1, <2>2, InsertedAt
<1> HIDE DEF patched, edited, proxy
<1> DEFINE printed == [i \in DOMAIN patched |-> Reprint(patched[i])]
           restored == RestoreBlockComments(printed)
           out == [i \in DOMAIN restored |-> NormalizeIndent(restored[i])]
<1>8. TransformWasmExec(raw, g, count) = out
  <2> DEFINE method == CHOOSE i \in RunMethods(live, g) : TRUE
             Printed(src) == [i \in DOMAIN src |-> Reprint(src[i])]
             Restore(src) == RestoreBlockComments(src)
             Indented(src) == [i \in DOMAIN src |-> NormalizeIndent(src[i])]
  <2>1. TransformWasmExec(raw, g, count) = Indented(Restore(Printed(Patch(live, method, g))))
    BY <1>2 DEF TransformWasmExec
  <2>2. Patch(live, method, g) = patched
    BY <1>6
  <2>3. out = Indented(Restore(Printed(patched)))
    OBVIOUS
  <2> HIDE DEF method, Printed, Restore, Indented
  <2> QED
    BY <2>1, <2>2, <2>3
<1>9. /\ DOMAIN out = 1..(n + 1) /\ out = [j \in 1..(n + 1) |-> out[j]]
      /\ \A j \in 1..(n + 1) :
           out[j] = NormalizeIndent(IF Reprint(patched[j]).k = "hole" THEN Reprint(patched[j]).was
                                    ELSE Reprint(patched[j]))
  BY <1>7 DEF RestoreBlockComments
<1> HIDE DEF out
<1>10. v \in 1..(n + 1) /\ \A i \in 1..n : Shift(v, i) \in 1..(n + 1)
  BY <1>1, ShiftCovers
<1>11. out[v] = proxy
  BY <1>5, <1>7, <1>9, <1>10, IndentComesBack
<1>12. ASSUME NEW i \in 1..n, i \in Commented(raw) PROVE out[Shift(v, i)] = raw[i]
  <2>1. PatchToken(live, r, g, i) = [k |-> "hole", was |-> raw[i]]
    <3>1. live[i] = [k |-> "hole", was |-> raw[i]]
      BY <1>1, <1>12, LiveTokens
    <3> QED
      BY <1>1, <1>3, <1>12, <3>1, EditedTokens
  <2>2. Reprint([k |-> "hole", was |-> raw[i]]) = [k |-> "hole", was |-> raw[i]]
    BY DEF Reprint
  <2>3. IsToken(raw[i])
    BY <1>1, TokenShape
  <2> QED
    BY <1>7, <1>9, <1>10, <2>1, <2>2, <2>3, IndentComesBack
<1>13. ASSUME NEW i \in 1..n, i \notin Commented(raw)
       PROVE  out[Shift(v, i)] = PatchToken(live, r, g, i)
  <2>1. IsToken(PatchToken(live, r, g, i)) /\ PatchToken(live, r, g, i).k # "hole"
    BY <1>1, <1>3, <1>13, EditedTokens
  <2> HIDE DEF live
  <2> QED
    BY <1>7, <1>9, <1>10, <2>1, IndentComesBack
<1> HIDE DEF live
<1>14. /\ out = [j \in 1..(n + 1) |-> out[j]] /\ out[v] = Proxy(g, raw[v].at)
       /\ \A i \in 1..n : out[Shift(v, i)] = IF i \in Commented(raw) THEN raw[i]
                                             ELSE PatchToken(live, r, g, i)
  BY <1>5, <1>9, <1>11, <1>12, <1>13
<1> QED
  BY <1>3, <1>8, <1>14 DEF live, n, Made

-----------------------------------------------------------------------------
(* What of the patched text is not in a comment.                           *)

\* A comment mark stands outside of a comment in no text that is patched, so
\* that every comment is where it was.
LEMMA CommentsStay ==
  ASSUME NEW raw \in Seq(Token), NEW out, NEW r, NEW v, NEW g, NEW count,
         Made(raw, out, r, v, g, count)
  PROVE  /\ v \notin Commented(out) /\ v \notin Commented(raw)
         /\ \A i \in 1..Len(raw) : Shift(v, i) \in Commented(out) <=> i \in Commented(raw)
<1> DEFINE n == Len(raw)
           live == PreserveBlockComments(raw)
<1>1. n \in Nat /\ DOMAIN raw = 1..n /\ v \in 1..n /\ r \in 1..n /\ DOMAIN out = 1..(n + 1)
  BY DEF Made
<1>2. Fits(live, r, v, g, count)
  BY DEF Made
<1>3. v \notin Commented(raw)
  <2>1. live[v].k = "values"
    BY <1>2 DEF Fits, ValuesStmts
  <2> QED
    BY <1>1, <2>1, LiveTokens
<1>4. ASSUME NEW i \in 1..n, NEW k \in {"/*", "*/"}
      PROVE  out[Shift(v, i)].k = k <=> raw[i].k = k
  <2>1. CASE i \in Commented(raw)
    BY <2>1 DEF Made
  <2>2. CASE i \notin Commented(raw)
    <3>1. out[Shift(v, i)] = PatchToken(live, r, g, i)
      BY <2>2 DEF Made
    <3> HIDE DEF live
    <3>2. i = r \/ i \in StandaloneGlobals(live, r, g) => raw[i].k # k /\ out[Shift(v, i)].k # k
      BY <1>1, <1>2, <3>1, EditedTokens DEF live
    <3>3. i # r /\ i \notin StandaloneGlobals(live, r, g) => out[Shift(v, i)] = raw[i]
      <4>1. live[i] = raw[i]
        BY <1>1, <2>2, LiveTokens DEF live
      <4>2. i # r /\ i \notin StandaloneGlobals(live, r, g) => PatchToken(live, r, g, i) = live[i]
        BY <1>1, <1>2, EditedTokens DEF live
      <4> QED
        BY <3>1, <4>1, <4>2
    <3> QED
      BY <3>2, <3>3
  <2> QED
    BY <2>1, <2>2
<1>5. out[v].k = "proxy"
  BY DEF Made, Proxy
<1> HIDE DEF n, live
<1>6. ASSUME NEW k \in {"/*", "*/"}
      PROVE  /\ \A i \in Kinds(raw, k) : i \in 1..n /\ Shift(v, i) \in Kinds(out, k)
             /\ \A j \in Kinds(out, k) : \E i \in Kinds(raw, k) : j = Shift(v, i)
  <2>1. ASSUME NEW i \in Kinds(raw, k) PROVE i \in 1..n /\ Shift(v, i) \in Kinds(out, k)
    BY <1>1, <1>4, ShiftCovers DEF Kinds
  <2>2. ASSUME NEW j \in Kinds(out, k) PROVE \E i \in Kinds(raw, k) : j = Shift(v, i)
    <3>1. j \in 1..(n + 1) /\ j # v /\ out[j].k = k
      BY <1>1, <1>5 DEF Kinds
    <3>2. PICK i \in 1..n : j = Shift(v, i)
      BY <1>1, <3>1, ShiftCovers
    <3> QED
      BY <1>1, <1>4, <3>1, <3>2 DEF Kinds
  <2> QED
    BY <2>1, <2>2
<1>7. ASSUME NEW o \in 1..n, NEW c \in 1..n
      PROVE  c \in FirstAfter(Kinds(raw, "*/"), o)
               <=> Shift(v, c) \in FirstAfter(Kinds(out, "*/"), Shift(v, o))
  <2>1. c \in Kinds(raw, "*/") <=> Shift(v, c) \in Kinds(out, "*/")
    BY <1>1, <1>4, ShiftCovers DEF Kinds
  <2>2. c > o <=> Shift(v, c) > Shift(v, o)
    BY <1>1, ShiftCovers
  <2>3. (\A j \in Kinds(raw, "*/") : j > o => c <= j)
          <=> (\A j \in Kinds(out, "*/") : j > Shift(v, o) => Shift(v, c) <= j)
    <3>1. \A i \in 1..n : (i > o <=> Shift(v, i) > Shift(v, o)) /\ (c <= i <=> Shift(v, c) <= Shift(v, i))
      BY <1>1, ShiftCovers
    <3> QED
      BY <1>6, <3>1
  <2> QED
    BY <2>1, <2>2, <2>3 DEF FirstAfter
<1>8. \A src, i : i \in Commented(src) <=>
        \E o \in Kinds(src, "/*") : \E c \in FirstAfter(Kinds(src, "*/"), o) : i \in o..c
  BY DEF Commented
<1>9. ASSUME NEW i \in 1..n, i \in Commented(raw) PROVE Shift(v, i) \in Commented(out)
  <2>1. PICK o \in Kinds(raw, "/*") :
             \E c \in FirstAfter(Kinds(raw, "*/"), o) : i \in o..c
    BY <1>8, <1>9
  <2>0. PICK c \in FirstAfter(Kinds(raw, "*/"), o) : i \in o..c
    BY <2>1
  <2>2. o \in 1..n /\ c \in 1..n /\ Shift(v, o) \in Kinds(out, "/*")
    BY <1>6 DEF FirstAfter
  <2>3. Shift(v, c) \in FirstAfter(Kinds(out, "*/"), Shift(v, o))
    BY <1>7, <2>2
  <2>4. Shift(v, i) \in Shift(v, o)..Shift(v, c)
    <3>1. o <= i /\ i <= c
      BY <2>0
    <3> QED
      BY <1>1, <2>2, <3>1 DEF Shift
  <2> QED
    BY <1>8, <2>2, <2>3, <2>4
<1>10. ASSUME NEW j \in Commented(out) PROVE j # v /\ \A i \in 1..n : j = Shift(v, i) => i \in Commented(raw)
  <2>1. PICK p \in Kinds(out, "/*") :
             \E q \in FirstAfter(Kinds(out, "*/"), p) : j \in p..q
    BY <1>8, <1>10
  <2>0. PICK q \in FirstAfter(Kinds(out, "*/"), p) : j \in p..q
    BY <2>1
  <2>2. PICK o \in Kinds(raw, "/*") : p = Shift(v, o)
    BY <1>6
  <2>3. q \in Kinds(out, "*/")
    BY DEF FirstAfter
  <2>4. PICK c \in Kinds(raw, "*/") : q = Shift(v, c)
    BY <1>6, <2>3
  <2>5. o \in 1..n /\ c \in 1..n /\ c \in FirstAfter(Kinds(raw, "*/"), o)
    BY <1>6, <1>7, <2>2, <2>4
  <2>6. \A i \in 1..n : o <= i /\ i <= c => i \in Commented(raw)
    BY <1>8, <2>5
  <2>7. j # v
    <3> SUFFICES ASSUME j = v PROVE FALSE
      OBVIOUS
    <3>1. Shift(v, o) <= v /\ v <= Shift(v, c)
      BY <2>0, <2>2, <2>4
    <3>2. o <= v /\ v <= c
      BY <1>1, <2>5, <3>1 DEF Shift
    <3> QED
      BY <1>1, <1>3, <2>6, <3>2
  <2>8. ASSUME NEW i \in 1..n, j = Shift(v, i) PROVE i \in Commented(raw)
    <3>1. Shift(v, o) <= Shift(v, i) /\ Shift(v, i) <= Shift(v, c)
      BY <2>0, <2>2, <2>4, <2>8
    <3>2. o <= i /\ i <= c
      BY <1>1, <2>5, <3>1, ShiftCovers
    <3> QED
      BY <2>6, <3>2
  <2> QED
    BY <2>7, <2>8
<1> QED
  BY <1>3, <1>9, <1>10 DEF n

\* Outside of comments the patched text is the upstream one with the edits.
LEMMA LiveMade ==
  ASSUME NEW raw \in Seq(Token), NEW out, NEW r, NEW v, NEW g, NEW count,
         Made(raw, out, r, v, g, count)
  PROVE  LET before == PreserveBlockComments(raw)
             after == PreserveBlockComments(out) IN
         /\ DOMAIN after = 1..(Len(raw) + 1) /\ after[v] = Proxy(g, raw[v].at)
         /\ \A i \in 1..Len(raw) : after[Shift(v, i)] = PatchToken(before, r, g, i)
<1> DEFINE n == Len(raw)
           before == PreserveBlockComments(raw)
           after == PreserveBlockComments(out)
<1>1. /\ n \in Nat /\ DOMAIN raw = 1..n /\ v \in 1..n /\ r \in 1..n /\ DOMAIN out = 1..(n + 1)
      /\ Fits(before, r, v, g, count) /\ out[v] = Proxy(g, raw[v].at)
  BY DEF Made
<1>2. v \in 1..(n + 1) /\ \A i \in 1..n : Shift(v, i) \in 1..(n + 1)
  BY <1>1, ShiftCovers
<1>3. \A j \in 1..(n + 1) : after[j] = IF j \in Commented(out) THEN [k |-> "hole", was |-> out[j]]
                                       ELSE out[j]
  BY <1>1 DEF PreserveBlockComments
<1>4. DOMAIN after = 1..(n + 1)
  BY <1>1 DEF PreserveBlockComments
<1>5. after[v] = Proxy(g, raw[v].at)
  BY <1>1, <1>2, <1>3, CommentsStay
<1>6. ASSUME NEW i \in 1..n PROVE after[Shift(v, i)] = PatchToken(before, r, g, i)
  <2>1. CASE i \in Commented(raw)
    <3>1. out[Shift(v, i)] = raw[i] /\ Shift(v, i) \in Commented(out)
      BY <2>1, CommentsStay DEF Made
    <3>2. after[Shift(v, i)] = [k |-> "hole", was |-> raw[i]]
      BY <1>2, <1>3, <3>1
    <3>3. before[i] = [k |-> "hole", was |-> raw[i]]
      BY <1>1, <2>1, LiveTokens
    <3>4. PatchToken(before, r, g, i) = before[i]
      BY <1>1, <2>1, EditedTokens
    <3> QED
      BY <3>2, <3>3, <3>4
  <2>2. CASE i \notin Commented(raw)
    <3>1. out[Shift(v, i)] = PatchToken(before, r, g, i) /\ Shift(v, i) \notin Commented(out)
      BY <2>2, CommentsStay DEF Made
    <3> QED
      BY <1>2, <1>3, <3>1
  <2> QED
    BY <2>1, <2>2
<1> QED
  BY <1>4, <1>5, <1>6 DEF n

\* What the patch can have changed about a live token.
LEMMA LiveKinds ==
  ASSUME NEW raw \in Seq(Token), NEW out, NEW r, NEW v, NEW g, NEW count,
         Made(raw, out, r, v, g, count), NEW i \in 1..Len(raw)
  PROVE  LET before == PreserveBlockComments(raw)
             new == PatchToken(before, r, g, i) IN
         /\ new.k = "run" <=> before[i].k = "run"
         /\ new.k = "go" => before[i].k = "go" /\ new.g = before[i].g
         /\ before[i].k = "go" => new.k = "go" /\ new.g = before[i].g
         /\ new.k = "endrun" <=> before[i].k = "endrun"
         /\ new.k = "use" <=> i \in StandaloneGlobals(before, r, g)
         /\ new.k # "proxy"
         /\ new.k = "bare" => before[i].k = "bare" /\ new.g = before[i].g
         /\ new.k = "bare" => i \notin StandaloneGlobals(before, r, g)
         /\ new.k = "run" /\ new.params = <<"instance", "context">> <=> i = r
<1> DEFINE before == PreserveBlockComments(raw)
           new == PatchToken(before, r, g, i)
<1>1. Fits(before, r, v, g, count) /\ i \in DOMAIN raw
  BY DEF Made
<1>2. /\ i \in Commented(raw) => before[i].k = "hole"
      /\ i \notin Commented(raw) => before[i] = raw[i]
      /\ raw[i] \in Token
  BY <1>1, LiveTokens
<1> HIDE DEF before, new
<1>3. CASE i = r
  <2>1. /\ i \notin Commented(raw) /\ raw[i].k = "run" /\ new.k = "run"
        /\ new.params = <<"instance", "context">>
    BY <1>1, <1>3, EditedTokens DEF before, new
  <2>2. i \notin StandaloneGlobals(before, r, g)
    BY <1>2, <2>1 DEF StandaloneGlobals
  <2> QED
    BY <1>2, <1>3, <2>1, <2>2 DEF before, new
<1>4. CASE i \in StandaloneGlobals(before, r, g)
  <2>1. i \notin Commented(raw) /\ raw[i].k = "bare" /\ i # r /\ new.k = "use"
    BY <1>1, <1>4, EditedTokens DEF before, new
  <2> QED
    BY <1>2, <1>4, <2>1 DEF before, new
<1>5. CASE i # r /\ i \notin StandaloneGlobals(before, r, g)
  <2>1. new = before[i]
    BY <1>1, <1>5, EditedTokens DEF before, new
  <2>2. before[i].k \notin {"use", "proxy"}
    BY <1>2, TokenShape
  <2>3. before[i].k = "run" => before[i].params # <<"instance", "context">>
    <3> SUFFICES ASSUME before[i].k = "run", before[i].params = <<"instance", "context">>
                 PROVE  FALSE
      OBVIOUS
    <3>1. before[i].params \in Seq(STRING \ {"context"})
      BY <1>2, TokenShape
    <3>2. Len(<<"instance", "context">>) = 2 /\ <<"instance", "context">>[2] = "context"
      OBVIOUS
    <3>3. before[i].params[2] \in STRING \ {"context"}
      BY <3>1, <3>2
    <3> QED
      BY <3>2, <3>3
  <2> QED
    BY <1>5, <2>1, <2>2, <2>3 DEF before, new
<1> QED
  BY <1>3, <1>4, <1>5

-----------------------------------------------------------------------------
(* What the patch is for.                                                  *)

\* The run() method is where it was, and the proxy is in its body.
LEMMA RunStays ==
  ASSUME NEW raw \in Seq(Token), NEW out, NEW r, NEW v, NEW g, NEW count,
         Made(raw, out, r, v, g, count)
  PROVE  LET before == PreserveBlockComments(raw)
             after == PreserveBlockComments(out) IN
         /\ Shift(v, r) = r /\ r < v
         /\ RunMethods(after, g) = {r} /\ after[r].params = <<"instance", "context">>
         /\ v \in RunBody(after, r)
         /\ \A i \in 1..Len(raw) : Shift(v, i) \in RunBody(after, r) <=> i \in RunBody(before, r)
<1> DEFINE n == Len(raw)
           before == PreserveBlockComments(raw)
           after == PreserveBlockComments(out)
           new(i) == PatchToken(before, r, g, i)
<1>1. /\ n \in Nat /\ DOMAIN raw = 1..n /\ v \in 1..n /\ r \in 1..n
      /\ DOMAIN before = 1..n /\ Fits(before, r, v, g, count)
  BY DEF Made, PreserveBlockComments
<1>2. /\ DOMAIN after = 1..(n + 1) /\ after[v].k = "proxy"
      /\ \A i \in 1..n : after[Shift(v, i)] = new(i)
  <2>1. after[v] = Proxy(g, raw[v].at)
    BY LiveMade
  <2> HIDE DEF after
  <2>2. after[v].k = "proxy"
    BY <2>1 DEF Proxy
  <2>3. DOMAIN after = 1..(n + 1) /\ \A i \in 1..n : after[Shift(v, i)] = new(i)
    BY LiveMade DEF after
  <2> QED
    BY <2>2, <2>3
<1>3. \A i \in 1..n :
        /\ new(i).k = "run" <=> before[i].k = "run"
        /\ new(i).k = "go" => before[i].k = "go" /\ new(i).g = before[i].g
        /\ before[i].k = "go" => new(i).k = "go" /\ new(i).g = before[i].g
        /\ new(i).k = "endrun" <=> before[i].k = "endrun"
        /\ new(i).k = "run" /\ new(i).params = <<"instance", "context">> <=> i = r
  BY LiveKinds
<1> HIDE DEF n, before, after, new
<1>18. /\ \A i \in 1..n : Shift(v, i) \in DOMAIN after /\ Shift(v, i) # v
      /\ \A j \in DOMAIN after : j = v \/ \E i \in 1..n : j = Shift(v, i)
  <2>1. \A i \in 1..n : Shift(v, i) \in 1..(n + 1) /\ Shift(v, i) # v
    BY <1>1, ShiftCovers
  <2>2. \A j \in 1..(n + 1) : j # v => \E i \in 1..n : j = Shift(v, i)
    BY <1>1, ShiftCovers
  <2> QED
    BY <1>2, <2>1, <2>2
<1>4. v \in ValuesStmts(before, r) /\ RunMethods(before, g) = {r}
  BY <1>1 DEF Fits
<1>5. /\ v > r /\ \A e \in 1..n : before[e].k = "endrun" /\ e > r => v < e
  BY <1>1, <1>4 DEF ValuesStmts, RunBody, Kinds
<1>6. Shift(v, r) = r /\ r < v
  BY <1>1, <1>5 DEF Shift
<1>7. \A i \in 1..n : Shift(v, i) \in GoAssigns(after, g) <=> i \in GoAssigns(before, g)
  BY <1>1, <1>2, <1>3, <1>18 DEF GoAssigns, Kinds
<1>8. \A i \in 1..n : Shift(v, i) \in Kinds(after, "run") <=> i \in Kinds(before, "run")
  BY <1>1, <1>2, <1>3, <1>18 DEF Kinds
<1>9. v \notin GoAssigns(after, g) /\ v \notin Kinds(after, "run") /\ v \notin Kinds(after, "endrun")
  BY <1>2 DEF GoAssigns, Kinds
<1>10. ASSUME NEW i \in 1..n
       PROVE  Shift(v, i) \in RunMethods(after, g) <=> i \in RunMethods(before, g)
  <2>1. ASSUME NEW c \in GoAssigns(before, g), c < i
        PROVE  \E d \in GoAssigns(after, g) : d < Shift(v, i)
    <3>1. c \in 1..n
      BY <1>1 DEF GoAssigns, Kinds
    <3>2. Shift(v, c) \in GoAssigns(after, g) /\ Shift(v, c) < Shift(v, i)
      BY <1>1, <1>7, <2>1, <3>1, ShiftCovers
    <3> QED
      BY <3>2
  <2>2. ASSUME NEW d \in GoAssigns(after, g), d < Shift(v, i)
        PROVE  \E c \in GoAssigns(before, g) : c < i
    <3>1. d \in 1..(n + 1) /\ d # v
      BY <1>2, <1>9 DEF GoAssigns, Kinds
    <3>2. PICK c \in 1..n : d = Shift(v, c)
      BY <1>2, <1>18, <3>1
    <3>3. c \in GoAssigns(before, g) /\ c < i
      BY <1>1, <1>7, <2>2, <3>2, ShiftCovers
    <3> QED
      BY <3>3
  <2> QED
    BY <1>8, <2>1, <2>2 DEF RunMethods
<1>11. RunMethods(after, g) = {r}
  <2>1. \A j \in RunMethods(after, g) : j \in 1..(n + 1) /\ j # v
    BY <1>2, <1>9 DEF RunMethods, Kinds
  <2>2. \A j \in RunMethods(after, g) : \E i \in 1..n : j = Shift(v, i)
    BY <1>2, <1>18, <2>1
  <2>3. \A j \in RunMethods(after, g) : j = r
    BY <1>4, <1>6, <1>10, <2>2
  <2>4. r \in RunMethods(after, g)
    BY <1>1, <1>4, <1>6, <1>10
  <2> QED
    BY <2>3, <2>4
<1>12. after[r].params = <<"instance", "context">>
  BY <1>1, <1>2, <1>3, <1>6
<1>13. \A i \in 1..n : Shift(v, i) \in Kinds(after, "endrun") <=> i \in Kinds(before, "endrun")
  BY <1>1, <1>2, <1>3, <1>18 DEF Kinds
<1>14. \A e \in Kinds(after, "endrun") : \E d \in Kinds(before, "endrun") : d \in 1..n /\ e = Shift(v, d)
  <2> SUFFICES ASSUME NEW e \in Kinds(after, "endrun")
               PROVE  \E d \in Kinds(before, "endrun") : d \in 1..n /\ e = Shift(v, d)
    OBVIOUS
  <2>1. e \in 1..(n + 1) /\ e # v
    BY <1>2, <1>9 DEF Kinds
  <2>2. PICK d \in 1..n : e = Shift(v, d)
    BY <1>2, <1>18, <2>1
  <2> QED
    BY <1>13, <2>2
<1>15. \A d \in Kinds(before, "endrun") : d \in 1..n /\ before[d].k = "endrun"
  BY <1>1 DEF Kinds
<1>16. v \in RunBody(after, r)
  <2>1. ASSUME NEW e \in Kinds(after, "endrun"), e > r PROVE v < e
    <3>1. PICK d \in 1..n : d \in Kinds(before, "endrun") /\ e = Shift(v, d)
      BY <1>14
    <3>2. d > r
      BY <1>1, <1>6, <2>1, <3>1 DEF Shift
    <3>3. v < d
      BY <1>5, <1>15, <3>1, <3>2
    <3> QED
      BY <1>1, <3>1, <3>3 DEF Shift
  <2>2. v \in DOMAIN after /\ v > r
    BY <1>1, <1>2, <1>5
  <2> QED
    BY <2>1, <2>2 DEF RunBody
<1>17. ASSUME NEW i \in 1..n
       PROVE  Shift(v, i) \in RunBody(after, r) <=> i \in RunBody(before, r)
  <2>1. Shift(v, i) \in DOMAIN after /\ i \in DOMAIN before
    BY <1>1, <1>2, ShiftCovers
  <2>2. Shift(v, i) > r <=> i > r
    BY <1>1, <1>6 DEF Shift
  <2>3. \A d \in 1..n : (Shift(v, d) > r <=> d > r) /\ (Shift(v, i) < Shift(v, d) <=> i < d)
    BY <1>1, <1>6 DEF Shift
  <2>4. (\A e \in Kinds(after, "endrun") : e > r => Shift(v, i) < e)
          <=> (\A d \in Kinds(before, "endrun") : d > r => i < d)
    BY <1>13, <1>14, <1>15, <2>3
  <2> QED
    BY <2>1, <2>2, <2>4 DEF RunBody
<1> QED
  BY <1>6, <1>11, <1>12, <1>16, <1>17 DEF n, before, after

\* The patched run() takes the context, declares one proxy before it is used,
\* and uses it for each of the global objects it had.
LEMMA SeesContext ==
  ASSUME NEW raw, NEW out, NEW r, NEW v, NEW g, NEW count,
         Made(raw, out, r, v, g, count), PublishedText(raw, g)
  PROVE  RunSeesContext(Live(out), g, count)
<1> DEFINE n == Len(raw)
           before == PreserveBlockComments(raw)
           after == PreserveBlockComments(out)
           new(i) == PatchToken(before, r, g, i)
           bare == StandaloneGlobals(before, r, g)
           uses == Kinds(after, "use")
<1>1. /\ raw \in Seq(Token) /\ n \in Nat /\ v \in 1..n /\ r \in 1..n
      /\ DOMAIN before = 1..n /\ Fits(before, r, v, g, count)
  BY DEF Made, PreserveBlockComments, PublishedText
<1>2. /\ DOMAIN after = 1..(n + 1) /\ after[v].k = "proxy" /\ after[v].target = g
      /\ \A i \in 1..n : after[Shift(v, i)] = new(i)
  <2>1. after[v] = Proxy(g, raw[v].at)
    BY <1>1, LiveMade
  <2> HIDE DEF after
  <2>2. after[v].k = "proxy" /\ after[v].target = g
    BY <2>1 DEF Proxy
  <2>3. DOMAIN after = 1..(n + 1) /\ \A i \in 1..n : after[Shift(v, i)] = new(i)
    BY <1>1, LiveMade DEF after
  <2> QED
    BY <2>2, <2>3
<1>3. /\ Shift(v, r) = r /\ r < v
      /\ RunMethods(after, g) = {r} /\ after[r].params = <<"instance", "context">>
      /\ v \in RunBody(after, r)
      /\ \A i \in 1..n : Shift(v, i) \in RunBody(after, r) <=> i \in RunBody(before, r)
  BY <1>1, RunStays
<1>4. \A i \in 1..n : /\ new(i).k = "use" <=> i \in bare
                      /\ new(i).k # "proxy"
                      /\ new(i).k = "bare" => /\ before[i].k = "bare" /\ new(i).g = before[i].g
                                              /\ i \notin bare
  BY <1>1, LiveKinds
<1>5. \A i \in bare : i \in 1..n /\ v < i /\ i \in RunBody(before, r)
  <2>1. r \in RunMethods(before, g) /\ v \in ValuesStmts(before, r)
    BY <1>1 DEF Fits
  <2>2. \A i \in bare : v < i
    BY <2>1 DEF PublishedText
  <2> QED
    BY <1>1, <2>2 DEF StandaloneGlobals, RunBody
<1>6. Cardinality(bare) = count
  BY <1>1 DEF Fits
<1>7. \A i \in 1..n : i \in RunBody(before, r) /\ before[i].k = "bare" /\ before[i].g = g => i \in bare
  BY DEF StandaloneGlobals
<1> HIDE DEF n, before, after, new, bare
<1>8. /\ \A i \in 1..n : Shift(v, i) \in DOMAIN after /\ Shift(v, i) # v
      /\ \A j \in DOMAIN after : j = v \/ \E i \in 1..n : j = Shift(v, i)
  <2>1. \A i \in 1..n : Shift(v, i) \in 1..(n + 1) /\ Shift(v, i) # v
    BY <1>1, ShiftCovers
  <2>2. \A j \in 1..(n + 1) : j # v => \E i \in 1..n : j = Shift(v, i)
    BY <1>1, ShiftCovers
  <2> QED
    BY <1>2, <2>1, <2>2
<1>9. Kinds(after, "proxy") = {v}
  <2>1. \A j \in Kinds(after, "proxy") : j = v
    BY <1>2, <1>4, <1>8 DEF Kinds
  <2>2. v \in Kinds(after, "proxy")
    BY <1>1, <1>2 DEF Kinds
  <2> QED
    BY <2>1, <2>2
<1>10. StandaloneGlobals(after, r, g) = {}
  <2> SUFFICES ASSUME NEW j \in StandaloneGlobals(after, r, g) PROVE FALSE
    OBVIOUS
  <2>1. j \in DOMAIN after /\ j \in RunBody(after, r) /\ after[j].k = "bare" /\ after[j].g = g
    BY DEF StandaloneGlobals, RunBody
  <2>2. PICK i \in 1..n : j = Shift(v, i)
    BY <1>2, <1>8, <2>1
  <2>3. new(i).k = "bare" /\ new(i).g = g /\ i \in RunBody(before, r)
    BY <1>2, <1>3, <2>1, <2>2
  <2> QED
    BY <1>4, <1>7, <2>3
<1>11. /\ \A i \in bare : Shift(v, i) \in uses /\ Shift(v, i) = i + 1
       /\ \A j \in uses : \E i \in bare : j = Shift(v, i)
  <2>1. ASSUME NEW i \in bare PROVE Shift(v, i) \in uses /\ Shift(v, i) = i + 1
    <3>1. Shift(v, i) = i + 1
      BY <1>1, <1>5 DEF Shift
    <3>2. Shift(v, i) \in DOMAIN after /\ after[Shift(v, i)].k = "use"
      BY <1>1, <1>2, <1>4, <1>5, ShiftCovers
    <3> QED
      BY <3>1, <3>2 DEF Kinds
  <2>2. ASSUME NEW j \in uses PROVE \E i \in bare : j = Shift(v, i)
    <3>1. j \in DOMAIN after /\ after[j].k = "use"
      BY DEF Kinds
    <3>2. PICK i \in 1..n : j = Shift(v, i)
      BY <1>2, <1>8, <3>1
    <3> QED
      BY <1>2, <1>4, <3>1, <3>2
  <2> QED
    BY <2>1, <2>2
<1>12. \A u \in uses : v < u /\ u \in RunBody(after, r)
  BY <1>1, <1>3, <1>5, <1>11
<1>13. Cardinality(uses) = count
  <2> DEFINE f == [i \in bare |-> Shift(v, i)]
  <2>1. f \in Bijection(bare, uses)
    <3>1. f \in [bare -> uses]
      BY <1>11
    <3>2. \A i, j \in bare : f[i] = f[j] => i = j
      BY <1>5, <1>11
    <3>3. \A u \in uses : \E i \in bare : f[i] = u
      BY <1>11
    <3> HIDE DEF f
    <3> QED
      BY <3>1, <3>2, <3>3, Fun_IsBij
  <2>2. IsFiniteSet(bare)
    <3>1. IsFiniteSet(1..n)
      BY <1>1, FS_Interval
    <3> QED
      BY <1>5, <3>1, FS_Subset
  <2>3. ExistsBijection(bare, uses)
    BY <2>1 DEF ExistsBijection
  <2> QED
    BY <1>6, <2>2, <2>3, FS_Bijection
<1>14. r \in DOMAIN after /\ v \in DOMAIN after
  BY <1>1, <1>2
<1> QED
  BY <1>2, <1>3, <1>9, <1>10, <1>12, <1>13, <1>14 DEF RunSeesContext, Live, after

\* A text without what stands at v.
LEMMA RemovedAt ==
  ASSUME NEW T, NEW s \in Seq(T), NEW v \in 1..Len(s)
  PROVE  /\ RemoveAt(s, v) \in Seq(T) /\ Len(RemoveAt(s, v)) = Len(s) - 1
         /\ \A i \in 1..(Len(s) - 1) : RemoveAt(s, v)[i] = s[Shift(v, i)]
<1> DEFINE a == SubSeq(s, 1, v - 1)
           b == SubSeq(s, v + 1, Len(s))
           all == a \o b
<1>1. /\ a \in Seq(T) /\ Len(a) = v - 1 /\ \A i \in 1..(v - 1) : a[i] = s[i]
      /\ b \in Seq(T) /\ Len(b) = Len(s) - v /\ \A i \in 1..(Len(s) - v) : b[i] = s[i + v]
      /\ Len(s) \in Nat
  <2>1. Len(s) \in Nat
    OBVIOUS
  <2>2. a \in Seq(T) /\ Len(a) = v - 1 /\ \A i \in 1..(v - 1) : a[i] = s[i]
    OBVIOUS
  <2>3. b \in Seq(T) /\ Len(b) = Len(s) - v /\ \A i \in 1..(Len(s) - v) : b[i] = s[i + v]
    OBVIOUS
  <2> QED
    BY <2>1, <2>2, <2>3
<1>2. RemoveAt(s, v) = all
  BY DEF RemoveAt
<1> HIDE DEF a, b
<1>3. /\ all \in Seq(T) /\ Len(all) = Len(a) + Len(b)
      /\ \A i \in 1..(Len(a) + Len(b)) : all[i] = IF i <= Len(a) THEN a[i] ELSE b[i - Len(a)]
  <2>1. a \in Seq(T) /\ b \in Seq(T)
    BY <1>1
  <2> QED
    BY <2>1, ConcatProperties
<1> HIDE DEF all
<1>4. Len(all) = Len(s) - 1
  BY <1>1, <1>3
<1>5. ASSUME NEW i \in 1..(Len(s) - 1) PROVE all[i] = s[Shift(v, i)]
  <2>1. CASE i < v
    <3>1. i \in 1..(v - 1) /\ i <= Len(a) /\ i \in 1..(Len(a) + Len(b)) /\ Shift(v, i) = i
      BY <1>1, <2>1 DEF Shift
    <3>2. all[i] = a[i] /\ a[i] = s[i]
      BY <1>1, <1>3, <3>1
    <3> QED
      BY <3>1, <3>2
  <2>2. CASE i >= v
    <3>1. /\ i - Len(a) \in 1..(Len(s) - v) /\ ~(i <= Len(a)) /\ i \in 1..(Len(a) + Len(b))
          /\ Shift(v, i) = i - Len(a) + v
      BY <1>1, <2>2 DEF Shift
    <3>2. all[i] = b[i - Len(a)] /\ b[i - Len(a)] = s[i - Len(a) + v]
      BY <1>1, <1>3, <3>1
    <3> QED
      BY <3>1, <3>2
  <2> QED
    BY <1>1, <2>1, <2>2
<1> QED
  BY <1>2, <1>3, <1>4, <1>5

\* Without its three edits the patched text is the upstream one again, with its
\* comments, its order and its indentation.
LEMMA UndoneIsUpstream ==
  ASSUME NEW raw \in Seq(Token), NEW out, NEW r, NEW v, NEW g, NEW count,
         Made(raw, out, r, v, g, count)
  PROVE  Unpatched(out) = raw
<1> DEFINE n == Len(raw)
           before == PreserveBlockComments(raw)
           after == PreserveBlockComments(out)
           new(i) == PatchToken(before, r, g, i)
           back(i) ==
             CASE after[i].k = "run" /\ after[i].params = <<"instance", "context">> ->
                    [out[i] EXCEPT !.params = <<"instance">>]
               [] after[i].k = "use" -> [out[i] EXCEPT !.k = "bare"]
               [] OTHER -> out[i]
           backs == [i \in DOMAIN out |-> back(i)]
<1>1. /\ n \in Nat /\ DOMAIN raw = 1..n /\ v \in 1..n /\ r \in 1..n /\ DOMAIN out = 1..(n + 1)
      /\ Fits(before, r, v, g, count)
  BY DEF Made
<1>2. /\ DOMAIN after = 1..(n + 1) /\ \A i \in 1..n : after[Shift(v, i)] = new(i)
      /\ after[v] = Proxy(g, raw[v].at)
  BY LiveMade
<1>3. \A i \in 1..n :
        /\ new(i).k = "use" <=> i \in StandaloneGlobals(before, r, g)
        /\ new(i).k = "run" /\ new(i).params = <<"instance", "context">> <=> i = r
        /\ new(i).k # "proxy"
  BY LiveKinds
<1>4. \A i \in 1..n : out[Shift(v, i)] = IF i \in Commented(raw) THEN raw[i] ELSE new(i)
  BY DEF Made
<1>5. /\ \A i \in 1..n : Shift(v, i) \in 1..(n + 1) /\ Shift(v, i) # v
      /\ \A j \in 1..(n + 1) : j # v => \E i \in 1..n : j = Shift(v, i)
  <2>1. \A i \in 1..n : Shift(v, i) \in 1..(n + 1) /\ Shift(v, i) # v
    BY <1>1, ShiftCovers
  <2>2. \A j \in 1..(n + 1) : j # v => \E i \in 1..n : j = Shift(v, i)
    BY <1>1, ShiftCovers
  <2> QED
    BY <2>1, <2>2
<1>6. Unpatched(out) = RemoveAt(backs, CHOOSE p \in Kinds(after, "proxy") : TRUE)
  BY DEF Unpatched, Live
<1>7. (CHOOSE p \in Kinds(after, "proxy") : TRUE) = v
  <2> HIDE DEF after, new, before
  <2>1. after[v].k = "proxy" /\ v \in DOMAIN after
    BY <1>1, <1>2 DEF Proxy
  <2>2. \A j \in Kinds(after, "proxy") : j = v
    BY <1>2, <1>3, <1>5 DEF Kinds
  <2>3. Kinds(after, "proxy") = {v}
    BY <2>1, <2>2 DEF Kinds
  <2> QED
    BY <2>3
<1>8. ASSUME NEW i \in 1..n PROVE back(Shift(v, i)) = raw[i]
  <2> DEFINE j == Shift(v, i)
  <2>1. IsToken(raw[i]) /\ after[j] = new(i) /\ raw[i] \in Token
    BY <1>1, <1>2, TokenShape
  <2> HIDE DEF after, j
  <2>2. CASE i = r
    <3>1. /\ i \notin Commented(raw) /\ raw[i].k = "run"
          /\ new(i) = [raw[i] EXCEPT !.params = <<"instance", "context">>]
      BY <1>1, <2>2, EditedTokens
    <3>2. before[i] = raw[i]
      BY <1>1, <3>1, LiveTokens
    <3>3. raw[i].params = <<"instance">> /\ "params" \in DOMAIN raw[i]
      BY <1>1, <2>1, <2>2, <3>1, <3>2, TokenShape DEF Fits
    <3>4. out[j] = [raw[i] EXCEPT !.params = <<"instance", "context">>]
      BY <1>4, <3>1 DEF j
    <3>5. back(j) = [out[j] EXCEPT !.params = <<"instance">>]
      BY <1>3, <2>1, <2>2
    <3> HIDE DEF new, before, back
    <3>6. [[raw[i] EXCEPT !.params = <<"instance", "context">>] EXCEPT !.params = <<"instance">>]
            = [raw[i] EXCEPT !.params = <<"instance">>]
      BY <2>1 DEF IsToken
    <3>7. [raw[i] EXCEPT !.params = raw[i].params] = raw[i]
      BY <2>1 DEF IsToken
    <3> QED
      BY <3>3, <3>4, <3>5, <3>6, <3>7 DEF j
  <2>3. CASE i \in StandaloneGlobals(before, r, g)
    <3>1. /\ i \notin Commented(raw) /\ raw[i].k = "bare" /\ i # r
          /\ new(i) = [raw[i] EXCEPT !.k = "use"]
      BY <1>1, <2>3, EditedTokens
    <3>2. out[j] = [raw[i] EXCEPT !.k = "use"]
      BY <1>4, <3>1 DEF j
    <3>3. back(j) = [out[j] EXCEPT !.k = "bare"]
      BY <1>3, <2>1, <2>3, <3>1
    <3> HIDE DEF new, before, back
    <3>4. [[raw[i] EXCEPT !.k = "use"] EXCEPT !.k = "bare"] = [raw[i] EXCEPT !.k = "bare"]
      BY <2>1 DEF IsToken
    <3>5. [raw[i] EXCEPT !.k = raw[i].k] = raw[i]
      BY <2>1 DEF IsToken
    <3> QED
      BY <3>1, <3>2, <3>3, <3>4, <3>5 DEF j
  <2>4. CASE i # r /\ i \notin StandaloneGlobals(before, r, g)
    <3>1. back(j) = out[j]
      BY <1>3, <2>1, <2>4
    <3>2. i \notin Commented(raw) => before[i] = raw[i]
      BY <1>1, LiveTokens
    <3>3. new(i) = before[i]
      BY <1>1, <2>4, EditedTokens
    <3>4. out[j] = raw[i]
      BY <1>4, <3>2, <3>3 DEF j
    <3> HIDE DEF new, before, back
    <3> QED
      BY <3>1, <3>4 DEF j
  <2> QED
    BY <2>2, <2>3, <2>4
<1> DEFINE T == {back(j) : j \in 1..(n + 1)}
<1>9. /\ backs \in Seq(T) /\ Len(backs) = n + 1
      /\ \A i \in 1..n : backs[Shift(v, i)] = raw[i]
  <2> HIDE DEF back, after
  <2>1. backs \in Seq(T) /\ Len(backs) = n + 1
    BY <1>1
  <2>2. \A i \in 1..n : backs[Shift(v, i)] = raw[i]
    <3> SUFFICES ASSUME NEW i \in 1..n PROVE backs[Shift(v, i)] = raw[i]
      OBVIOUS
    <3>1. Shift(v, i) \in DOMAIN out
      BY <1>1, <1>5
    <3>2. backs[Shift(v, i)] = back(Shift(v, i))
      BY <3>1
    <3> QED
      BY <1>8, <3>2
  <2> QED
    BY <2>1, <2>2
<1> HIDE DEF backs, back, T, before, after, new
<1> DEFINE rest == RemoveAt(backs, v)
<1>10. /\ rest \in Seq(T) /\ Len(rest) = n /\ \A i \in 1..n : rest[i] = backs[Shift(v, i)]
  <2>1. v \in 1..Len(backs) /\ Len(backs) - 1 = n
    BY <1>1, <1>9
  <2>2. backs \in Seq(T)
    BY <1>9
  <2>3. /\ RemoveAt(backs, v) \in Seq(T) /\ Len(RemoveAt(backs, v)) = Len(backs) - 1
        /\ \A i \in 1..(Len(backs) - 1) : RemoveAt(backs, v)[i] = backs[Shift(v, i)]
    BY <2>1, <2>2, RemovedAt
  <2> QED
    BY <2>1, <2>3
<1> HIDE DEF rest
<1>11. rest = raw
  BY <1>1, <1>9, <1>10
<1> QED
  BY <1>6, <1>7, <1>11 DEF rest

-----------------------------------------------------------------------------
(* The runner of Go's tests.                                               *)

LinesAt(s, x) == {i \in DOMAIN s : s[i] = x}

\* The line at p of a text makes place for some lines.
IsEdit(src, out, p, by) ==
  /\ Len(src) \in Nat /\ DOMAIN src = 1..Len(src) /\ Len(by) \in Nat /\ DOMAIN by = 1..Len(by)
  /\ p \in 1..Len(src) /\ IsSplice(out, src, p - 1, by, p + 1)

\* Where the other lines go.
Moved(p, by, i) == IF i < p THEN i ELSE i + Len(by) - 1

\* A line of the edited text is one of the old text or one of the edit.
LEMMA EditCovers ==
  ASSUME NEW src, NEW out, NEW p, NEW by, IsEdit(src, out, p, by)
  PROVE  /\ p \in DOMAIN src
         /\ \A i \in DOMAIN src : i # p => /\ Moved(p, by, i) \in DOMAIN out
                                           /\ out[Moved(p, by, i)] = src[i]
         /\ \A b \in DOMAIN by : p - 1 + b \in DOMAIN out /\ out[p - 1 + b] = by[b]
         /\ \A j \in DOMAIN out : \/ \E i \in DOMAIN src : i # p /\ j = Moved(p, by, i)
                                  \/ \E b \in DOMAIN by : j = p - 1 + b
         /\ \A i, k \in DOMAIN src : i < k /\ i # p /\ k # p => Moved(p, by, i) < Moved(p, by, k)
         /\ \A i \in DOMAIN src, b \in DOMAIN by :
              /\ i < p => Moved(p, by, i) < p - 1 + b
              /\ i > p => p - 1 + b < Moved(p, by, i)
<1> DEFINE n == Len(src)
           m == Len(by)
<1>1. /\ n \in Nat /\ m \in Nat /\ DOMAIN src = 1..n /\ DOMAIN by = 1..m /\ p \in 1..n
      /\ DOMAIN out = 1..Len(out) /\ Len(out) = n + m - 1
      /\ \A i \in 1..Len(out) :
           out[i] = IF i <= p - 1 THEN src[i]
                    ELSE IF i <= p - 1 + m THEN by[i - (p - 1)]
                    ELSE src[i - (p - 1 + m) + p]
  <2>1. /\ n \in Nat /\ m \in Nat /\ DOMAIN src = 1..n /\ DOMAIN by = 1..m /\ p \in 1..n
        /\ IsSplice(out, src, p - 1, by, p + 1)
    BY DEF IsEdit
  <2> HIDE DEF n, m
  <2>2. /\ DOMAIN out = 1..Len(out) /\ Len(out) = p - 1 + m + (n + 1 - (p + 1))
        /\ \A i \in 1..Len(out) :
             out[i] = IF i <= p - 1 THEN src[i]
                      ELSE IF i <= p - 1 + m THEN by[i - (p - 1)]
                      ELSE src[i - (p - 1 + m) + ((p + 1) - 1)]
    BY <2>1 DEF IsSplice, n, m
  <2>3. p - 1 + m + (n + 1 - (p + 1)) = n + m - 1 /\ (p + 1) - 1 = p
    <3>1. n \in Nat /\ m \in Nat /\ p \in Nat
      BY <2>1
    <3> QED
      BY <3>1
  <2> QED
    BY <2>1, <2>2, <2>3
<1> HIDE DEF n, m
<1>2. \A i \in 1..n : i # p => Moved(p, by, i) \in 1..Len(out) /\ out[Moved(p, by, i)] = src[i]
  <2> SUFFICES ASSUME NEW i \in 1..n, i # p
               PROVE  Moved(p, by, i) \in 1..Len(out) /\ out[Moved(p, by, i)] = src[i]
    OBVIOUS
  <2>1. CASE i < p
    BY <1>1, <2>1 DEF Moved
  <2>2. CASE i > p
    <3>1. Moved(p, by, i) = i + m - 1
      BY <1>1, <2>2 DEF Moved, m
    <3>2. n \in Nat /\ m \in Nat /\ p \in 1..n /\ Len(out) = n + m - 1
      BY <1>1
    <3>3. /\ i + m - 1 \in 1..Len(out) /\ ~(i + m - 1 <= p - 1) /\ ~(i + m - 1 <= p - 1 + m)
          /\ i + m - 1 - (p - 1 + m) + p = i
      BY <2>2, <3>2
    <3> QED
      BY <1>1, <3>1, <3>3
  <2> QED
    BY <1>1, <2>1, <2>2
<1>3. \A b \in 1..m : p - 1 + b \in 1..Len(out) /\ out[p - 1 + b] = by[b]
  <2> SUFFICES ASSUME NEW b \in 1..m
               PROVE  p - 1 + b \in 1..Len(out) /\ out[p - 1 + b] = by[b]
    OBVIOUS
  <2>1. /\ p - 1 + b \in 1..Len(out) /\ ~(p - 1 + b <= p - 1) /\ p - 1 + b <= p - 1 + m
        /\ p - 1 + b - (p - 1) = b
    BY <1>1
  <2> QED
    BY <1>1, <2>1
<1>4. ASSUME NEW j \in 1..Len(out)
      PROVE  \/ \E i \in 1..n : i # p /\ j = Moved(p, by, i)
             \/ \E b \in 1..m : j = p - 1 + b
  <2>1. CASE j < p
    <3>1. j \in 1..n /\ j # p /\ j = Moved(p, by, j)
      BY <1>1, <2>1 DEF Moved
    <3> QED
      BY <3>1
  <2>2. CASE j >= p /\ j <= p - 1 + m
    <3>1. j - (p - 1) \in 1..m /\ j = p - 1 + (j - (p - 1))
      BY <1>1, <2>2
    <3> QED
      BY <3>1
  <2>3. CASE j > p - 1 + m
    <3>1. j + 1 - m \in 1..n /\ j + 1 - m # p /\ j = Moved(p, by, j + 1 - m)
      BY <1>1, <2>3 DEF Moved, m
    <3> QED
      BY <3>1
  <2> QED
    BY <1>1, <2>1, <2>2, <2>3
<1>5. \A i, k \in 1..n : i < k /\ i # p /\ k # p => Moved(p, by, i) < Moved(p, by, k)
  BY <1>1 DEF Moved, m
<1>6. \A i \in 1..n, b \in 1..m : /\ i < p => Moved(p, by, i) < p - 1 + b
                                  /\ i > p => p - 1 + b < Moved(p, by, i)
  BY <1>1 DEF Moved, m
<1> QED
  BY <1>1, <1>2, <1>3, <1>4, <1>5, <1>6

\* A text that holds none of some lines, and each of some others once.
Holds(s, none, once) ==
  /\ \A x \in none : LinesAt(s, x) = {}
  /\ \A x \in once : \E q \in DOMAIN s : LinesAt(s, x) = {q}

\* Where an edit replaces line, the lines of none2 are not there, and those of
\* once2 once.
Gone(none, line, by, none2) ==
  \A x \in none2 : (x \in none \/ x = line) /\ \A b \in DOMAIN by : by[b] # x
There(none, once, line, by, once2) ==
  \A x \in once2 :
    \/ x \in once /\ x # line /\ \A b \in DOMAIN by : by[b] # x
    \/ /\ x \in none \/ x = line
       /\ \E b \in DOMAIN by : by[b] = x /\ \A c \in DOMAIN by : by[c] = x => c = b

\* What an edit replaces is gone, unless the edit holds it again, and the lines
\* of the edit are there.
LEMMA EditHolds ==
  ASSUME NEW src, NEW out, NEW p, NEW by, IsEdit(src, out, p, by),
         LinesAt(src, src[p]) = {p},
         NEW none, NEW once, Holds(src, none, once),
         NEW none2, Gone(none, src[p], by, none2),
         NEW once2, There(none, once, src[p], by, once2)
  PROVE  Holds(out, none2, once2)
<1> USE DEF Gone, There
<1>1. /\ \A i \in DOMAIN src : i # p => /\ Moved(p, by, i) \in DOMAIN out
                                        /\ out[Moved(p, by, i)] = src[i]
      /\ \A b \in DOMAIN by : p - 1 + b \in DOMAIN out /\ out[p - 1 + b] = by[b]
      /\ \A j \in DOMAIN out : \/ \E i \in DOMAIN src : i # p /\ j = Moved(p, by, i)
                               \/ \E b \in DOMAIN by : j = p - 1 + b
      /\ p \in DOMAIN src
  BY EditCovers
<1>2. ASSUME NEW x, x \in none \/ x = src[p]
      PROVE  \A j \in LinesAt(out, x) : \E b \in DOMAIN by : by[b] = x /\ j = p - 1 + b
  <2> SUFFICES ASSUME NEW j \in DOMAIN out, out[j] = x
               PROVE  \E b \in DOMAIN by : by[b] = x /\ j = p - 1 + b
    BY DEF LinesAt
  <2>1. \A i \in DOMAIN src : src[i] = x => i = p
    <3>1. CASE x \in none
      BY <3>1 DEF Holds, LinesAt
    <3>2. CASE x = src[p]
      BY <3>2 DEF LinesAt
    <3> QED
      BY <1>2, <3>1, <3>2
  <2> QED
    BY <1>1, <2>1
<1>3. \A x \in none2 : LinesAt(out, x) = {}
  BY <1>2
<1>4. ASSUME NEW x \in once2 PROVE \E q \in DOMAIN out : LinesAt(out, x) = {q}
  <2>1. CASE x \in once /\ x # src[p] /\ \A b \in DOMAIN by : by[b] # x
    <3>1. PICK q \in DOMAIN src : LinesAt(src, x) = {q}
      BY <2>1 DEF Holds
    <3>2. q # p /\ src[q] = x /\ \A i \in DOMAIN src : src[i] = x => i = q
      BY <2>1, <3>1 DEF LinesAt
    <3>3. Moved(p, by, q) \in DOMAIN out /\ out[Moved(p, by, q)] = x
      BY <1>1, <3>2
    <3>4. \A j \in DOMAIN out : out[j] = x => j = Moved(p, by, q)
      BY <1>1, <2>1, <3>2
    <3> QED
      BY <3>3, <3>4 DEF LinesAt
  <2>2. CASE /\ x \in none \/ x = src[p]
             /\ \E b \in DOMAIN by : by[b] = x /\ \A c \in DOMAIN by : by[c] = x => c = b
    <3>1. PICK b \in DOMAIN by : by[b] = x /\ \A c \in DOMAIN by : by[c] = x => c = b
      BY <2>2
    <3>2. p - 1 + b \in LinesAt(out, x)
      BY <1>1, <3>1 DEF LinesAt
    <3>3. \A j \in LinesAt(out, x) : j = p - 1 + b
      BY <1>2, <2>2, <3>1
    <3>4. p - 1 + b \in DOMAIN out
      BY <1>1
    <3>5. LinesAt(out, x) = {p - 1 + b}
      BY <3>2, <3>3
    <3> QED
      BY <3>4, <3>5
  <2> QED
    BY <2>1, <2>2
<1> QED
  BY <1>3, <1>4 DEF Holds

\* Whatever stands before whatever.
Before(s, x, y) == \A i \in LinesAt(s, x), j \in LinesAt(s, y) : i < j

\* After an edit at p the line x2 stands where x stood before.
Follows(src, p, by, x, x2) ==
  \/ x2 = x /\ x # src[p] /\ \A b \in DOMAIN by : by[b] # x
  \/ x = src[p] /\ LinesAt(src, x2) = {}

\* An edit elsewhere, or in the place of either line, keeps them in order.
LEMMA EditOrder ==
  ASSUME NEW src, NEW out, NEW p, NEW by, IsEdit(src, out, p, by),
         NEW x, NEW y, Before(src, x, y), x # y,
         NEW x2, Follows(src, p, by, x, x2), NEW y2, Follows(src, p, by, y, y2)
  PROVE  Before(out, x2, y2)
<1> USE DEF Follows
<1>1. /\ \A j \in DOMAIN out : \/ \E i \in DOMAIN src : i # p /\ j = Moved(p, by, i)
                               \/ \E b \in DOMAIN by : j = p - 1 + b
      /\ \A i \in DOMAIN src : i # p => out[Moved(p, by, i)] = src[i]
      /\ \A b \in DOMAIN by : out[p - 1 + b] = by[b]
      /\ \A i, k \in DOMAIN src : i < k /\ i # p /\ k # p => Moved(p, by, i) < Moved(p, by, k)
      /\ \A i \in DOMAIN src, b \in DOMAIN by :
              /\ i < p => Moved(p, by, i) < p - 1 + b
              /\ i > p => p - 1 + b < Moved(p, by, i)
      /\ p \in DOMAIN src
  BY EditCovers
<1>2. \A i, j \in DOMAIN src : src[i] = x /\ src[j] = y => i < j
  BY DEF Before, LinesAt
<1> SUFFICES ASSUME NEW i \in DOMAIN out, NEW j \in DOMAIN out, out[i] = x2, out[j] = y2
             PROVE  i < j
  BY DEF Before, LinesAt
<1>3. \/ x # src[p] /\ \E k \in DOMAIN src : k # p /\ src[k] = x /\ i = Moved(p, by, k)
      \/ x = src[p] /\ \E b \in DOMAIN by : i = p - 1 + b
  BY <1>1 DEF LinesAt
<1>4. \/ y # src[p] /\ \E k \in DOMAIN src : k # p /\ src[k] = y /\ j = Moved(p, by, k)
      \/ y = src[p] /\ \E b \in DOMAIN by : j = p - 1 + b
  BY <1>1 DEF LinesAt
<1>5. CASE x # src[p] /\ y # src[p]
  BY <1>1, <1>2, <1>3, <1>4, <1>5
<1>6. CASE x = src[p] /\ y # src[p]
  <2>1. PICK k \in DOMAIN src : k # p /\ src[k] = y /\ j = Moved(p, by, k)
    BY <1>4, <1>6
  <2>2. p < k
    BY <1>1, <1>2, <1>6, <2>1
  <2>3. PICK b \in DOMAIN by : i = p - 1 + b
    BY <1>3, <1>6
  <2> QED
    BY <1>1, <2>1, <2>2, <2>3
<1>7. CASE x # src[p] /\ y = src[p]
  <2>1. PICK k \in DOMAIN src : k # p /\ src[k] = x /\ i = Moved(p, by, k)
    BY <1>3, <1>7
  <2>2. k < p
    BY <1>1, <1>2, <1>7, <2>1
  <2>3. PICK b \in DOMAIN by : j = p - 1 + b
    BY <1>4, <1>7
  <2> QED
    BY <1>1, <2>1, <2>2, <2>3
<1> QED
  BY <1>5, <1>6, <1>7

\* A line that is found exactly once makes place for its edit.
LEMMA ReplacedOnce ==
  ASSUME NEW T, NEW src \in Seq(T), NEW line, NEW U, NEW by \in Seq(U),
         NEW edit, edit = [line |-> line, by |-> by],
         ReplaceExactlyOnce(src, edit) # Refused
  PROVE  /\ ReplaceExactlyOnce(src, edit) \in Seq(T \union U)
         /\ \E p \in DOMAIN src : /\ src[p] = line /\ LinesAt(src, line) = {p}
                                  /\ IsEdit(src, ReplaceExactlyOnce(src, edit), p, by)
<1> DEFINE found == {i \in DOMAIN src : src[i] = line}
           at == CHOOSE i \in found : TRUE
           out == SubSeq(src, 1, at - 1) \o by \o SubSeq(src, at + 1, Len(src))
<1>1. Cardinality(found) = 1 /\ ReplaceExactlyOnce(src, edit) = out
  <2>1. edit.line = line /\ edit.by = by
    OBVIOUS
  <2> QED
    BY <2>1 DEF ReplaceExactlyOnce
<1>2. DOMAIN src = 1..Len(src) /\ Len(src) \in Nat /\ DOMAIN by = 1..Len(by) /\ Len(by) \in Nat
  OBVIOUS
<1>3. PICK p \in 1..Len(src) : found = {p}
  <2>1. found \in SUBSET (1..Len(src))
    BY <1>2
  <2> HIDE DEF found
  <2> QED
    BY <1>1, <1>2, <2>1, OneElement
<1>4. at = p /\ src[p] = line
  BY <1>3
<1>5. p - 1 \in 0..Len(src) /\ p + 1 \in (p - 1 + 1)..(Len(src) + 1)
  BY <1>2, <1>3
<1> DEFINE spliced == SubSeq(src, 1, p - 1) \o by \o SubSeq(src, p + 1, Len(src))
<1>6. out = spliced
  BY <1>4
<1> HIDE DEF out, at, spliced
<1>7. spliced \in Seq(T \union U) /\ IsSplice(spliced, src, p - 1, by, p + 1)
  BY <1>5, Spliced DEF spliced
<1>8. IsEdit(src, spliced, p, by)
  BY <1>2, <1>3, <1>7 DEF IsEdit
<1> QED
  BY <1>1, <1>2, <1>3, <1>4, <1>6, <1>7, <1>8 DEF LinesAt

\* What can be read from a text of one line.
LEMMA OneLine ==
  ASSUME NEW a, NEW s, s = <<a>> PROVE s \in Seq({a}) /\ DOMAIN s = {1} /\ s[1] = a
<1>1. 1..1 = {1}
  OBVIOUS
<1> QED
  BY <1>1

\* Of two lines.
LEMMA TwoLines ==
  ASSUME NEW a, NEW b, NEW s, s = <<a, b>>
  PROVE  s \in Seq({a, b}) /\ DOMAIN s = {1, 2} /\ s[1] = a /\ s[2] = b
<1>1. 1..2 = {1, 2}
  OBVIOUS
<1> QED
  BY <1>1

\* Of three lines.
LEMMA ThreeLines ==
  ASSUME NEW a, NEW b, NEW c, NEW s, s = <<a, b, c>>
  PROVE  s \in Seq({a, b, c}) /\ DOMAIN s = {1, 2, 3} /\ s[1] = a /\ s[2] = b /\ s[3] = c
<1>1. 1..3 = {1, 2, 3}
  OBVIOUS
<1> QED
  BY <1>1

\* The edits, line by line.
LEMMA EditLines ==
  /\ EnvEdit.by \in Seq({"// env"}) /\ DOMAIN EnvEdit.by = {1} /\ EnvEdit.by[1] = "// env"
  /\ RequireEdit.by \in Seq({"require", "tryCatch"}) /\ DOMAIN RequireEdit.by = {1, 2}
  /\ RequireEdit.by[1] = "require" /\ RequireEdit.by[2] = "tryCatch"
  /\ InstantiateEdit.by \in Seq({"context", "importObject", "instantiate with ready"})
  /\ DOMAIN InstantiateEdit.by = {1, 2, 3} /\ InstantiateEdit.by[1] = "context"
  /\ InstantiateEdit.by[2] = "importObject" /\ InstantiateEdit.by[3] = "instantiate with ready"
  /\ RunEdit.by \in Seq({"run with context"}) /\ DOMAIN RunEdit.by = {1}
  /\ RunEdit.by[1] = "run with context"
  /\ EnvEdit = [line |-> "env", by |-> EnvEdit.by]
  /\ RequireEdit = [line |-> "require", by |-> RequireEdit.by]
  /\ InstantiateEdit = [line |-> "instantiate", by |-> InstantiateEdit.by]
  /\ RunEdit = [line |-> "run", by |-> RunEdit.by]
<1>1. /\ EnvEdit.by = <<"// env">> /\ RequireEdit.by = <<"require", "tryCatch">>
      /\ InstantiateEdit.by = <<"context", "importObject", "instantiate with ready">>
      /\ RunEdit.by = <<"run with context">>
  BY DEF EnvEdit, RequireEdit, InstantiateEdit, RunEdit
<1>2. /\ EnvEdit = [line |-> "env", by |-> EnvEdit.by]
      /\ RequireEdit = [line |-> "require", by |-> RequireEdit.by]
      /\ InstantiateEdit = [line |-> "instantiate", by |-> InstantiateEdit.by]
      /\ RunEdit = [line |-> "run", by |-> RunEdit.by]
  BY DEF EnvEdit, RequireEdit, InstantiateEdit, RunEdit
<1>3. /\ EnvEdit.by \in Seq({"// env"}) /\ DOMAIN EnvEdit.by = {1} /\ EnvEdit.by[1] = "// env"
      /\ RunEdit.by \in Seq({"run with context"}) /\ DOMAIN RunEdit.by = {1}
      /\ RunEdit.by[1] = "run with context"
  BY <1>1, OneLine, Zenon
<1>4. /\ RequireEdit.by \in Seq({"require", "tryCatch"}) /\ DOMAIN RequireEdit.by = {1, 2}
      /\ RequireEdit.by[1] = "require" /\ RequireEdit.by[2] = "tryCatch"
  <2> DEFINE a == "require"
             b == "tryCatch"
             s == RequireEdit.by
  <2>1. s = <<a, b>>
    BY <1>1
  <2> HIDE DEF a, b, s
  <2>2. s \in Seq({a, b}) /\ DOMAIN s = {1, 2} /\ s[1] = a /\ s[2] = b
    BY <2>1, TwoLines
  <2> QED
    BY <2>2 DEF a, b, s
<1>5. /\ InstantiateEdit.by \in Seq({"context", "importObject", "instantiate with ready"})
      /\ DOMAIN InstantiateEdit.by = {1, 2, 3} /\ InstantiateEdit.by[1] = "context"
      /\ InstantiateEdit.by[2] = "importObject"
      /\ InstantiateEdit.by[3] = "instantiate with ready"
  <2> DEFINE a == "context"
             b == "importObject"
             c == "instantiate with ready"
             s == InstantiateEdit.by
  <2>1. s = <<a, b, c>>
    BY <1>1
  <2> HIDE DEF a, b, c, s
  <2>2. /\ s \in Seq({a, b, c}) /\ DOMAIN s = {1, 2, 3}
        /\ s[1] = a /\ s[2] = b /\ s[3] = c
    BY <2>1, ThreeLines
  <2> QED
    BY <2>2 DEF a, b, c, s
<1> QED
  BY <1>2, <1>3, <1>4, <1>5

\* A runner that is not refused has each of the edits once and none of the lines
\* they replace, and declares the context before it passes it.
LEMMA RunnerMade ==
  ASSUME NEW raw, PublishedRunner(raw), TransformNode(raw) # Refused
  PROVE  LET out == TransformNode(raw) IN
         /\ \A x \in {"env", "run", "instantiate"} : LinesAt(out, x) = {}
         /\ \A x \in {"// env", "require", "tryCatch", "context", "importObject",
                      "instantiate with ready", "run with context"} :
              \E q \in DOMAIN out : LinesAt(out, x) = {q}
         /\ Before(out, "context", "run with context")
<1> DEFINE N0 == {"// env", "tryCatch", "context", "importObject", "instantiate with ready",
                  "run with context"}
           N1 == {"env", "tryCatch", "context", "importObject", "instantiate with ready",
                  "run with context"}
           O1 == {"// env"}
           N2 == {"env", "context", "importObject", "instantiate with ready",
                  "run with context"}
           O2 == {"// env", "require", "tryCatch"}
           N3 == {"env", "instantiate", "run with context"}
           O3 == {"// env", "require", "tryCatch", "context", "importObject",
                  "instantiate with ready"}
           N4 == {"env", "run", "instantiate"}
           O4 == {"// env", "require", "tryCatch", "context", "importObject",
                  "instantiate with ready", "run with context"}
           s1 == ReplaceExactlyOnce(raw, EnvEdit)
           s2 == ReplaceExactlyOnce(s1, RequireEdit)
           s3 == ReplaceExactlyOnce(s2, InstantiateEdit)
           s4 == ReplaceExactlyOnce(s3, RunEdit)
<1>1. TransformNode(raw) = s4 /\ s1 # Refused /\ s2 # Refused /\ s3 # Refused /\ s4 # Refused
  BY DEF TransformNode, ThenReplace
<1>2. /\ raw \in Seq(STRING) /\ Holds(raw, N0, {}) /\ Before(raw, "instantiate", "run")
  BY DEF PublishedRunner, Holds, LinesAt, Before
<1> HIDE DEF s1, s2, s3, s4
\* The process environment.
<1>3. /\ \E T : s1 \in Seq(T)
      /\ Holds(s1, N1, O1) /\ Before(s1, "instantiate", "run")
  <2>1. PICK T : raw \in Seq(T)
    BY <1>2
  <2>2. /\ s1 \in Seq(T \union {"// env"})
        /\ \E p \in DOMAIN raw : /\ raw[p] = "env" /\ LinesAt(raw, "env") = {p}
                                /\ IsEdit(raw, s1, p, EnvEdit.by)
    <3>1. /\ EnvEdit.by \in Seq({"// env"})
          /\ EnvEdit = [line |-> "env", by |-> EnvEdit.by]
      BY EditLines
    <3>2. ReplaceExactlyOnce(raw, EnvEdit) # Refused /\ ReplaceExactlyOnce(raw, EnvEdit) = s1
      BY <1>1 DEF s1
    <3> QED
      BY <2>1, <3>1, <3>2, ReplacedOnce
  <2>3. PICK p \in DOMAIN raw : /\ raw[p] = "env" /\ LinesAt(raw, "env") = {p}
                               /\ IsEdit(raw, s1, p, EnvEdit.by)
    BY <2>2
  <2>4. DOMAIN EnvEdit.by = {1} /\ EnvEdit.by[1] = "// env"
    BY EditLines
  <2>5. Gone(N0, raw[p], EnvEdit.by, N1)
    BY <2>3, <2>4 DEF Gone
  <2>6. There(N0, {}, raw[p], EnvEdit.by, O1)
    BY <2>3, <2>4 DEF There
  <2>7. Before(s1, "instantiate", "run")
    <3>2. Follows(raw, p, EnvEdit.by, "instantiate", "instantiate")
      BY <2>3, <2>4 DEF Follows
    <3>3. Follows(raw, p, EnvEdit.by, "run", "run")
      BY <2>3, <2>4 DEF Follows
    <3>4. Before(raw, "instantiate", "run")
      BY <1>2
    <3>5. "instantiate" # "run"
      OBVIOUS
    <3> QED
      BY <2>3, <3>2, <3>3, <3>4, <3>5, EditOrder
  <2> HIDE DEF N0, N1, N2, N3, N4, O1, O2, O3, O4
  <2> QED
    BY <1>2, <2>2, <2>3, <2>5, <2>6, <2>7, EditHolds
\* Loading fs, and after it what the tests need.
<1>4. /\ \E T : s2 \in Seq(T)
      /\ Holds(s2, N2, O2) /\ Before(s2, "instantiate", "run")
  <2>1. PICK T : s1 \in Seq(T)
    BY <1>3
  <2>2. /\ s2 \in Seq(T \union {"require", "tryCatch"})
        /\ \E p \in DOMAIN s1 : /\ s1[p] = "require" /\ LinesAt(s1, "require") = {p}
                                /\ IsEdit(s1, s2, p, RequireEdit.by)
    <3>1. /\ RequireEdit.by \in Seq({"require", "tryCatch"})
          /\ RequireEdit = [line |-> "require", by |-> RequireEdit.by]
      BY EditLines
    <3>2. ReplaceExactlyOnce(s1, RequireEdit) # Refused /\ ReplaceExactlyOnce(s1, RequireEdit) = s2
      BY <1>1 DEF s2
    <3> QED
      BY <2>1, <3>1, <3>2, ReplacedOnce
  <2>3. PICK p \in DOMAIN s1 : /\ s1[p] = "require" /\ LinesAt(s1, "require") = {p}
                               /\ IsEdit(s1, s2, p, RequireEdit.by)
    BY <2>2
  <2>4. DOMAIN RequireEdit.by = {1, 2} /\ RequireEdit.by[1] = "require" /\ RequireEdit.by[2] = "tryCatch"
    BY EditLines
  <2>5. Gone(N1, s1[p], RequireEdit.by, N2)
    BY <2>3, <2>4 DEF Gone
  <2>6. There(N1, O1, s1[p], RequireEdit.by, O2)
    BY <2>3, <2>4 DEF There
  <2>7. Before(s2, "instantiate", "run")
    <3>2. Follows(s1, p, RequireEdit.by, "instantiate", "instantiate")
      BY <2>3, <2>4 DEF Follows
    <3>3. Follows(s1, p, RequireEdit.by, "run", "run")
      BY <2>3, <2>4 DEF Follows
    <3>4. Before(s1, "instantiate", "run")
      BY <1>3
    <3>5. "instantiate" # "run"
      OBVIOUS
    <3> QED
      BY <2>3, <3>2, <3>3, <3>4, <3>5, EditOrder
  <2> HIDE DEF N0, N1, N2, N3, N4, O1, O2, O3, O4
  <2> QED
    BY <1>3, <2>2, <2>3, <2>5, <2>6, <2>7, EditHolds
\* The context, in front of the instantiation.
<1>5. /\ \E T : s3 \in Seq(T)
      /\ Holds(s3, N3, O3) /\ Before(s3, "context", "run")
  <2>1. PICK T : s2 \in Seq(T)
    BY <1>4
  <2>2. /\ s3 \in Seq(T \union {"context", "importObject", "instantiate with ready"})
        /\ \E p \in DOMAIN s2 : /\ s2[p] = "instantiate" /\ LinesAt(s2, "instantiate") = {p}
                                /\ IsEdit(s2, s3, p, InstantiateEdit.by)
    <3>1. /\ InstantiateEdit.by \in Seq({"context", "importObject", "instantiate with ready"})
          /\ InstantiateEdit = [line |-> "instantiate", by |-> InstantiateEdit.by]
      BY EditLines
    <3>2. ReplaceExactlyOnce(s2, InstantiateEdit) # Refused /\ ReplaceExactlyOnce(s2, InstantiateEdit) = s3
      BY <1>1 DEF s3
    <3> QED
      BY <2>1, <3>1, <3>2, ReplacedOnce
  <2>3. PICK p \in DOMAIN s2 : /\ s2[p] = "instantiate" /\ LinesAt(s2, "instantiate") = {p}
                               /\ IsEdit(s2, s3, p, InstantiateEdit.by)
    BY <2>2
  <2>4. DOMAIN InstantiateEdit.by = {1, 2, 3} /\ InstantiateEdit.by[1] = "context" /\ InstantiateEdit.by[2] = "importObject" /\ InstantiateEdit.by[3] = "instantiate with ready"
    BY EditLines
  <2>5. Gone(N2, s2[p], InstantiateEdit.by, N3)
    BY <2>3, <2>4 DEF Gone
  <2>6. There(N2, O2, s2[p], InstantiateEdit.by, O3)
    BY <2>3, <2>4 DEF There
  <2>7. Before(s3, "context", "run")
    <3>1. LinesAt(s2, "context") = {}
      BY <1>4 DEF Holds
    <3>2. Follows(s2, p, InstantiateEdit.by, "instantiate", "context")
      BY <2>3, <2>4, <3>1 DEF Follows
    <3>3. Follows(s2, p, InstantiateEdit.by, "run", "run")
      BY <2>3, <2>4, <3>1 DEF Follows
    <3>4. Before(s2, "instantiate", "run")
      BY <1>4
    <3>5. "instantiate" # "run"
      OBVIOUS
    <3> QED
      BY <2>3, <3>2, <3>3, <3>4, <3>5, EditOrder
  <2> HIDE DEF N0, N1, N2, N3, N4, O1, O2, O3, O4
  <2> QED
    BY <1>4, <2>2, <2>3, <2>5, <2>6, <2>7, EditHolds
\* The run, which passes it.
<1>6. /\ \E T : s4 \in Seq(T)
      /\ Holds(s4, N4, O4) /\ Before(s4, "context", "run with context")
  <2>1. PICK T : s3 \in Seq(T)
    BY <1>5
  <2>2. /\ s4 \in Seq(T \union {"run with context"})
        /\ \E p \in DOMAIN s3 : /\ s3[p] = "run" /\ LinesAt(s3, "run") = {p}
                                /\ IsEdit(s3, s4, p, RunEdit.by)
    <3>1. /\ RunEdit.by \in Seq({"run with context"})
          /\ RunEdit = [line |-> "run", by |-> RunEdit.by]
      BY EditLines
    <3>2. ReplaceExactlyOnce(s3, RunEdit) # Refused /\ ReplaceExactlyOnce(s3, RunEdit) = s4
      BY <1>1 DEF s4
    <3> QED
      BY <2>1, <3>1, <3>2, ReplacedOnce
  <2>3. PICK p \in DOMAIN s3 : /\ s3[p] = "run" /\ LinesAt(s3, "run") = {p}
                               /\ IsEdit(s3, s4, p, RunEdit.by)
    BY <2>2
  <2>4. DOMAIN RunEdit.by = {1} /\ RunEdit.by[1] = "run with context"
    BY EditLines
  <2>5. Gone(N3, s3[p], RunEdit.by, N4)
    BY <2>3, <2>4 DEF Gone
  <2>6. There(N3, O3, s3[p], RunEdit.by, O4)
    BY <2>3, <2>4 DEF There
  <2>7. Before(s4, "context", "run with context")
    <3>1. LinesAt(s3, "run with context") = {}
      BY <1>5 DEF Holds
    <3>2. Follows(s3, p, RunEdit.by, "context", "context")
      BY <2>3, <2>4, <3>1 DEF Follows
    <3>3. Follows(s3, p, RunEdit.by, "run", "run with context")
      BY <2>3, <2>4, <3>1 DEF Follows
    <3>4. Before(s3, "context", "run")
      BY <1>5
    <3>5. "context" # "run"
      OBVIOUS
    <3> QED
      BY <2>3, <3>2, <3>3, <3>4, <3>5, EditOrder
  <2> HIDE DEF N0, N1, N2, N3, N4, O1, O2, O3, O4
  <2> QED
    BY <1>5, <2>2, <2>3, <2>5, <2>6, <2>7, EditHolds
<1> QED
  BY <1>1, <1>6 DEF Holds

-----------------------------------------------------------------------------
(* What a release comes out as.                                            *)

\* A text that the script holds as patched is what its patch makes of the
\* release, which has it.
LEMMA PatchedText ==
  ASSUME IInv, NEW file \in {"go", "tinygo", "node"}, Patched(file)
  PROVE  /\ text[file] = Result(file) /\ Result(file) # Refused /\ Upstream(file) # Missing
         /\ args.go \in GoTags /\ args.tinygo \in TinygoTags
<1>1. file \in Files /\ file # "exec"
  BY DEF Files
<1>2. \E i \in DOMAIN Program : Program[i] = Op("patch", file)
  <2>1. /\ Program[5] = Op("patch", "go") /\ Program[6] = Op("patch", "tinygo")
        /\ Program[7] = Op("patch", "node")
    BY DEF Program
  <2>2. 5 \in DOMAIN Program /\ 6 \in DOMAIN Program /\ 7 \in DOMAIN Program
    BY ProgramSteps
  <2> QED
    BY <2>1, <2>2
<1>3. \A i \in DOMAIN Program : Program[i] = Op("patch", file) => i = PatchAt(file)
  <2>1. Op("patch", file).op = "patch" /\ Op("patch", file).on = file
    BY DEF Op
  <2> QED
    BY <2>1, ProgramSteps
<1>4. (CHOOSE i \in DOMAIN Program : Program[i] = Op("patch", file)) = PatchAt(file)
  BY <1>2, <1>3
<1>5. started > 0 /\ status # "failed" /\ pc > PatchAt(file)
  BY <1>4 DEF Patched
<1>6. TextsInv
  BY <1>5 DEF IInv, ShapeInv, RunningInv, DoneInv
<1>7. pc > FetchAt(file) /\ pc > 0
  BY <1>1, <1>5, StepsOrder DEF IInv, ShapeInv
<1> QED
  BY <1>1, <1>5, <1>6, <1>7 DEF TextsInv, IInv, ShapeInv

\* A published text that is not refused, patched.
LEMMA TextIsExact ==
  ASSUME NEW raw, NEW g, NEW count, PublishedText(raw, g),
         TransformWasmExec(raw, g, count) # Refused
  PROVE  /\ RunSeesContext(Live(TransformWasmExec(raw, g, count)), g, count)
         /\ Unpatched(TransformWasmExec(raw, g, count)) = raw
<1>1. raw \in Seq(Token)
  BY DEF PublishedText
<1>2. PICK r, v : Made(raw, TransformWasmExec(raw, g, count), r, v, g, count)
  BY <1>1, Transformed
<1> QED
  BY <1>1, <1>2, SeesContext, UndoneIsUpstream

\* What the script holds as Go's patched wasm_exec.js, and as the runner of its
\* tests.
GoFilesExact ==
  /\ Patched("go") => /\ RunSeesContext(Live(text.go), "globalThis", 2)
                      /\ Unpatched(text.go) = WasmExec[args.go]
  /\ RunnerIsPatched

\* The two patched files of Go, with what their patches are proved to do.
LEMMA GoFiles == IInv => GoFilesExact
<1> SUFFICES ASSUME IInv PROVE GoFilesExact
  OBVIOUS
<1>1. ASSUME Patched("go")
      PROVE  /\ RunSeesContext(Live(text.go), "globalThis", 2)
             /\ Unpatched(text.go) = WasmExec[args.go]
  <2>1. /\ text["go"] = Result("go") /\ Result("go") # Refused /\ Upstream("go") # Missing
        /\ args.go \in GoTags
    BY <1>1, PatchedText
  <2>2. Upstream("go") = WasmExec[args.go]
    BY DEF Upstream
  <2>3. Result("go") = TransformWasmExec(WasmExec[args.go], "globalThis", 2)
    BY DEF Result, TransformGo
  <2>4. PublishedText(WasmExec[args.go], "globalThis")
    BY <2>1, <2>2, TextsAssumption
  <2> QED
    BY <2>1, <2>3, <2>4, TextIsExact
<1>2. RunnerIsPatched
  <2> SUFFICES ASSUME Patched("node") PROVE RunnerIsPatched
    BY DEF RunnerIsPatched
  <2> DEFINE out == TransformNode(WasmExecNode[args.go])
  <2>1. /\ text["node"] = Result("node") /\ Result("node") # Refused
        /\ Upstream("node") # Missing /\ args.go \in GoTags
    BY PatchedText
  <2>2. Upstream("node") = WasmExecNode[args.go] /\ Result("node") = out
    BY DEF Upstream, Result
  <2>3. PublishedRunner(WasmExecNode[args.go])
    BY <2>1, <2>2, TextsAssumption
  <2>4. /\ \A x \in {"env", "run", "instantiate"} : LinesAt(out, x) = {}
        /\ \A x \in {"// env", "require", "tryCatch", "context", "importObject",
                     "instantiate with ready", "run with context"} :
             \E q \in DOMAIN out : LinesAt(out, x) = {q}
        /\ Before(out, "context", "run with context")
    BY <2>1, <2>2, <2>3, RunnerMade
  <2>5. out = text.node
    BY <2>1, <2>2
  <2> HIDE DEF out
  <2>6. \A q : Cardinality({q}) = 1
    BY FS_Singleton
  <2> DEFINE at(line) == {i \in DOMAIN text.node : text.node[i] = line}
  <2>7. \A x : LinesAt(text.node, x) = at(x)
    BY DEF LinesAt
  <2>8. at("env") = {} /\ at("run") = {} /\ at("instantiate") = {}
    BY <2>4, <2>5, <2>7
  <2>9. \A x \in {"// env", "require", "tryCatch", "context", "importObject",
                  "instantiate with ready", "run with context"} : Cardinality(at(x)) = 1
    <3> SUFFICES ASSUME NEW x \in {"// env", "require", "tryCatch", "context", "importObject",
                                   "instantiate with ready", "run with context"}
                 PROVE  Cardinality(at(x)) = 1
      OBVIOUS
    <3>1. PICK q : LinesAt(out, x) = {q}
      BY <2>4
    <3>2. at(x) = {q}
      BY <2>5, <2>7, <3>1
    <3> HIDE DEF at
    <3> QED
      BY <2>6, <3>2
  <2>10. \A c \in at("context"), r \in at("run with context") : c < r
    BY <2>4, <2>5, <2>7 DEF Before
  <2> QED
    BY <2>8, <2>9, <2>10 DEF RunnerIsPatched
<1> QED
  BY <1>1, <1>2 DEF GoFilesExact

\* Go's wasm_exec.js comes out of its patch with the context shown to Go and
\* otherwise as it was published, in both files it is written to, and the
\* runner with its four edits (transform-wasm-exec.ts, transform-node.ts).
THEOREM GoFilesAreExact == Spec => []GoFilesExact
BY GoFiles, Invariance, PTL

\* A release of TinyGo was asked for that has the layout before the current one,
\* which is Go's.
LegacyAsked ==
  /\ args.tinygo \in TinygoTags /\ TinygoWasmExec[args.tinygo] # Missing
  /\ ~IsCurrentLayout(TinygoWasmExec[args.tinygo])

\* Where no legacy TinyGo was asked for, every release that is not refused comes out of
\* its patch with the edits the workers need, each once, and otherwise as it
\* was published (transform-go.ts, transform-tinygo.ts, transform-node.ts).
THEOREM PatchesAreMade == Spec => [](~LegacyAsked => PatchesAreExact)
<1>1. IInv => (~LegacyAsked => PatchesAreExact)
  <2> SUFFICES ASSUME IInv, ~LegacyAsked PROVE PatchesAreExact
    OBVIOUS
  <2>1. GoFilesExact
    BY GoFiles
  <2>2. ASSUME Patched("tinygo")
        PROVE  /\ IsCurrentLayout(TinygoWasmExec[args.tinygo])
               /\ RunSeesContext(Live(text.tinygo), "globalThis", 1)
               /\ Unpatched(text.tinygo) = TinygoWasmExec[args.tinygo]
    <3>1. /\ text["tinygo"] = Result("tinygo") /\ Result("tinygo") # Refused
          /\ Upstream("tinygo") # Missing /\ args.tinygo \in TinygoTags
      BY <2>2, PatchedText
    <3>2. Upstream("tinygo") = TinygoWasmExec[args.tinygo]
      BY DEF Upstream
    <3>3. /\ IsCurrentLayout(TinygoWasmExec[args.tinygo])
          /\ Result("tinygo") = TransformWasmExec(TinygoWasmExec[args.tinygo], "globalThis", 1)
      BY <3>1, <3>2 DEF Result, TransformTinygo, LegacyAsked
    <3>4. PublishedText(TinygoWasmExec[args.tinygo], "globalThis")
      BY <3>1, <3>2, TextsAssumption
    <3> QED
      BY <3>1, <3>3, <3>4, TextIsExact
  <2>3. ContextReachesGo
    BY <2>1, <2>2 DEF GoFilesExact, ContextReachesGo
  <2>4. NothingLostInPrint
    BY <2>1, <2>2 DEF GoFilesExact, NothingLostInPrint
  <2>5. OnlyNodeBlocksOff
    BY <2>2 DEF OnlyNodeBlocksOff
  <2> QED
    BY <2>1, <2>3, <2>4, <2>5 DEF GoFilesExact, PatchesAreExact
<1> QED
  BY <1>1, Invariance, PTL
=============================================================================
