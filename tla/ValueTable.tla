----------------------------- MODULE ValueTable -----------------------------
(***************************************************************************)
(* The table through which a Go program holds JavaScript values, and the   *)
(* imports that read and fill it: wasm_exec_go.js and, for TinyGo,         *)
(* wasm_exec_tinygo.js.                                                    *)
(*                                                                         *)
(* Go names a JavaScript value by an id.  _values maps ids to values, _ids *)
(* maps values back, _goRefCounts says how many times an id was handed to  *)
(* Go, and _idPool keeps the ids that were given back.  A js.Value of Go   *)
(* (a slot of `held`) remembers an id only, so everything depends on the   *)
(* four tables agreeing with one another and with what Go still holds.     *)
(*                                                                         *)
(* An import is a short program of steps on the caller's frame: it loads   *)
(* arguments, runs JavaScript (which may re-enter Go), asks for the stack  *)
(* pointer again, and stores a result.  Re-entered Go may move the stack.  *)
(*                                                                         *)
(* A write to _pendingEvent, the exit and the timers are the subject of    *)
(* GoInstance.  Left out: the payload of values, numbers other than by     *)
(* "num", the success flag of a call, exceptions outside of a try (they    *)
(* unwind the program).                                                    *)
(***************************************************************************)
EXTENDS Integers, Sequences, FiniteSets

CONSTANTS
  Values,          \* JavaScript values that need an id
  Kind,            \* their typeof: [Values -> Kinds]
  Slots,           \* the references a Go program can hold at once
  Results,         \* bound: what JavaScript returns to Go
  Flavours,        \* which shims: a subset of {"go", "tinygo"}
  GettersReenter,  \* may a getter, setter or proxy trap call Go?
  MaxDepth,        \* bound: imports in progress at once
  MaxMoves,        \* bound: how often the Go stack moves
  MaxCount         \* bound: a reference count

Kinds == {"object", "string", "symbol", "function", "bigint"}

\* The entries every table begins with, at ids 0 to 6.
Predeclared == <<"NaN", "0", "null", "true", "false", "global", "this">>
Fixed       == 7
FixedId(v)  == CASE v = "NaN"    -> 0
                 [] v = "0"      -> 1
                 [] v = "null"   -> 2
                 [] v = "true"   -> 3
                 [] v = "false"  -> 4
                 [] v = "global" -> 5
                 [] OTHER        -> 6
Null        == "null"
FixedKeys   == {"0", "null", "true", "false", "global", "this"}
Keys        == Values \cup FixedKeys
Inline      == {"num", "undefined"}   \* encoded in the reference itself
JsValues    == Keys \cup Inline \cup {"NaN"}
None        == -1                     \* absent from _ids; an inline reference

ASSUME ValuesAssumption ==
  /\ Values \cap (FixedKeys \cup {"NaN"} \cup Inline) = {}
  /\ Kind \in [Values -> Kinds]
ASSUME SlotsAssumption == IsFiniteSet(Slots)
ASSUME BoundsAssumption ==
  /\ Flavours \subseteq {"go", "tinygo"}
  /\ Results \subseteq JsValues
  /\ GettersReenter \in BOOLEAN
  /\ MaxDepth \in Nat /\ MaxMoves \in Nat /\ MaxCount \in Nat

VARIABLES
  flavour,  \* which shim runs the program
  size,     \* _values.length
  values,   \* _values
  counts,   \* _goRefCounts, from id 7 on (below: Infinity, or undefined)
  ids,      \* _ids, None where it has no entry
  pool,     \* _idPool
  held,     \* the references Go holds: an id, and the value it was made from
  calls,    \* the imports in progress, innermost last
  sp,       \* where the stack of the calling goroutines is
  stale     \* history: an import used a frame that has moved

table == <<size, values, counts, ids, pool, held>>
vars  == <<flavour, size, values, counts, ids, pool, held, calls, sp, stale>>

-----------------------------------------------------------------------------
(* References. *)

NoRef == [id |-> None, val |-> "undefined", temp |-> FALSE]
Refs  == [id : Int, val : JsValues, temp : BOOLEAN]

\* Faulty variant: strings are left without a type.
UntypedString(v) ==
  CASE v \in {"global", "this"} -> 1
    [] v \in Values -> IF Kind[v] \in {"string", "bigint"} THEN 0 ELSE 1
    [] OTHER -> 0

\* The type in the upper half of a reference: 0 means Go keeps no finalizer.
GoTypeFlag(v) ==
  CASE v \in {"global", "this"} -> 1
    [] v \in Values -> CASE Kind[v] = "object"   -> 1
                         [] Kind[v] = "string"   -> 2
                         [] Kind[v] = "symbol"   -> 3
                         [] Kind[v] = "function" -> 4
                         [] OTHER -> 0
    [] OTHER -> 0

\* Values that storeValue and boxValue encode without looking at _ids.
GoDirect   == {"NaN"}
TinyDirect == {"NaN", "0", "null", "true", "false"}
Direct == IF flavour = "go" THEN GoDirect ELSE TinyDirect

Lookup(v) == ids[v]

\* A reference to v with the given id goes into the free slot s.
Hold(s, v, id, temp) ==
  /\ held[s] = NoRef
  /\ held' = [held EXCEPT ![s] = [id |-> id, val |-> v, temp |-> temp]]

StoreInline(v, s) ==
  /\ v \in Inline
  /\ UNCHANGED table

StoreDirect(v, s, temp) ==
  /\ v \in Direct
  /\ Hold(s, v, FixedId(v), temp)
  /\ UNCHANGED <<size, values, counts, ids, pool>>

\* The value has an id: count one more reference (Infinity stays Infinity).
StoreKnown(v, s, temp) ==
  /\ v \in Keys \ Direct
  /\ Lookup(v) # None
  /\ Lookup(v) >= Fixed => counts[Lookup(v)] < MaxCount
  /\ Hold(s, v, Lookup(v), temp)
  /\ counts' = [i \in Fixed..(size - 1) |->
                  IF i = Lookup(v) THEN counts[i] + 1 ELSE counts[i]]
  /\ UNCHANGED <<size, values, ids, pool>>

\* It has none: take one from the pool, or a new one at the end.
StorePooled(v, s, temp) ==
  /\ v \in Keys \ Direct
  /\ Lookup(v) = None
  /\ pool # <<>>
  /\ LET id == pool[Len(pool)] IN
       /\ pool' = SubSeq(pool, 1, Len(pool) - 1)
       /\ values' = [values EXCEPT ![id] = v]
       /\ counts' = [counts EXCEPT ![id] = 1]
       /\ ids' = [ids EXCEPT ![v] = id]
       /\ Hold(s, v, id, temp)
  /\ UNCHANGED size

StoreNew(v, s, temp) ==
  /\ v \in Keys \ Direct
  /\ Lookup(v) = None
  /\ pool = <<>>
  /\ size' = size + 1
  /\ values' = [i \in 0..size |-> IF i = size THEN v ELSE values[i]]
  /\ counts' = [i \in Fixed..size |-> IF i = size THEN 1 ELSE counts[i]]
  /\ ids' = [ids EXCEPT ![v] = size]
  /\ Hold(s, v, size, temp)
  /\ UNCHANGED pool

\* storeValue / boxValue: a reference to v for Go.
StoreValue(v, s, temp) ==
  \/ StoreInline(v, s)
  \/ StoreDirect(v, s, temp)
  \/ StoreKnown(v, s, temp)
  \/ StorePooled(v, s, temp)
  \/ StoreNew(v, s, temp)

\* Faulty variant: the freed value keeps its entry in _ids.
FinalizeKeepsId(id) ==
  IF id < Fixed
  THEN UNCHANGED <<size, values, counts, ids, pool>>
  ELSE /\ counts' = [counts EXCEPT ![id] = @ - 1]
       /\ IF counts[id] = 1
          THEN values' = [values EXCEPT ![id] = Null] /\ pool' = Append(pool, id)
          ELSE UNCHANGED <<values, pool>>
       /\ UNCHANGED <<size, ids>>

\* finalizeRef, as far as the tables go.  Below 7 the Go shim counts down
\* from Infinity and the TinyGo shim finds no count: nothing changes.
FinalizeRef(id) ==
  IF id < Fixed
  THEN UNCHANGED <<size, values, counts, ids, pool>>
  ELSE /\ counts' = [counts EXCEPT ![id] = @ - 1]
       /\ IF counts[id] = 1
          THEN /\ values' = [values EXCEPT ![id] = Null]
               /\ ids' = [ids EXCEPT ![values[id]] = None]
               /\ pool' = Append(pool, id)
          ELSE UNCHANGED <<values, ids, pool>>
       /\ UNCHANGED size

-----------------------------------------------------------------------------
(* Imports, as what they do after their first arguments are read: "get"    *)
(* runs a getter, setter or trap, "apply" a function, "load" reads the     *)
(* frame again, "getsp" asks the program where its stack is now, "store"   *)
(* stores a reference in the frame and "write" another result.             *)

\* valueInvoke and valueNew.
GoInvoke == <<"apply", "getsp", "store">>

GoImports ==
  [ stringVal          |-> <<"store">>,
    valueGet           |-> <<"get", "getsp", "store">>,
    valueSet           |-> <<"get">>,
    valueDelete        |-> <<"get">>,
    valueIndex         |-> <<"get", "store">>,
    valueSetIndex      |-> <<"get">>,
    valueCall          |-> <<"get", "load", "apply", "getsp", "store">>,
    valueInvoke        |-> GoInvoke,
    valueNew           |-> GoInvoke,
    valueLength        |-> <<"get", "write">>,
    valuePrepareString |-> <<"store">>,
    valueLoadString    |-> <<"write">>,
    valueInstanceOf    |-> <<"get", "write">>,
    copyBytesToGo      |-> <<"write">>,
    copyBytesToJS      |-> <<"write">> ]

\* TinyGo passes references and a return address that stays valid.
TinyImports ==
  [ stringVal          |-> <<"store">>,
    valueGet           |-> <<"get", "store">>,
    valueSet           |-> <<"get">>,
    valueDelete        |-> <<"get">>,
    valueIndex         |-> <<"get", "store">>,
    valueSetIndex      |-> <<"get">>,
    valueCall          |-> <<"get", "apply", "store">>,
    valueInvoke        |-> <<"apply", "store">>,
    valueNew           |-> <<"apply", "store">>,
    valueLength        |-> <<"get", "write">>,
    valuePrepareString |-> <<"store">>,
    valueLoadString    |-> <<"write">>,
    valueInstanceOf    |-> <<"get", "write">>,
    copyBytesToGo      |-> <<"write">>,
    copyBytesToJS      |-> <<"write">> ]

Imports == IF flavour = "go" THEN GoImports ELSE TinyImports
Ops     == DOMAIN GoImports

\* What an import may return: stringVal a string, valuePrepareString a
\* Uint8Array that nobody else has, the others anything.
Returns(op) == CASE op = "stringVal" -> "string"
                 [] op = "valuePrepareString" -> "bytes"
                 [] OTHER -> "any"

Busy == calls # <<>>
Top  == calls[Len(calls)]
Due(step) == Busy /\ Top.steps # <<>> /\ Head(Top.steps) = step

\* Go code runs: nothing has been called, or what was called re-entered it.
GoRuns == Busy => Top.entered

Advance(c) == [calls EXCEPT ![Len(calls)] = c]
NextStep   == Advance([Top EXCEPT !.steps = Tail(@), !.entered = FALSE])
FrontCalls == SubSeq(calls, 1, Len(calls) - 1)

\* An access to the frame, at the address the import believes in.
Touch == stale' = (stale \/ Top.sp # sp)

Call(op, s) ==
  /\ GoRuns
  /\ Len(calls) < MaxDepth
  /\ op # "stringVal" => held[s] # NoRef
  /\ op = "valueLoadString" => held[s].temp
  /\ op = "valuePrepareString" => held[s].val \in Values /\ Kind[held[s].val] = "string"
  /\ calls' = Append(calls, [steps |-> Imports[op], returns |-> Returns(op),
                             sp |-> sp, entered |-> FALSE, arg |-> s])
  /\ UNCHANGED <<flavour, table, sp, stale>>

\* valueCall reads its arguments after the method: that may be a getter.
Load ==
  /\ Due("load")
  /\ calls' = NextStep
  /\ Touch
  /\ UNCHANGED <<flavour, table, sp>>

\* What the import called, calls a js.Func: Go runs above the import.
Reenter ==
  /\ Due("apply") \/ (GettersReenter /\ Due("get"))
  /\ ~Top.entered
  /\ calls' = Advance([Top EXCEPT !.entered = TRUE])
  /\ UNCHANGED <<flavour, table, sp, stale>>

JsReturns ==
  /\ Due("get") \/ Due("apply")
  /\ calls' = NextStep
  /\ UNCHANGED <<flavour, table, sp, stale>>

\* An exception in a call lands in the catch block: getsp, store the error.
JsThrows ==
  /\ Due("get") \/ Due("apply")
  /\ \E i \in 1..Len(Top.steps) : Top.steps[i] = "apply"
  /\ LET handler == IF flavour = "go" THEN <<"getsp", "store">> ELSE <<"store">> IN
       calls' = Advance([Top EXCEPT !.steps = handler, !.entered = FALSE])
  /\ UNCHANGED <<flavour, table, sp, stale>>

GetSp ==
  /\ Due("getsp")
  /\ calls' = Advance([Top EXCEPT !.steps = Tail(@), !.sp = sp])
  /\ UNCHANGED <<flavour, table, sp, stale>>

\* The last step of an import that returns a reference.
Store(v, s) ==
  /\ Due("store")
  /\ Top.returns = "string" => v \in Values /\ Kind[v] = "string"
  /\ Top.returns = "bytes" => v \in Values /\ Kind[v] = "object" /\ ids[v] = None
  /\ StoreValue(v, s, Top.returns = "bytes")
  /\ Touch
  /\ calls' = FrontCalls
  /\ UNCHANGED <<flavour, sp>>

Write ==
  /\ Due("write")
  /\ Touch
  /\ calls' = FrontCalls
  /\ UNCHANGED <<flavour, table, sp>>

\* An import without a result is done.
Return ==
  /\ Busy /\ Top.steps = <<>>
  /\ calls' = FrontCalls
  /\ UNCHANGED <<flavour, table, sp, stale>>

-----------------------------------------------------------------------------
(* What Go does with a reference it no longer needs.  Go finalizes every   *)
(* reference with a type; TinyGo only the temporary of jsString.           *)

Finalizable(s) ==
  IF flavour = "go" THEN held[s].temp \/ GoTypeFlag(held[s].val) # 0
                    ELSE held[s].temp

Droppable(s) ==
  /\ GoRuns
  /\ held[s].id # None
  /\ \A i \in 1..Len(calls) : calls[i].arg # s     \* runtime.KeepAlive

Finalize(s) ==
  /\ Droppable(s)
  /\ Finalizable(s)
  /\ FinalizeRef(held[s].id)
  /\ held' = [held EXCEPT ![s] = NoRef]
  /\ UNCHANGED <<flavour, calls, sp, stale>>

Forget(s) ==
  /\ Droppable(s)
  /\ ~Finalizable(s)
  /\ held' = [held EXCEPT ![s] = NoRef]
  /\ UNCHANGED <<flavour, size, values, counts, ids, pool, calls, sp, stale>>

\* morestack: a goroutine of the Go compiler gets a larger stack elsewhere.
MoveStack ==
  /\ GoRuns /\ flavour = "go" /\ sp < MaxMoves
  /\ sp' = sp + 1
  /\ UNCHANGED <<flavour, table, calls, stale>>

-----------------------------------------------------------------------------
GoIds   == [v \in Keys |-> IF v \in FixedKeys THEN FixedId(v) ELSE None]
TinyIds == [v \in Keys |-> None]

Init ==
  /\ flavour \in Flavours
  /\ size = Fixed
  /\ values = [i \in 0..(Fixed - 1) |-> Predeclared[i + 1]]
  /\ counts = [i \in Fixed..(Fixed - 1) |-> 0]
  /\ ids = IF flavour = "go" THEN GoIds ELSE TinyIds
  /\ pool = <<>>
  /\ held = [s \in Slots |-> NoRef]
  /\ calls = <<>>
  /\ sp = 0
  /\ stale = FALSE

Next ==
  \/ \E op \in Ops, s \in Slots : Call(op, s)
  \/ Load
  \/ Reenter
  \/ JsReturns
  \/ JsThrows
  \/ GetSp
  \/ \E v \in Results, s \in Slots : Store(v, s)
  \/ Write
  \/ Return
  \/ \E s \in Slots : Finalize(s)
  \/ \E s \in Slots : Forget(s)
  \/ MoveStack

Spec == Init /\ [][Next]_vars

-----------------------------------------------------------------------------
TableIds == 0..(size - 1)
Holders(id) == {s \in Slots : held[s].id = id}

\* The tables, the references and the calls have the shape the code gives them.
TypeOK ==
  /\ flavour \in {"go", "tinygo"}
  /\ size \in Nat /\ size >= Fixed
  /\ values \in [TableIds -> JsValues]
  /\ counts \in [Fixed..(size - 1) -> Nat]
  /\ ids \in [Keys -> Int]
  /\ pool \in Seq(Nat)
  /\ held \in [Slots -> Refs]

\* Every reference Go holds still leads loadValue to the value it was made
\* from: no id is taken away, or handed to another value, under a holder.
RefDenotes ==
  \A s \in Slots : held[s].id # None =>
    held[s].id \in TableIds /\ values[held[s].id] = held[s].val

\* Two references are the same number exactly when they denote the same
\* JavaScript value: Value.Equal of Go compares the numbers.
EqualRefs ==
  \A s, t \in Slots : held[s].id # None /\ held[t].id # None =>
    (held[s].id = held[t].id <=> held[s].val = held[t].val)

\* A reference means its value: loadValue finds it, and two references are equal
\* exactly when their values are (storeValue, finalizeRef over any reuse of ids).
RefsAreValues == RefDenotes /\ EqualRefs

\* The Go shim forgets a value as soon as Go does: an id above the fixed ones
\* counts exactly the references Go holds, and one that nobody holds is in
\* the pool.  A bigint has no type flag, hence no finalizer, and is exempt.
NothingLeaks ==
  flavour = "go" =>
    \A id \in Fixed..(size - 1) :
      \/ values[id] \in Values /\ Kind[values[id]] = "bigint"
      \/ /\ counts[id] = Cardinality(Holders(id))
         /\ counts[id] = 0 => \E i \in 1..Len(pool) : pool[i] = id

\* An import never touches the frame at an address the stack has left
\* (the comment above the imports of wasm_exec_go.js).
SpIsCurrent == ~stale

\* What an import returns gets to its caller, and is forgotten when the caller
\* has forgotten it: no store goes to a frame that has moved and no entry of
\* the table outlives the references to it (storeValue and finalizeRef, and
\* the getsp after every call of wasm_exec_go.js).
ResultsArrive == SpIsCurrent /\ NothingLeaks

\* The inductive invariant behind RefDenotes and EqualRefs.
IdsPoint ==
  \A v \in Keys : ids[v] # None => ids[v] \in TableIds /\ values[ids[v]] = v
PoolIsFree ==
  \A i \in 1..Len(pool) :
    /\ pool[i] \in Fixed..(size - 1)
    /\ counts[pool[i]] = 0
    /\ values[pool[i]] = Null
PoolDistinct ==
  \A i, j \in 1..Len(pool) : pool[i] = pool[j] => i = j
Counted ==
  \A id \in Fixed..(size - 1) : Cardinality(Holders(id)) <= counts[id]
FixedStay ==
  \A v \in FixedKeys \cup {"NaN"} : values[FixedId(v)] = v
FixedIds ==
  \A v \in FixedKeys :
    IF flavour = "go" THEN ids[v] = FixedId(v)
                      ELSE v \in TinyDirect => ids[v] = None
HeldKnown ==
  \A s \in Slots : held[s].id # None =>
    IF held[s].val \in Direct
    THEN held[s].id = FixedId(held[s].val)
    ELSE held[s].val \in Keys /\ ids[held[s].val] = held[s].id

IInv ==
  /\ TypeOK
  /\ IdsPoint
  /\ PoolIsFree
  /\ PoolDistinct
  /\ Counted
  /\ FixedStay
  /\ HeldKnown
  /\ FixedIds
=============================================================================
