SPECIFICATION Spec
CONSTANTS
  GoTags <- GoTagSet
  TinygoTags <- TinygoTagSet
  WasmExec <- GoText
  WasmExecNode <- NodeText
  JsWasmExec <- ExecText
  TinygoWasmExec <- TinyText
  CheckedIn <- Tags
  Missing = Missing
  Refused = Refused
  Runs = 2
CHECK_DEADLOCK FALSE
INVARIANTS DoneIsWhole PatchesAreExact
PROPERTIES NothingWrittenEarly
