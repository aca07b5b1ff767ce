---------------------------- MODULE FunctionRun -----------------------------
(***************************************************************************)
(* What a call of a function promises: from the entry block on, the data   *)
(* decide at the end of each block which of its successors is the target,  *)
(* and control jumps to that block and no other, until a block returns or  *)
(* traps.  A transformation of the function must keep to this.             *)
(***************************************************************************)
EXTENDS FlowGraph

VARIABLES
  f,        \* the function
  cur,      \* the block that is executed
  target,   \* the successor that has been decided on, or cur
  status

vars == <<f, cur, target, status>>

Init ==
  /\ cur = Entry(f)
  /\ target = Entry(f)
  /\ status = "idle"

Call ==
  /\ status = "idle"
  /\ status' = "running"
  /\ UNCHANGED <<f, cur, target>>

Decide ==
  /\ status = "running"
  /\ target' \in Successors(f, cur)
  /\ status' = "jumping"
  /\ UNCHANGED <<f, cur>>

Jump ==
  /\ status = "jumping"
  /\ cur' = target
  /\ status' = "running"
  /\ UNCHANGED <<f, target>>

EndAt(kind, result) ==
  /\ status = "running"
  /\ f.term[cur] = kind
  /\ status' = result
  /\ UNCHANGED <<f, cur, target>>

Next ==
  \/ Call
  \/ Decide
  \/ Jump
  \/ EndAt("ret", "returned")
  \/ EndAt("unreachable", "trapped")

Spec == Init /\ [][Next]_vars
=============================================================================
