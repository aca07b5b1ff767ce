--------------------------- MODULE BatchedFunction ---------------------------
(***************************************************************************)
(* A function is made into its batched form, and that is called with a     *)
(* batch: what the unit tests of the batch maker do.  The index variable   *)
(* is set to 0 at the start of the function, and a result is stored at the *)
(* place of the index.                                                     *)
(***************************************************************************)
EXTENDS BatchMaker

CONSTANT BatchSizes      \* values of the parameter TAS_BatchSize

ASSUME BatchSizeAssumption == BatchSizes \subseteq Int

VARIABLES
  N,          \* the batch size the function is called with
  at,         \* the block that is executed
  idx,        \* the index variable
  written,    \* the indices of the results, in the order they are stored
              \* (of a void function, the packets that came to its return)
  region,     \* whether the body has been entered (history)
  status

callVars == <<at, idx, written, region, status>>

bfVars == <<bmVars, N, callVars>>

BFInit ==
  /\ BMInit
  /\ N \in BatchSizes
  /\ at = NullBlock
  /\ idx = 0
  /\ written = <<>>
  /\ region = "prologue"
  /\ status = "idle"

MakeBatch == BMNext /\ UNCHANGED <<N, callVars>>

(* A function with a block that has no terminator cannot be compiled. *)
IsComplete == \A b \in Blocks(B) : B.term[b] # "none"

Call ==
  /\ stage = "done"
  /\ status = "idle"
  /\ IsComplete
  /\ at' = Entry(B)
  /\ idx' = 0
  /\ status' = "running"
  /\ UNCHANGED <<bmVars, N, written, region>>

IsRunningAt(b) == status = "running" /\ at = b

RunPreHeader ==
  /\ IsRunningAt(PreHeader)
  /\ idx' = 0
  /\ at' = B.succ[at][1]
  /\ UNCHANGED <<bmVars, N, written, region, status>>

(* Fault: the body runs once more, with the index equal to the size. *)
RunsOnceMore == idx <= N

RunsBody == idx < N

RunHeader ==
  /\ IsRunningAt(Header)
  /\ at' = IF RunsBody THEN B.succ[at][1] ELSE B.succ[at][2]
  /\ UNCHANGED <<bmVars, N, idx, written, region, status>>

RunLatch ==
  /\ IsRunningAt(Latch)
  /\ idx' = idx + 1
  /\ at' = B.succ[at][1]
  /\ UNCHANGED <<bmVars, N, written, region, status>>

(* A block of the function itself: the data decide which way it goes on. *)
RunBlock ==
  /\ status = "running"
  /\ at \notin LoopBlocks
  /\ at' \in Successors(B, at)
  /\ written' = IF at \in Returning THEN Append(written, idx) ELSE written
  /\ region' = IF at' = PreHeader THEN "body" ELSE region
  /\ UNCHANGED <<bmVars, N, idx, status>>

EndAt(kind, result) ==
  /\ status = "running"
  /\ B.term[at] = kind
  /\ status' = result
  /\ UNCHANGED <<bmVars, N, at, idx, written, region>>

BFNext ==
  \/ MakeBatch
  \/ Call
  \/ RunPreHeader
  \/ RunHeader
  \/ RunLatch
  \/ RunBlock
  \/ EndAt("ret", "returned")
  \/ EndAt("unreachable", "trapped")

BFSpec == BFInit /\ [][BFNext]_bfVars /\ WF_bfVars(BFNext)

-----------------------------------------------------------------------------

(* The functions the batch maker handles: the scan finds a marker, there   *)
(* is one return, control cannot come to it but through the marker, and    *)
(* the code after the marker does not lead back to it.                     *)
IsBefore(f, m, P) ==
  /\ Entry(f) \in P
  /\ \A b \in P \ {m} : f.term[b] # "ret" /\ Successors(f, b) \subseteq P

IsAfter(f, m, Q) ==
  /\ m \notin Q
  /\ \A b \in Q \cup {m} : Successors(f, b) \subseteq Q

HasMarker(f) ==
  EndsScan(f) # {} /\ CallAt(f, FoundCall(f)) = "batch_begin"

HasOneReturn(f) == \E b \in Blocks(f) : getReturnInstList(f) = {b}

MarkerIsPassedOnce(f) ==
  \E Q \in SUBSET Blocks(f) : IsAfter(f, findBatchBeginMarker(f), Q)

SupportsBatch(f) ==
  /\ HasMarker(f)
  /\ HasOneReturn(f)
  /\ \E P \in SUBSET Blocks(f) : IsBefore(f, findBatchBeginMarker(f), P)
  /\ MarkerIsPassedOnce(f)

-----------------------------------------------------------------------------

BMTypeOK ==
  /\ stage \in {"start", "cloned", "scanning", "splitting", "exiting", "looping",
                "closing", "done", "aborted", "crashed"}
  /\ Blocks(B) \subseteq Blocks(source) \cup CreatedBlocks
  /\ RetBlock \in Blocks(B) \cup {NullBlock}
  /\ marker \in Blocks(source) \cup {NullBlock}
  /\ BatchBB \in {TasBlock, NullBlock}
  /\ UniqueExitingBlock \in Blocks(B) \cup {NullBlock}
  /\ Returning \subseteq Blocks(B)
  /\ N \in BatchSizes
  /\ at \in Blocks(B) \cup {NullBlock}
  /\ idx \in Nat
  /\ written \in Seq(Nat)
  /\ region \in {"prologue", "body"}
  /\ status \in {"idle", "running", "returned", "trapped"}

(* The call as a loop over packets.  The blocks of the loop, the body's    *)
(* first block and the exit stand for the marker; in the latch the packet  *)
(* is finished, its successor not yet counted.                             *)
OriginalBlock ==
  IF status = "idle" THEN Entry(source)
  ELSE IF at \in CreatedBlocks THEN findBatchBeginMarker(source) ELSE at

CurrentPacket ==
  IF at = Latch THEN idx + 1 ELSE IF at = PreHeader THEN 0 ELSE idx

Packets ==
  INSTANCE PacketLoop WITH
    f <- source,
    marker <- findBatchBeginMarker(source),
    cur <- OriginalBlock,
    packet <- CurrentPacket,
    processed <- written

(* The batched function runs the code before the marker once and the code  *)
(* after it for each packet of the batch, in order: BatchMaker "converts   *)
(* the single packet processing function into a function which processes a *)
(* batch of packets", and the unit tests compare the two.                  *)
PacketLoopSpec == Packets!Spec

(* Each packet gets its result exactly once and in order, and no result is *)
(* stored outside of the batch, also if the batch is empty.                *)
BatchLength == IF N < 0 THEN 0 ELSE N

EachPacketOnce ==
  /\ \A k \in DOMAIN written : written[k] = k - 1
  /\ Len(written) <= BatchLength
  /\ status = "returned" => Len(written) = BatchLength

(* The same for a function that is not supported because it can return     *)
(* before it comes to the marker: then the latch is the next block and     *)
(* the other packets are processed as usual.  Only an empty batch must be  *)
(* excluded, and a way from the code after the marker back to it, which    *)
(* would start the batch again.                                            *)
NonEmptyBatchInOrder ==
  marker # NullBlock /\ N > 0 /\ MarkerIsPassedOnce(source) => EachPacketOnce

(* There is an indirect call, and no marker comes before it in the layout. *)
MeetsIndirectCall(f) ==
  \E s \in CallSites(f) :
    /\ CallAt(f, s) = "indirect"
    /\ \A t \in CallSites(f) : CallAt(f, t) = "batch_begin" => ComesBefore(s, t)

(* A function with one return is left well formed, and the pass fails on   *)
(* it exactly if the scan meets an indirect call: one that comes after a   *)
(* marker does no harm, one before all markers is never survived.          *)
OneReturnIsTransformed ==
  HasOneReturn(source) =>
    /\ stage = "done" => WellFormed(B) /\ ~MeetsIndirectCall(source)
    /\ stage \in {"aborted", "crashed"} => MeetsIndirectCall(source)

(* The pass ends, and a call of a batched function without other loops     *)
(* ends, for batches of any size.                                          *)
BatchReturns ==
  <>(\/ status \in {"returned", "trapped"}
     \/ stage \in {"aborted", "crashed"}
     \/ stage = "done" /\ ~IsComplete)
=============================================================================
