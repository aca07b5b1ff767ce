----------------------------- MODULE PacketLoop ------------------------------
(***************************************************************************)
(* What a batched function promises.  The code before the marker runs      *)
(* once.  Then the code after it is run for each packet, one packet after  *)
(* the other, each until it returns; the batch ends when all packets are   *)
(* processed.                                                              *)
(***************************************************************************)
EXTENDS FlowGraph

VARIABLES
  f,          \* the function that processes one packet
  marker,     \* the block of the marker
  N,          \* the size of the batch
  cur,        \* the block that is executed; the part of the marker's block
              \* before or after the marker, depending on the region
  region,     \* "prologue" or "body"
  packet,     \* the packet that is processed, from 0
  processed,  \* the packets that have been processed
  status

vars == <<f, marker, N, cur, region, packet, processed, status>>

Init ==
  /\ cur = Entry(f)
  /\ region = "prologue"
  /\ packet = 0
  /\ processed = <<>>
  /\ status = "idle"

Call ==
  /\ status = "idle"
  /\ status' = "running"
  /\ UNCHANGED <<f, marker, N, cur, region, packet, processed>>

StartBatch ==
  /\ status = "running"
  /\ region = "prologue"
  /\ cur = marker
  /\ region' = "body"
  /\ UNCHANGED <<f, marker, N, cur, packet, processed, status>>

(* The data decide on the next block. *)
FollowEdge ==
  /\ status = "running"
  /\ IF region = "prologue" THEN cur # marker ELSE packet < N
  /\ cur' \in Successors(f, cur)
  /\ UNCHANGED <<f, marker, N, region, packet, processed, status>>

FinishPacket ==
  /\ status = "running"
  /\ region = "body"
  /\ packet < N
  /\ f.term[cur] = "ret"
  /\ processed' = Append(processed, packet)
  /\ packet' = packet + 1
  /\ cur' = marker
  /\ UNCHANGED <<f, marker, N, region, status>>

FinishBatch ==
  /\ status = "running"
  /\ region = "body"
  /\ cur = marker
  /\ packet >= N
  /\ status' = "returned"
  /\ UNCHANGED <<f, marker, N, cur, region, packet, processed>>

Trap ==
  /\ status = "running"
  /\ IF region = "prologue" THEN cur # marker ELSE packet < N
  /\ f.term[cur] = "unreachable"
  /\ status' = "trapped"
  /\ UNCHANGED <<f, marker, N, cur, region, packet, processed>>

Next ==
  \/ Call
  \/ StartBatch
  \/ FollowEdge
  \/ FinishPacket
  \/ FinishBatch
  \/ Trap

Spec == Init /\ [][Next]_vars
=============================================================================
