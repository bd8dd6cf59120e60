----------------------------- MODULE BlockDevice -----------------------------
(***************************************************************************)
(* What a block device that rewrites whole groups of blocks promises: a    *)
(* write takes effect at once, reads return what the device holds, and     *)
(* only a power loss or an error of the medium under a request does any    *)
(* harm: to the blocks a read returns, and to the groups a write touches.  *)
(***************************************************************************)
EXTENDS Integers

CONSTANTS
  Block,      \* the block addresses
  Value,      \* the contents of a block
  GroupSize   \* blocks that are rewritten together

VARIABLES
  disk,       \* [Block -> Value]
  request,    \* the request being served
  failed,     \* has the medium failed under this request?
  answer      \* the blocks returned by the last read

vars == <<disk, request, failed, answer>>

None == [op |-> "none", lba |-> 0, len |-> 0, data |-> <<>>]

Addressed(r) == r.lba .. r.lba + r.len - 1

\* The blocks that share a group with an addressed one.
Touched(r) ==
  {b \in Block : \E a \in Addressed(r) : a \div GroupSize = b \div GroupSize}

\* d agrees with e outside the groups of r.
SameElsewhere(d, e, r) == \A b \in Block \ Touched(r) : d[b] = e[b]

Submit ==
  /\ request = None
  /\ request' # None
  /\ request'.op \in {"read", "write"}
  /\ Addressed(request') \subseteq Block
  /\ UNCHANGED <<disk, failed, answer>>

Fail ==
  /\ request # None
  /\ failed' = TRUE
  /\ UNCHANGED <<disk, request, answer>>

ReadReturns ==
  /\ request.op = "read"
  /\ answer' \in [0 .. request.len - 1 -> Value]
  /\ failed \/ \A k \in 0 .. request.len - 1 : answer'[k] = disk[request.lba + k]
  /\ request' = None /\ failed' = FALSE
  /\ UNCHANGED disk

WriteTakesEffect ==
  /\ request.op = "write"
  /\ \A b \in Addressed(request) : disk'[b] = request.data[b - request.lba]
  /\ \A b \in Block \ Addressed(request) :
       disk'[b] = disk[b] \/ (failed /\ b \in Touched(request))
  /\ request' = [op |-> "written", lba |-> request.lba, len |-> request.len, data |-> <<>>]
  /\ UNCHANGED <<failed, answer>>

WriteReturns ==
  /\ request.op = "written"
  /\ disk' = disk \/ (failed /\ SameElsewhere(disk', disk, request))
  /\ request' = None /\ failed' = FALSE
  /\ UNCHANGED answer

PowerLoss ==
  /\ disk' = disk \/ (request.op = "written" /\ SameElsewhere(disk', disk, request))
  /\ request' = None /\ failed' = FALSE
  /\ answer' = <<>>

Init == request = None /\ ~failed /\ answer = <<>>

Spec ==
  Init /\ [][Submit \/ Fail \/ ReadReturns \/ WriteTakesEffect \/ WriteReturns \/ PowerLoss]_vars
=============================================================================
