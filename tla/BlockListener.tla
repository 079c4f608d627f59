--------------------------- MODULE BlockListener ---------------------------
(***************************************************************************)
(* One scheduled listener lambda (ethereumSellListener, maticSellListener, *)
(* maticCreatedContractListener, ...) and its cursor, the document of the  *)
(* `jobs` collection.                                                      *)
(*                                                                         *)
(* An invocation runs COUNT iterations.  Each iteration reads the cursor,  *)
(* asks the subgraph for its latest block, runs the block handler and, as  *)
(* its last write, increments the cursor.  Every await is a point where    *)
(* the invocation may throw or be killed at its 30 seconds; the next one   *)
(* starts again from the cursor.  What the handlers write is the subject   *)
(* of other modules; here a block is handled (`done`) or has only been     *)
(* begun, which costs an `attempts`.                                       *)
(***************************************************************************)
EXTENDS Integers

CONSTANTS
    COUNT,        \* iterations per invocation (30 on Matic, 5 on Ethereum)
    StartBlock,   \* processingBlockNumber the jobs seeder writes; 0 is the
                  \* default of an unset environment variable
    Poison,       \* blocks whose handler throws every time
    MaxHead,      \* bound: the last block the chain is followed to
    MaxFailures   \* bound: failed invocations of one behaviour

ASSUME CountAssumption == COUNT \in Nat \ {0}
ASSUME BlocksAssumption ==
    /\ StartBlock \in Nat
    /\ Poison \subseteq Nat
    /\ MaxHead \in Nat
    /\ MaxFailures \in Nat

VARIABLES
    job,        \* jobs.processingBlockNumber
    head,       \* _meta.block.number of the subgraph
    pc,         \* where the invocation is; "idle" between two invocations
    left,       \* iterations of the invocation still to run
    block,      \* the invocation's local processingBlockNumber
    done,       \* history: blocks whose handler has run to its end
    attempts,   \* history: how many times a block handler began to write
    failures    \* history: invocations that threw or were killed

vars == <<job, head, pc, left, block, done, attempts, failures>>

TypeOK ==
    /\ job \in Nat
    /\ head \in Nat
    /\ pc \in {"idle", "readJob", "readHead", "process", "increase"}
    /\ left \in 0..COUNT
    /\ pc # "idle" => left > 0
    /\ block \in Nat
    /\ done \subseteq Nat
    /\ attempts \in Nat
    /\ failures \in Nat

Init ==
    /\ job = StartBlock
    /\ head \in 0..MaxHead
    /\ pc = "idle"
    /\ left = 0
    /\ block = 0
    /\ done = {}
    /\ attempts = 0
    /\ failures = 0

(* External: the chain grows and the subgraph indexes it.                  *)
NewBlock ==
    /\ head < MaxHead
    /\ head' = head + 1
    /\ UNCHANGED <<job, pc, left, block, done, attempts, failures>>

(* schedule: rate(1 minute); reservedConcurrency: 1 throttles an           *)
(* invocation that would overlap the running one.                          *)
Invoke ==
    /\ pc = "idle"
    /\ pc' = "readJob"
    /\ left' = COUNT
    /\ UNCHANGED <<job, head, block, done, attempts, failures>>

(* The end of an iteration: the for loop of the handler.                   *)
EndIteration ==
    /\ left' = left - 1
    /\ pc' = IF left > 1 THEN "readJob" ELSE "idle"

(* The handler logs the exception and throws it again.                     *)
Throw == pc' = "idle" /\ UNCHANGED left

(* getJobByType.  `!processingBlockNumber` is true of null and of 0.       *)
ReadJob ==
    /\ pc = "readJob"
    /\ IF job = 0
         THEN Throw /\ UNCHANGED block
         ELSE pc' = "readHead" /\ block' = job /\ UNCHANGED left
    /\ UNCHANGED <<job, head, done, attempts, failures>>

(* Mutant: the latest block is not processed.                              *)
ReadHeadBehind ==
    /\ pc = "readHead"
    /\ IF block >= head
         THEN EndIteration
         ELSE pc' = "process" /\ UNCHANGED left
    /\ UNCHANGED <<job, head, block, done, attempts, failures>>

(* getLatestBlockNumber; a cursor above it returns null, and the iteration *)
(* ends without doing anything.                                            *)
ReadHead ==
    /\ pc = "readHead"
    /\ IF block > head
         THEN EndIteration
         ELSE pc' = "process" /\ UNCHANGED left
    /\ UNCHANGED <<job, head, block, done, attempts, failures>>

(* The handler of the block runs to its end (a block without events        *)
(* included).                                                              *)
Process ==
    /\ pc = "process"
    /\ block \notin Poison
    /\ pc' = "increase"
    /\ done' = done \cup {block}
    /\ attempts' = attempts + 1
    /\ UNCHANGED <<job, head, left, block, failures>>

(* Mutant: the exception of a block is swallowed.                          *)
ProcessThrowsSwallowed ==
    /\ pc = "process"
    /\ block \in Poison \/ failures < MaxFailures
    /\ pc' = "increase"
    /\ IF failures < MaxFailures
         THEN attempts' = attempts + 1 /\ failures' = failures + 1
         ELSE UNCHANGED <<attempts, failures>>
    /\ UNCHANGED <<job, head, left, block, done>>

(* The handler throws, or the process dies, after some of its writes: as   *)
(* often as MaxFailures allows, and always on a poison block (the history  *)
(* counters then stay at their bound).                                     *)
ProcessThrows ==
    /\ pc = "process"
    /\ block \in Poison \/ failures < MaxFailures
    /\ Throw
    /\ IF failures < MaxFailures
         THEN attempts' = attempts + 1 /\ failures' = failures + 1
         ELSE UNCHANGED <<attempts, failures>>
    /\ UNCHANGED <<job, head, block, done>>

(* Mutant: the cursor is left where it is.                                 *)
IncreaseForgotten ==
    /\ pc = "increase"
    /\ job' = job
    /\ EndIteration
    /\ UNCHANGED <<head, block, done, attempts, failures>>

(* Mutant: the cursor moves by two.                                        *)
IncreaseByTwo ==
    /\ pc = "increase"
    /\ job' = job + 2
    /\ EndIteration
    /\ UNCHANGED <<head, block, done, attempts, failures>>

(* increaseJobBlockNumber: $inc by one, then the iteration ends.           *)
Increase ==
    /\ pc = "increase"
    /\ job' = job + 1
    /\ EndIteration
    /\ UNCHANGED <<head, block, done, attempts, failures>>

(* A rejected request or the timeout of the lambda, between two awaits.    *)
Fail ==
    /\ pc # "idle"
    /\ failures < MaxFailures
    /\ Throw
    /\ failures' = failures + 1
    /\ UNCHANGED <<job, head, block, done, attempts>>

Invocation == Invoke \/ ReadJob \/ ReadHead \/ Process \/ Increase

Next == NewBlock \/ Invocation \/ ProcessThrows \/ Fail

(* The schedule fires for ever and a running invocation goes on or fails;  *)
(* nothing forces the chain to grow.                                       *)
Fairness ==
    /\ WF_vars(Invoke)
    /\ WF_vars(ReadJob)
    /\ WF_vars(ReadHead)
    /\ WF_vars(Process)
    /\ WF_vars(Increase)

Spec == Init /\ [][Next]_vars

FairSpec == Spec /\ Fairness

-----------------------------------------------------------------------------
(* No block is skipped: every block from the seeded one up to the cursor   *)
(* has been handled to its end, whatever threw or was killed on the way.   *)
NoBlockSkipped == \A b \in StartBlock..(job - 1) : b \in done

(* The listener never runs ahead of the subgraph: nothing above the latest *)
(* indexed block is handled, and the cursor stops right after it.          *)
NeverAheadOfSubgraph ==
    /\ \A b \in done : b <= head
    /\ job > StartBlock => job <= head + 1

(* Failures and the head of the subgraph together: what the cursor has     *)
(* passed is handled and indexed, no more and no less.                     *)
CursorSound == TypeOK /\ NoBlockSkipped /\ NeverAheadOfSubgraph

(* Handlers are not idempotent, so repetition matters: a handler begins    *)
(* once per block the cursor has passed, plus at most once per failed      *)
(* invocation, plus once for the block whose increment is still to come.   *)
RepeatsOnlyAfterFailure ==
    /\ attempts <= (job - StartBlock) + failures + 1
    /\ pc # "increase" => attempts <= (job - StartBlock) + failures

(* With the schedule firing and finitely many failures every indexed block *)
(* is handled, unless a poison block stops the listener before it.  A job  *)
(* seeded with 0 is left out: `!processingBlockNumber` rejects it for ever.*)
EveryBlockHandled ==
    \A b \in 1..MaxHead :
        (StartBlock \in 1..b /\ Poison \cap (StartBlock..b) = {})
            => (head >= b ~> b \in done)

(* Head-of-line blocking: once the subgraph has indexed a block whose      *)
(* handler always throws, the listener gets to it and stays there.         *)
WedgesAtPoison ==
    \A p \in 1..MaxHead :
        (StartBlock \in 1..p /\ Poison \cap (StartBlock..p) = {p})
            => (head >= p ~> [](job = p))

(* The listener delivers the blocks in order and at least once.            *)
Delivery == INSTANCE InOrderDelivery
                WITH First <- StartBlock, next <- job, delivered <- done
DeliversInOrder == Delivery!Spec
=============================================================================
