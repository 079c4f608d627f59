------------------------ MODULE BlockListener_proofs ------------------------
(* The safety of a listener's cursor, for every start block, every number  *)
(* of iterations per invocation and every pattern of failures.             *)
EXTENDS BlockListener, TLAPS

USE CountAssumption, BlocksAssumption

(* Where the invocation stands fixes what its local block number means:    *)
(* after the cursor was read it is the cursor, after the head was read it  *)
(* is indexed, and before the increment the block has been handled.        *)
LocalBlock ==
    /\ pc \in {"readHead", "process", "increase"} => block = job
    /\ pc \in {"process", "increase"} => block <= head
    /\ pc = "increase" => block \in done
    /\ pc \in {"readHead", "process", "increase"} => job # 0

Bounds ==
    /\ StartBlock <= job
    /\ NoBlockSkipped
    /\ NeverAheadOfSubgraph

IInv == TypeOK /\ LocalBlock /\ Bounds

(* Type correctness of the cursor, the invocation and the history.         *)
THEOREM TypeCorrect == Spec => []TypeOK
<1>1. Init => TypeOK
  BY DEF Init, TypeOK
<1>2. TypeOK /\ [Next]_vars => TypeOK'
  <2> SUFFICES ASSUME TypeOK, [Next]_vars
               PROVE  TypeOK'
    OBVIOUS
  <2> USE DEF TypeOK
  <2>1. CASE NewBlock
    BY <2>1 DEF NewBlock
  <2>2. CASE Invoke
    BY <2>2 DEF Invoke
  <2>3. CASE ReadJob
    BY <2>3 DEF ReadJob, Throw
  <2>4. CASE ReadHead
    BY <2>4 DEF ReadHead, EndIteration
  <2>5. CASE Process
    BY <2>5 DEF Process
  <2>6. CASE Increase
    BY <2>6 DEF Increase, EndIteration
  <2>7. CASE ProcessThrows
    BY <2>7 DEF ProcessThrows, Throw
  <2>8. CASE Fail
    BY <2>8 DEF Fail, Throw
  <2>9. CASE UNCHANGED vars
    BY <2>9 DEF vars
  <2>10. QED
    BY <2>1, <2>2, <2>3, <2>4, <2>5, <2>6, <2>7, <2>8, <2>9
       DEF Next, Invocation
<1>3. QED
  BY <1>1, <1>2, PTL DEF Spec

(* The inductive invariant: the bounds follow from what the local block    *)
(* number means at each await.                                             *)
LEMMA Inductive == Spec => []IInv
<1>1. Init => IInv
  BY DEF Init, IInv, TypeOK, LocalBlock, Bounds, NoBlockSkipped,
         NeverAheadOfSubgraph
<1>2. TypeOK /\ TypeOK' /\ IInv /\ [Next]_vars => IInv'
  <2> SUFFICES ASSUME TypeOK, TypeOK', IInv, [Next]_vars
               PROVE  IInv'
    OBVIOUS
  <2> USE DEF IInv, TypeOK, LocalBlock, Bounds, NoBlockSkipped,
              NeverAheadOfSubgraph
  <2>1. CASE NewBlock
    BY <2>1 DEF NewBlock
  <2>2. CASE Invoke
    BY <2>2 DEF Invoke
  <2>3. CASE ReadJob
    BY <2>3 DEF ReadJob, Throw
  <2>4. CASE ReadHead
    BY <2>4 DEF ReadHead, EndIteration
  <2>5. CASE Process
    BY <2>5 DEF Process
  <2>6. CASE Increase
    BY <2>6 DEF Increase, EndIteration
  <2>7. CASE ProcessThrows
    BY <2>7 DEF ProcessThrows, Throw
  <2>8. CASE Fail
    BY <2>8 DEF Fail, Throw
  <2>9. CASE UNCHANGED vars
    BY <2>9 DEF vars
  <2>10. QED
    BY <2>1, <2>2, <2>3, <2>4, <2>5, <2>6, <2>7, <2>8, <2>9
       DEF Next, Invocation
<1>3. QED
  BY <1>1, <1>2, TypeCorrect, PTL DEF Spec

(* No block between the seeded one and the cursor is ever left unhandled.  *)
THEOREM NothingSkipped == Spec => []NoBlockSkipped
<1>1. IInv => NoBlockSkipped
  BY DEF IInv, Bounds
<1>2. QED
  BY <1>1, Inductive, PTL

(* Nothing above the latest indexed block is handled.                      *)
THEOREM FollowsSubgraph == Spec => []NeverAheadOfSubgraph
<1>1. IInv => NeverAheadOfSubgraph
  BY DEF IInv, Bounds
<1>2. QED
  BY <1>1, Inductive, PTL

(* The two together: the cursor has passed what was handled and indexed.   *)
THEOREM CursorStaysSound == Spec => []CursorSound
<1>1. TypeOK /\ NoBlockSkipped /\ NeverAheadOfSubgraph => CursorSound
  BY DEF CursorSound
<1>2. QED
  BY <1>1, TypeCorrect, NothingSkipped, FollowsSubgraph, PTL

(* Every repetition of a handler is paid for by a failed invocation.       *)
THEOREM RepeatsBounded == Spec => []RepeatsOnlyAfterFailure
<1>1. Init => RepeatsOnlyAfterFailure
  BY DEF Init, RepeatsOnlyAfterFailure
<1>2. TypeOK /\ TypeOK' /\ RepeatsOnlyAfterFailure /\ [Next]_vars
        => RepeatsOnlyAfterFailure'
  <2> SUFFICES ASSUME TypeOK, TypeOK', RepeatsOnlyAfterFailure, [Next]_vars
               PROVE  RepeatsOnlyAfterFailure'
    OBVIOUS
  <2>0. /\ job \in Int /\ attempts \in Int /\ failures \in Int /\ StartBlock \in Int
        /\ attempts' \in Int /\ failures' \in Int
    BY DEF TypeOK
  <2> USE <2>0 DEF RepeatsOnlyAfterFailure
  <2>1. CASE Process
    BY <2>1 DEF Process
  <2>2. CASE Increase
    BY <2>2 DEF Increase, EndIteration
  <2>3. CASE ProcessThrows
    <3>1. /\ pc = "process" /\ pc' = "idle" /\ job' = job
      BY <2>3 DEF ProcessThrows, Throw
    <3>2. attempts <= (job - StartBlock) + failures
      BY <3>1
    <3>3. CASE failures < MaxFailures
      <4>1. attempts' = attempts + 1 /\ failures' = failures + 1
        BY <2>3, <3>3 DEF ProcessThrows
      <4>2. QED
        BY <3>1, <3>2, <4>1
    <3>4. CASE ~(failures < MaxFailures)
      <4>1. attempts' = attempts /\ failures' = failures
        BY <2>3, <3>4 DEF ProcessThrows
      <4>2. QED
        BY <3>1, <3>2, <4>1
    <3>5. QED
      BY <3>3, <3>4
  <2>4. CASE Fail
    BY <2>4 DEF Fail, Throw
  <2>5. CASE NewBlock
    BY <2>5 DEF NewBlock
  <2>6. CASE Invoke
    BY <2>6 DEF Invoke
  <2>7. CASE ReadJob
    BY <2>7 DEF ReadJob, Throw
  <2>8. CASE ReadHead
    BY <2>8 DEF ReadHead, EndIteration
  <2>9. CASE UNCHANGED vars
    BY <2>9 DEF vars
  <2>10. QED
    BY <2>1, <2>2, <2>3, <2>4, <2>5, <2>6, <2>7, <2>8, <2>9
       DEF Next, Invocation
<1>3. QED
  BY <1>1, <1>2, TypeCorrect, PTL DEF Spec

(* A listener implements in-order, at-least-once delivery: handling a      *)
(* block is a delivery, the increment an advance, all else a stutter.      *)
THEOREM ImplementsDelivery == Spec => DeliversInOrder
<1>1. Init => Delivery!Init
  BY DEF Init, Delivery!Init
<1>2. IInv /\ [Next]_vars => [Delivery!Next]_(Delivery!vars)
  <2> SUFFICES ASSUME IInv, [Next]_vars
               PROVE  [Delivery!Next]_(Delivery!vars)
    OBVIOUS
  <2> USE DEF Delivery!Next, Delivery!vars
  <2>1. CASE Process
    BY <2>1 DEF Process, Delivery!Deliver, IInv, LocalBlock
  <2>2. CASE Increase
    BY <2>2 DEF Increase, Delivery!Advance, IInv, LocalBlock
  <2>3. CASE NewBlock \/ Invoke \/ ReadJob \/ ReadHead \/ ProcessThrows \/ Fail
    BY <2>3 DEF NewBlock, Invoke, ReadJob, ReadHead, ProcessThrows, Fail
  <2>4. CASE UNCHANGED vars
    BY <2>4 DEF vars
  <2>5. QED
    BY <2>1, <2>2, <2>3, <2>4 DEF Next, Invocation
<1>3. QED
  BY <1>1, <1>2, Inductive, PTL DEF Spec, DeliversInOrder, Delivery!Spec
=============================================================================
