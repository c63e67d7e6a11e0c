------------------------ MODULE SerialProcRuntimeQuiescence ------------------------
(***************************************************************************)
(* Proof that SerialProcRuntime::Tick returns only at quiescence: the     *)
(* action property QuiescentTickReturn, for every network.                *)
(*                                                                         *)
(* The property is a statement about the step that leaves the while loop,*)
(* but that step only sees progress_made; what it relies on is the history *)
(* of the pass.  QInv records it: while the current pass has made no       *)
(* progress, every proc the for loop already visited is either completed   *)
(* or blocked on a receive from an empty queue.  A blocked proc stays so   *)
(* while no proc moves (no send can refill its queue), and a proc that     *)
(* moves sets progress_made when it returns: Block compares the            *)
(* continuation point with entry_pc, so QInv also needs that the running   *)
(* proc's continuation point never falls below entry_pc.                   *)
(***************************************************************************)
EXTENDS SerialProcRuntimeProofs

\* The procs the for loop has visited in this pass that have not completed
\* are blocked on an empty queue.
PassQuiescent ==
  \A j \in 1..idx - 1 :
    ProcOrder[j] \notin completed_procs => BlockedOnEmpty(ProcOrder[j])

QInv ==
  /\ phase = "running" => entry_pc <= pc[Current]
  /\ ~progress_made /\ (phase = "pass" \/ (phase = "running" /\ Cur(Current) = entry_pc))
       => PassQuiescent

QIInv == IInv /\ QInv

-----------------------------------------------------------------------------
LEMMA OrderFacts ==
  /\ \A j \in 1..N : ProcOrder[j] \in Procs
  /\ \A i, j \in 1..N : ProcOrder[i] = ProcOrder[j] => i = j
  /\ \A p \in Procs : \E j \in 1..N : ProcOrder[j] = p
  BY NetworkAssumption DEF N

LEMMA CurFacts ==
  ASSUME TypeOK, NEW p \in Procs
  PROVE  /\ pc[p] <= Cur(p)
         /\ pc[p] # 0 => Cur(p) = pc[p]
  BY DEF TypeOK, Cur

\* A blocked proc stays blocked while its continuation and state are kept
\* and no empty queue is filled, except by a concurrent host.
LEMMA BlockedKept ==
  ASSUME TypeOK, NEW p \in Procs, BlockedOnEmpty(p),
         pc'[p] = pc[p], state'[p] = state[p],
         \A c \in Channels :
           queues[c] = <<>> => \/ queues'[c] = <<>>
                               \/ ConcurrentHost /\ c \in HostInputs
  PROVE  BlockedOnEmpty(p)'
  <1>1. Cur(p)' = Cur(p) /\ Op(p)' = Op(p)
    BY DEF Cur, Op
  <1>2. Op(p).channel \in Channels
    <2>1. pc[p] \in 1..Len(Program[p])
      BY ProgramType DEF BlockedOnEmpty
    <2>2. Op(p) = Program[p][pc[p]]
      BY <2>1 DEF Op, Cur
    <2>3. Program[p][pc[p]] \in Ops
      BY <2>1, ProgramType
    <2>. QED
      BY <2>2, <2>3 DEF Ops
  <1>. QED
    BY <1>1, <1>2 DEF BlockedOnEmpty

\* With the continuations, states and queues kept, PassQuiescent only
\* depends on how far the loop is and on which procs completed.
LEMMA PassQuiescentSame ==
  ASSUME TypeOK, PassQuiescent, pc' = pc, state' = state, queues' = queues,
         idx' = idx, completed_procs' = completed_procs
  PROVE  PassQuiescent'
  BY DEF PassQuiescent, BlockedOnEmpty, Op, Cur

LEMMA InitQInv == Init => QInv
  BY DEF Init, QInv

\* Tick's loop steps that neither run a proc nor end a pass.
LEMMA StartTickQInv ==
  ASSUME QIInv, StartTick
  PROVE  QInv'
  BY DEF StartTick, QInv, PassQuiescent

LEMMA SkipCompletedQInv ==
  ASSUME QIInv, SkipCompleted
  PROVE  QInv'
  <1>1. CASE ~progress_made
    <2>1. PassQuiescent
      BY <1>1 DEF SkipCompleted, QIInv, QInv
    <2>2. \A j \in 1..idx - 1 : ProcOrder[j] \notin completed_procs
            => BlockedOnEmpty(ProcOrder[j])'
      BY <2>1 DEF SkipCompleted, PassQuiescent, BlockedOnEmpty, Op, Cur
    <2>3. idx \in Nat /\ idx' = idx + 1
      BY DEF QIInv, IInv, TypeOK, SkipCompleted
    <2>4. PassQuiescent'
      BY <2>2, <2>3 DEF SkipCompleted, PassQuiescent, Current
    <2>. QED
      BY <2>4 DEF SkipCompleted, QInv
  <1>2. CASE progress_made
    BY <1>2 DEF SkipCompleted, QInv
  <1>. QED
    BY <1>1, <1>2

LEMMA InvokeProcQInv ==
  ASSUME QIInv, InvokeProc
  PROVE  QInv'
  <1>1. entry_pc' <= pc'[Current']
    <2>1. Current \in Procs /\ pc[Current] \in Nat
      BY OrderFacts, NLen DEF InvokeProc, QIInv, IInv, TypeOK, Current
    <2>. QED
      BY <2>1 DEF InvokeProc, Current
  <1>2. ~progress_made' => PassQuiescent'
    <2>. SUFFICES ASSUME ~progress_made PROVE PassQuiescent'
      BY DEF InvokeProc
    <2>1. PassQuiescent
      BY DEF InvokeProc, QIInv, QInv
    <2>. QED
      BY <2>1, PassQuiescentSame DEF InvokeProc, QIInv, IInv
  <1>. QED
    BY <1>1, <1>2 DEF QInv

LEMMA NextPassQInv ==
  ASSUME QIInv, NextPass
  PROVE  QInv'
  BY DEF NextPass, QInv, PassQuiescent

LEMMA TickReturnQInv ==
  ASSUME QIInv, TickReturn
  PROVE  QInv'
  BY DEF TickReturn, QInv

\* A proc step moves the continuation point past entry_pc, so the running
\* proc's return will report progress.
LEMMA BodyStepQInv ==
  ASSUME QIInv, phase = "running", phase' = "running", idx' = idx,
         entry_pc' = entry_pc,
         pc' = [pc EXCEPT ![Current] = Cur(Current) + 1]
  PROVE  QInv'
  <1>1. Current \in Procs /\ pc[Current] \in Nat
    BY RunningFacts DEF QIInv, IInv, TypeOK
  <1>2. entry_pc <= pc[Current] /\ pc[Current] <= Cur(Current)
    BY <1>1, CurFacts DEF QIInv, QInv, IInv
  <1>3. pc'[Current'] = Cur(Current) + 1 /\ Cur(Current)' = Cur(Current) + 1
    <2>1. Current' = Current
      BY DEF Current
    <2>2. pc'[Current] = Cur(Current) + 1
      BY <1>1 DEF QIInv, IInv, TypeOK
    <2>3. Cur(Current) \in Nat \ {0}
      BY <1>1, CurType DEF QIInv, IInv
    <2>. QED
      BY <2>1, <2>2, <2>3 DEF Cur
  <1>4. entry_pc \in Nat
    BY DEF QIInv, IInv, TypeOK
  <1>. QED
    BY <1>2, <1>3, <1>4, CurType, <1>1 DEF QInv, QIInv, IInv

LEMMA SkipOpQInv ==
  ASSUME QIInv, SkipOp
  PROVE  QInv'
  BY BodyStepQInv DEF SkipOp

LEMMA SendQInv ==
  ASSUME QIInv, Send
  PROVE  QInv'
  BY BodyStepQInv DEF Send

LEMMA ReceiveQInv ==
  ASSUME QIInv, Receive
  PROVE  QInv'
  BY BodyStepQInv DEF Receive

\* A blocked return without progress adds the running proc, suspended at
\* its receive on an empty queue, to the blocked procs of the pass.
LEMMA BlockQInv ==
  ASSUME QIInv, Block
  PROVE  QInv'
  <1>. SUFFICES ASSUME ~progress_made' PROVE PassQuiescent'
    BY DEF Block, QInv
  <1>1. ~progress_made /\ Cur(Current) = entry_pc
    BY DEF Block, PassProgress
  <1>2. PassQuiescent
    BY <1>1 DEF Block, QIInv, QInv
  <1>3. /\ idx \in 1..N
        /\ Current \in Procs
        /\ Current \notin completed_procs
    BY RunningFacts DEF Block, QIInv
  <1>4. ASSUME NEW j \in 1..idx - 1, ProcOrder[j] \notin completed_procs
        PROVE  BlockedOnEmpty(ProcOrder[j])'
    <2>1. ProcOrder[j] \in Procs /\ ProcOrder[j] # Current
      BY <1>3, <1>4, OrderFacts, NLen DEF Current
    <2>2. BlockedOnEmpty(ProcOrder[j])
      BY <1>2, <1>4 DEF PassQuiescent
    <2>3. pc'[ProcOrder[j]] = pc[ProcOrder[j]]
      BY <2>1 DEF Block, QIInv, IInv, TypeOK
    <2>. QED
      BY <2>1, <2>2, <2>3, BlockedKept DEF Block, QIInv, IInv
  <1>5. ASSUME NEW r \in Procs, r = Current
        PROVE  BlockedOnEmpty(r)'
    <2>1. Cur(r) \in 1..Len(Program[r])
      BY <1>5, CurType DEF Block, QIInv, IInv
    <2>2. pc'[r] = Cur(r)
      BY <1>5 DEF Block, QIInv, IInv, TypeOK
    <2>3. Cur(r)' = Cur(r) /\ Op(r)' = Op(r)
      BY <2>1, <2>2 DEF Cur, Op
    <2>4. pc'[r] \in DOMAIN Program[r]
      BY <2>1, <2>2, ProgramType
    <2>. QED
      BY <1>5, <2>3, <2>4 DEF Block, BlockedOnEmpty
  <1>6. idx' = idx + 1 /\ idx \in Nat /\ completed_procs' = completed_procs
    BY <1>3 DEF Block
  <1>. QED
    <2>. SUFFICES ASSUME NEW j \in 1..idx' - 1,
                         ProcOrder[j] \notin completed_procs'
                  PROVE  BlockedOnEmpty(ProcOrder[j])'
      BY DEF PassQuiescent
    <2>1. CASE j < idx
      BY <2>1, <1>4, <1>6
    <2>2. CASE j = idx
      BY <2>2, <1>3, <1>5, OrderFacts DEF Current
    <2>. QED
      BY <2>1, <2>2, <1>6

LEMMA CompleteQInv ==
  ASSUME QIInv, Complete
  PROVE  QInv'
  BY DEF Complete, QInv

\* A step that only changes queues, and fills no empty one except for a
\* concurrent host, keeps QInv.
LEMMA QueueStepQInv ==
  ASSUME QIInv,
         UNCHANGED <<pc, state, phase, idx, completed_procs, progress_made,
                     entry_pc>>,
         \A c \in Channels :
           queues[c] = <<>> => \/ queues'[c] = <<>>
                               \/ ConcurrentHost /\ c \in HostInputs
  PROVE  QInv'
  <1>1. (phase = "running" => entry_pc <= pc[Current])'
    BY DEF QIInv, QInv, Current
  <1>2. ASSUME ~progress_made',
               (phase = "pass" \/ (phase = "running" /\ Cur(Current) = entry_pc))'
        PROVE  PassQuiescent'
    <2>1. PassQuiescent
      BY <1>2 DEF QIInv, QInv, Current, Cur
    <2>2. ASSUME NEW j \in 1..idx - 1, ProcOrder[j] \notin completed_procs
          PROVE  BlockedOnEmpty(ProcOrder[j])'
      <3>1. ProcOrder[j] \in Procs
        BY OrderFacts, NLen DEF QIInv, IInv, TypeOK
      <3>. QED
        BY <2>1, <2>2, <3>1, BlockedKept DEF PassQuiescent, QIInv, IInv
    <2>. QED
      BY <2>2 DEF PassQuiescent
  <1>. QED
    BY <1>1, <1>2 DEF QInv

LEMMA HostEnqueueQInv ==
  ASSUME QIInv, NEW c \in HostInputs, NEW v \in HostValues, HostEnqueue(c, v)
  PROVE  QInv'
  <1>1. CASE phase = "idle"
    BY <1>1 DEF HostEnqueue, QInv
  <1>2. CASE phase # "idle"
    <2>1. ConcurrentHost /\ c \in Channels
      BY <1>2, NetworkAssumption DEF HostEnqueue
    <2>2. \A d \in Channels \ {c} : queues'[d] = queues[d]
      BY <2>1 DEF HostEnqueue, QIInv, IInv, TypeOK
    <2>. QED
      BY <2>1, <2>2, QueueStepQInv DEF HostEnqueue
  <1>. QED
    BY <1>1, <1>2

LEMMA HostDequeueQInv ==
  ASSUME QIInv, NEW c \in HostOutputs, HostDequeue(c)
  PROVE  QInv'
  <1>1. c \in Channels
    BY NetworkAssumption
  <1>2. \A d \in Channels \ {c} : queues'[d] = queues[d]
    BY <1>1 DEF HostDequeue, QIInv, IInv, TypeOK
  <1>. QED
    BY <1>2, QueueStepQInv DEF HostDequeue

LEMMA ResetStateQInv ==
  ASSUME QIInv, ResetState
  PROVE  QInv'
  BY DEF ResetState, QInv

-----------------------------------------------------------------------------
LEMMA NextQInv == QIInv /\ [Next]_vars => QIInv'
  <1>. SUFFICES ASSUME QIInv, [Next]_vars PROVE QIInv'
    OBVIOUS
  <1>1. IInv'
    BY NextIInv DEF QIInv
  <1>2. QInv'
    <2>1. CASE StartTick
      BY <2>1, StartTickQInv
    <2>2. CASE TickStep
      BY <2>2, SkipCompletedQInv, InvokeProcQInv, NextPassQInv,
         TickReturnQInv, SkipOpQInv, SendQInv, ReceiveQInv, BlockQInv,
         CompleteQInv DEF TickStep
    <2>3. CASE \E c \in HostInputs, v \in HostValues : HostEnqueue(c, v)
      BY <2>3, HostEnqueueQInv
    <2>4. CASE \E c \in HostOutputs : HostDequeue(c)
      BY <2>4, HostDequeueQInv
    <2>5. CASE ResetState
      BY <2>5, ResetStateQInv
    <2>6. CASE UNCHANGED vars
      <3>1. PassQuiescent => PassQuiescent'
        BY <2>6, PassQuiescentSame DEF vars, QIInv, IInv
      <3>. QED
        BY <2>6, <3>1 DEF vars, QIInv, QInv, Current, Cur
    <2>. QED
      BY <2>1, <2>2, <2>3, <2>4, <2>5, <2>6 DEF Next
  <1>. QED
    BY <1>1, <1>2 DEF QIInv

\* Only TickReturn takes the runtime from a pass back to idle.
LEMMA ReturnIsTickReturn ==
  ASSUME [Next]_vars, phase = "pass", phase' = "idle"
  PROVE  TickReturn
  <1>1. ~StartTick /\ ~ResetState
    BY DEF StartTick, ResetState
  <1>2. ~SkipCompleted /\ ~InvokeProc /\ ~NextPass
    BY DEF SkipCompleted, InvokeProc, NextPass
  <1>3. ~SkipOp /\ ~Send /\ ~Receive /\ ~Block /\ ~Complete
    BY DEF SkipOp, Send, Receive, Block, Complete
  <1>4. ~\E c \in HostInputs, v \in HostValues : HostEnqueue(c, v)
    BY DEF HostEnqueue
  <1>5. ~\E c \in HostOutputs : HostDequeue(c)
    BY DEF HostDequeue
  <1>6. ~UNCHANGED vars
    BY DEF vars
  <1>. QED
    BY <1>1, <1>2, <1>3, <1>4, <1>5, <1>6 DEF Next, TickStep

LEMMA QuiescentStep ==
  ASSUME QIInv, [Next]_vars, phase = "pass", phase' = "idle"
  PROVE  \A p \in Procs \ completed_procs : BlockedOnEmpty(p)
  <1>1. ~progress_made /\ idx = N + 1
    BY ReturnIsTickReturn DEF TickReturn
  <1>2. PassQuiescent
    BY <1>1 DEF QIInv, QInv
  <1>. SUFFICES ASSUME NEW p \in Procs \ completed_procs
                PROVE  BlockedOnEmpty(p)
    OBVIOUS
  <1>3. PICK j \in 1..N : ProcOrder[j] = p
    BY OrderFacts
  <1>. QED
    BY <1>1, <1>2, <1>3, NLen DEF PassQuiescent

(***************************************************************************)
(* Tick returns only at quiescence (spec section 4.5), for every network *)
(* and every interleaving with a concurrent host: whenever the while loop *)
(* of SerialProcRuntime::Tick exits because a pass made no progress, each *)
(* proc that did not complete its tick in that call is suspended at a     *)
(* receive it is due to perform on an empty queue (or on a host input,    *)
(* which a concurrent host may have filled since).                        *)
(***************************************************************************)
THEOREM TickReturnsQuiescent == Spec => QuiescentTickReturn
  <1>1. Init => QIInv
    BY InitIInv, InitQInv DEF QIInv
  <1>2. QIInv /\ [Next]_vars => QIInv'
    BY NextQInv
  <1>3. QIInv /\ [Next]_vars
          => [phase = "pass" /\ phase' = "idle" =>
                \A p \in Procs \ completed_procs : BlockedOnEmpty(p)]_vars
    BY QuiescentStep
  <1>. QED
    BY <1>1, <1>2, <1>3, PTL DEF Spec, QuiescentTickReturn

=============================================================================
