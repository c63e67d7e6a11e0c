-------------------------- MODULE SerialProcRuntime --------------------------
(***************************************************************************)
(* The serial proc runtime of xls/jit/serial_proc_runtime.cc              *)
(* (src/unnamed/part_000 lines 148-250): a single thread drives a fixed   *)
(* network of procs one global Tick at a time.  Each proc is a compiled   *)
(* tick body plus a continuation: the point its current tick stopped at   *)
(* and its persistent state.  Procs talk only through channel queues.     *)
(*                                                                         *)
(* A proc's tick body (compiled by ProcJit, not in the sources) is        *)
(* modelled from the spec (sections 4.5 and 5) as a sequence of channel  *)
(* operations, each guarded by a condition on the proc's state: a send    *)
(* never blocks, a receive on an empty queue suspends the tick there, and *)
(* an operation whose condition is false does not happen.  The proc's     *)
(* persistent state is its count of completed ticks; it decides the       *)
(* conditions and is the value it sends.  Queues are abstract sequences:  *)
(* ByteQueue shows the byte ring implements exactly this queue.           *)
(*                                                                         *)
(* Each channel operation is a step of its own, since the queues are      *)
(* thread-safe and a host thread may use them while Tick runs.            *)
(***************************************************************************)
EXTENDS Integers, Sequences, FiniteSets

CONSTANTS
  Procs,                \* the procs of the package
  ProcOrder,            \* package_->procs(): the declaration order
  Channels,             \* the channels of the package
  SingleValueChannels,  \* channels with SingleValue discipline
  Program,              \* Program[p]: the channel operations of p's tick body
  InitialValues,        \* InitialValues[c]: channel->initial_values()
  HostInputs,           \* channels the host enqueues onto
  HostOutputs,          \* channels the host dequeues from
  HostValues,           \* values the host enqueues
  ConcurrentHost,       \* the host may call the queue API during Tick
  MaxTicks,             \* model bound on completed ticks of a proc
  MaxQueueLen           \* model bound on queue lengths when the host acts

N == Len(ProcOrder)

Ops == [kind : {"send", "recv"}, channel : Channels,
        when : {"always", "even", "odd"}]

\* The procs performing `kind` operations on channel c.
Endpoints(c, kind) ==
  {p \in Procs : \E i \in DOMAIN Program[p] : /\ Program[p][i].kind = kind
                                              /\ Program[p][i].channel = c}

ASSUME NetworkAssumption ==
  /\ ProcOrder \in Seq(Procs)
  /\ \A i, j \in 1..N : ProcOrder[i] = ProcOrder[j] => i = j
  /\ \A p \in Procs : \E i \in 1..N : ProcOrder[i] = p
  /\ SingleValueChannels \subseteq Channels
  /\ Program \in [Procs -> Seq(Ops)]
  /\ InitialValues \in [Channels -> Seq(Nat \cup HostValues)]
  /\ HostInputs \subseteq Channels /\ HostOutputs \subseteq Channels
  /\ ConcurrentHost \in BOOLEAN
  /\ MaxTicks \in Nat /\ MaxQueueLen \in Nat
  \* at most one writer and one reader per channel (spec section 4.5)
  /\ \A c \in Channels :
       /\ Cardinality(Endpoints(c, "send"))
            + (IF c \in HostInputs THEN 1 ELSE 0) <= 1
       /\ Cardinality(Endpoints(c, "recv"))
            + (IF c \in HostOutputs THEN 1 ELSE 0) <= 1

Value == Nat \cup HostValues

\* Enqueue onto a queue: a SingleValue queue keeps only the newest value.
Enqueue(q, c, v) == IF c \in SingleValueChannels THEN <<v>> ELSE Append(q, v)

\* Seeding: SerialProcRuntime::Init enqueues every initial value in order.
InitialQueue(c) ==
  IF c \in SingleValueChannels /\ InitialValues[c] # <<>>
  THEN <<InitialValues[c][Len(InitialValues[c])]>>
  ELSE InitialValues[c]

\* Whether operation op takes place in a tick that starts from state s.
Runs(op, s) == op.when = "always" \/ op.when = IF s % 2 = 0 THEN "even" ELSE "odd"

VARIABLES
  queues,           \* queues[c]: the contents of channel c's queue
  pc,               \* continuation point: 0 = start of tick, i = resume at op i
  state,            \* persistent proc state: completed tick count
  phase,            \* "idle", "pass" (Tick's loop) or "running" (in ProcJit::Tick)
  idx,              \* position of Tick's for-loop in ProcOrder
  completed_procs,  \* Tick's completed_procs
  progress_made,    \* Tick's progress_made
  entry_pc,         \* continuation point when the running proc was invoked
  reset_len         \* history: queue lengths at the last ResetState

vars == <<queues, pc, state, phase, idx, completed_procs, progress_made,
          entry_pc, reset_len>>

\* The proc the loop is at, and the operation its continuation resumes at.
Current == ProcOrder[idx]

Cur(p) == IF pc[p] = 0 THEN 1 ELSE pc[p]

Op(p) == Program[p][Cur(p)]

(***************************************************************************)
(* SerialProcRuntime::Init: a fresh continuation per proc, then the       *)
(* initial values enqueued into every channel.                            *)
(***************************************************************************)
Init ==
  /\ queues = [c \in Channels |-> InitialQueue(c)]
  /\ pc = [p \in Procs |-> 0]
  /\ state = [p \in Procs |-> 0]
  /\ phase = "idle"
  /\ idx = 1
  /\ completed_procs = {}
  /\ progress_made = FALSE
  /\ entry_pc = 0
  /\ reset_len = [c \in Channels |-> Len(InitialQueue(c))]

(***************************************************************************)
(* SerialProcRuntime::Tick.  progress_made starts TRUE, so the while loop *)
(* always enters its first pass, which clears it.                         *)
(***************************************************************************)
StartTick ==
  /\ phase = "idle"
  /\ \A p \in Procs : state[p] < MaxTicks
  /\ \A c \in Channels : Len(queues[c]) <= MaxQueueLen
  /\ phase' = "pass"
  /\ idx' = 1
  /\ progress_made' = FALSE
  /\ completed_procs' = {}
  /\ UNCHANGED <<queues, pc, state, entry_pc, reset_len>>

\* `if (completed_procs.contains(proc.get())) continue;`
SkipCompleted ==
  /\ phase = "pass"
  /\ idx <= N
  /\ Current \in completed_procs
  /\ idx' = idx + 1
  /\ UNCHANGED <<queues, pc, state, phase, completed_procs, progress_made,
                 entry_pc, reset_len>>

\* proc_jits_.at(proc)->Tick(*continuations_.at(proc)) is entered.
InvokeProc ==
  /\ phase = "pass"
  /\ idx <= N
  /\ Current \notin completed_procs
  /\ phase' = "running"
  /\ entry_pc' = pc[Current]
  /\ UNCHANGED <<queues, pc, state, idx, completed_procs, progress_made,
                 reset_len>>

(***************************************************************************)
(* One channel operation of the running proc's tick body.                 *)
(***************************************************************************)
\* An operation on a path not taken in this tick does not occur.
SkipOp ==
  LET p == Current IN
  /\ phase = "running"
  /\ Cur(p) <= Len(Program[p])
  /\ ~Runs(Op(p), state[p])
  /\ pc' = [pc EXCEPT ![p] = Cur(p) + 1]
  /\ UNCHANGED <<queues, state, phase, idx, completed_procs, progress_made,
                 entry_pc, reset_len>>

Send ==
  LET p == Current
      c == Op(p).channel
  IN
  /\ phase = "running"
  /\ Cur(p) <= Len(Program[p])
  /\ Runs(Op(p), state[p])
  /\ Op(p).kind = "send"
  /\ queues' = [queues EXCEPT ![c] = Enqueue(@, c, state[p])]
  /\ pc' = [pc EXCEPT ![p] = Cur(p) + 1]
  /\ UNCHANGED <<state, phase, idx, completed_procs, progress_made,
                 entry_pc, reset_len>>

\* A receive that finds data: a FIFO queue is popped, a register is read.
Receive ==
  LET p == Current
      c == Op(p).channel
  IN
  /\ phase = "running"
  /\ Cur(p) <= Len(Program[p])
  /\ Runs(Op(p), state[p])
  /\ Op(p).kind = "recv"
  /\ queues[c] # <<>>
  /\ queues' = IF c \in SingleValueChannels THEN queues
               ELSE [queues EXCEPT ![c] = Tail(@)]
  /\ pc' = [pc EXCEPT ![p] = Cur(p) + 1]
  /\ UNCHANGED <<state, phase, idx, completed_procs, progress_made,
                 entry_pc, reset_len>>

(***************************************************************************)
(* ProcJit::Tick returns.  Blocked: a receive found its queue empty; the  *)
(* continuation records that receive, and progress is whether the         *)
(* continuation point moved.  Complete: the body ran to its end; the      *)
(* state advances and the continuation restarts.  Tick's loop then folds *)
(* the result into progress_made and completed_procs.                     *)
(***************************************************************************)
\* `progress_made = progress_made || result.progress_made` for a blocked
\* proc: ProcJit::Tick reports progress when the continuation point moved.
PassProgressOverwritten(p) == Cur(p) # entry_pc
PassProgressAlways(p) == TRUE
PassProgress(p) == progress_made \/ Cur(p) # entry_pc

Block ==
  LET p == Current IN
  /\ phase = "running"
  /\ Cur(p) <= Len(Program[p])
  /\ Runs(Op(p), state[p])
  /\ Op(p).kind = "recv"
  /\ queues[Op(p).channel] = <<>>
  /\ pc' = [pc EXCEPT ![p] = Cur(p)]
  /\ progress_made' = PassProgress(p)
  /\ phase' = "pass"
  /\ idx' = idx + 1
  /\ UNCHANGED <<queues, state, completed_procs, entry_pc, reset_len>>

\* A completed tick leaves the continuation at the start of the next one.
RestartedContinuationsKept == pc
RestartedContinuations == [pc EXCEPT ![Current] = 0]

Complete ==
  LET p == Current IN
  /\ phase = "running"
  /\ Cur(p) > Len(Program[p])
  /\ pc' = RestartedContinuations
  /\ state' = [state EXCEPT ![p] = @ + 1]
  /\ progress_made' = TRUE
  /\ completed_procs' = completed_procs \cup {p}
  /\ phase' = "pass"
  /\ idx' = idx + 1
  /\ UNCHANGED <<queues, entry_pc, reset_len>>

\* The for-loop is done: another pass if anything progressed, else return.
NextPass ==
  /\ phase = "pass"
  /\ idx = N + 1
  /\ progress_made
  /\ idx' = 1
  /\ progress_made' = FALSE
  /\ UNCHANGED <<queues, pc, state, phase, completed_procs, entry_pc,
                 reset_len>>

TickReturn ==
  /\ phase = "pass"
  /\ idx = N + 1
  /\ ~progress_made
  /\ phase' = "idle"
  /\ UNCHANGED <<queues, pc, state, idx, completed_procs, progress_made,
                 entry_pc, reset_len>>

(***************************************************************************)
(* The host: EnqueueValueToChannel / EnqueueBufferToChannel and           *)
(* DequeueValueFromChannel / DequeueBufferFromChannel, from another       *)
(* thread while Tick runs when ConcurrentHost holds.                      *)
(***************************************************************************)
HostEnqueue(c, v) ==
  /\ ConcurrentHost \/ phase = "idle"
  /\ Len(queues[c]) < MaxQueueLen
  /\ queues' = [queues EXCEPT ![c] = Enqueue(@, c, v)]
  /\ UNCHANGED <<pc, state, phase, idx, completed_procs, progress_made,
                 entry_pc, reset_len>>

HostDequeue(c) ==
  /\ ConcurrentHost \/ phase = "idle"
  /\ queues[c] # <<>>
  /\ queues' = IF c \in SingleValueChannels THEN queues
               ELSE [queues EXCEPT ![c] = Tail(@)]
  /\ UNCHANGED <<pc, state, phase, idx, completed_procs, progress_made,
                 entry_pc, reset_len>>

(***************************************************************************)
(* SerialProcRuntime::ResetState: a new continuation for every proc, which *)
(* restarts its tick and its state.  The queues are left as they are.     *)
(***************************************************************************)
ResetState ==
  /\ phase = "idle"
  /\ pc' = [p \in Procs |-> 0]
  /\ state' = [p \in Procs |-> 0]
  /\ reset_len' = [c \in Channels |-> Len(queues[c])]
  /\ UNCHANGED <<queues, phase, idx, completed_procs, progress_made, entry_pc>>

TickStep ==
  \/ SkipCompleted \/ InvokeProc \/ NextPass \/ TickReturn
  \/ SkipOp \/ Send \/ Receive \/ Block \/ Complete

Next ==
  \/ StartTick
  \/ TickStep
  \/ \E c \in HostInputs, v \in HostValues : HostEnqueue(c, v)
  \/ \E c \in HostOutputs : HostDequeue(c)
  \/ ResetState

\* Tick is one thread running without waits: once called it keeps stepping.
\* The host and the callers of Tick and ResetState are not obliged to act.
Spec == Init /\ [][Next]_vars /\ WF_vars(TickStep)

-----------------------------------------------------------------------------
TypeOK ==
  /\ queues \in [Channels -> Seq(Value)]
  /\ pc \in [Procs -> Nat]
  /\ \A p \in Procs : pc[p] <= Len(Program[p]) + 1
  /\ state \in [Procs -> 0..MaxTicks]
  /\ phase \in {"idle", "pass", "running"}
  /\ idx \in 1..N + 1
  /\ completed_procs \subseteq Procs
  /\ progress_made \in BOOLEAN
  /\ entry_pc \in Nat
  /\ reset_len \in [Channels -> Nat]

\* Whether the operation at position i of p's tick body, in a tick that
\* starts from state t, is a `kind` operation on c that takes place.
Counts(p, i, t, c, kind) ==
  /\ Program[p][i].kind = kind
  /\ Program[p][i].channel = c
  /\ Runs(Program[p][i], t)

\* The (tick, position) pairs of the `kind` operations on c that proc p, in
\* state st with continuation point cur, has performed: all of those of
\* its completed ticks, and those before cur in the current one.
PerformedOps(p, c, kind, st, cur) ==
  {x \in (0..st) \X DOMAIN Program[p] :
     Counts(p, x[2], x[1], c, kind) /\ (x[1] < st \/ x[2] < cur)}

\* How many `kind` operations on c proc p has performed since its state was
\* last reset.
Performed(p, c, kind) == Cardinality(PerformedOps(p, c, kind, state[p], Cur(p)))

\* Operations on c by its (at most one) endpoint proc.
PerformedOn(c, kind) ==
  IF Endpoints(c, kind) = {} THEN 0
  ELSE Performed(CHOOSE p \in Endpoints(c, kind) : TRUE, c, kind)

\* FIFO channels between two procs.
InternalFifos ==
  Channels \ (SingleValueChannels \cup HostInputs \cup HostOutputs)

(***************************************************************************)
(* Exactly-once channel operations across suspended ticks (spec sections *)
(* 1 and 5): on every FIFO channel between procs, the queue holds what it *)
(* held at the last reset, plus every send its writer has performed, less *)
(* every receive its reader has performed, counted from the procs'        *)
(* continuations.  A resumed tick that repeated a send, or a continuation *)
(* that lost a receive, breaks the balance.                               *)
(***************************************************************************)
SendReceiveBalance ==
  \A c \in InternalFifos :
    Len(queues[c]) = reset_len[c] + PerformedOn(c, "send")
                                  - PerformedOn(c, "recv")

\* Proc p is suspended at a receive it is due to perform, on a queue that is
\* empty (or that only a concurrent host could have filled since).
BlockedOnEmpty(p) ==
  /\ pc[p] \in DOMAIN Program[p]
  /\ Op(p).kind = "recv"
  /\ Runs(Op(p), state[p])
  /\ \/ queues[Op(p).channel] = <<>>
     \/ ConcurrentHost /\ Op(p).channel \in HostInputs

(***************************************************************************)
(* Tick returns only at quiescence (spec section 4.5): when the while loop *)
(* of SerialProcRuntime::Tick exits, every proc that did not complete its *)
(* tick is blocked on a receive from an empty queue, so no proc could     *)
(* have progressed further.  This rests on progress_made accumulating the *)
(* results of a whole pass.                                                *)
(***************************************************************************)
QuiescentTickReturn ==
  [][phase = "pass" /\ phase' = "idle" =>
       \A p \in Procs \ completed_procs : BlockedOnEmpty(p)]_vars

(***************************************************************************)
(* Every call of Tick returns (spec section 4.5): a pass without progress *)
(* ends it, and each proc can complete at most one tick per call.         *)
(***************************************************************************)
TickTerminates == phase # "idle" ~> phase = "idle"

=============================================================================
