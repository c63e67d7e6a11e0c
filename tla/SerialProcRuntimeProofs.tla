----------------------- MODULE SerialProcRuntimeProofs -----------------------
(***************************************************************************)
(* Proofs that the serial proc runtime keeps its type and performs every  *)
(* channel operation exactly once: Spec => [](TypeOK /\ SendReceiveBalance)*)
(* for every network that satisfies NetworkAssumption.                    *)
(*                                                                         *)
(* Neither invariant is inductive alone.  Complete (the end of           *)
(* ProcJit::Tick) advances the proc's state, which stays within MaxTicks  *)
(* only because Tick's loop runs each proc at most once to completion per *)
(* call (completed_procs); and the running proc must be a proc of the    *)
(* package.  TickInv states both.  The balance itself needs no            *)
(* strengthening: a step of proc p changes only p's own operation counts, *)
(* by the one operation it performs, and the counts are Cardinalities of  *)
(* finite sets of (tick, operation) pairs.                                *)
(***************************************************************************)
EXTENDS SerialProcRuntime, FiniteSetTheorems, TLAPS

\* What Tick's loop keeps true while it runs.
TickInv ==
  /\ phase = "running" => idx \in 1..N /\ Current \notin completed_procs
  /\ phase # "idle" => \A p \in Procs \ completed_procs : state[p] < MaxTicks

IInv == TypeOK /\ TickInv /\ SendReceiveBalance

\* The one endpoint proc whose count PerformedOn reads.
Endpoint(c, kind) == CHOOSE p \in Endpoints(c, kind) : TRUE

(***************************************************************************)
(* Facts about the network the constants describe.                        *)
(***************************************************************************)
LEMMA ProgramType ==
  ASSUME NEW p \in Procs
  PROVE  /\ Program[p] \in Seq(Ops)
         /\ DOMAIN Program[p] = 1..Len(Program[p])
         /\ Len(Program[p]) \in Nat
  BY NetworkAssumption

\* A package has finitely many procs: ProcOrder lists them all.
LEMMA ProcsFinite == IsFiniteSet(Procs)
  <1>1. ProcOrder \in Surjection(1..N, Procs)
    BY NetworkAssumption DEF Surjection, N
  <1>2. IsFiniteSet(1..N)
    BY FS_Interval, NetworkAssumption DEF N
  <1>. QED
    BY <1>1, <1>2, FS_Surjection

\* A channel has at most one sending and one receiving proc, so the proc
\* whose counts PerformedOn reads is the one that operates on it.
LEMMA EndpointUnique ==
  ASSUME NEW c \in Channels, NEW kind, NEW p \in Endpoints(c, kind)
  PROVE  Endpoint(c, kind) = p
  <1>. DEFINE E == Endpoints(c, kind)
              q == Endpoint(c, kind)
  <1>1. IsFiniteSet(E) /\ Cardinality(E) \in Nat
    BY ProcsFinite, FS_Subset, FS_CardinalityType DEF Endpoints
  <1>2. Cardinality(E) <= 1
    <2>1. CASE kind = "send"
      <3>1. Cardinality(Endpoints(c, "send"))
              + (IF c \in HostInputs THEN 1 ELSE 0) <= 1
        BY NetworkAssumption
      <3>. QED
        BY <1>1, <2>1, <3>1, SMT
    <2>2. CASE kind = "recv"
      <3>1. Cardinality(Endpoints(c, "recv"))
              + (IF c \in HostOutputs THEN 1 ELSE 0) <= 1
        BY NetworkAssumption
      <3>. QED
        BY <1>1, <2>2, <3>1, SMT
    <2>3. CASE kind \notin {"send", "recv"}
      <3>1. E = {}
        <4>. SUFFICES ASSUME NEW r \in Procs, NEW i \in DOMAIN Program[r],
                            Program[r][i].kind = kind
                     PROVE  FALSE
          BY DEF Endpoints
        <4>1. Program[r][i] \in Ops
          BY ProgramType
        <4>. QED
          BY <2>3, <4>1 DEF Ops
      <3>. QED
        BY <3>1, FS_EmptySet
    <2>. QED
      BY <2>1, <2>2, <2>3
  <1>3. q \in E
    BY DEF Endpoint
  <1>. SUFFICES ASSUME q # p PROVE FALSE
    OBVIOUS
  <1>4. Cardinality({p, q}) = 2 /\ {p, q} \subseteq E
    <2>1. IsFiniteSet({p}) /\ Cardinality({p}) = 1
      BY FS_Singleton
    <2>2. Cardinality({p} \cup {q})
            = IF q \in {p} THEN Cardinality({p}) ELSE Cardinality({p}) + 1
      BY <2>1, FS_AddElement
    <2>3. Cardinality({p} \cup {q}) = 2
      BY <2>1, <2>2
    <2>. QED
      BY <1>3, <2>3
  <1>. QED
    BY <1>1, <1>2, <1>4, FS_Subset, SMT

(***************************************************************************)
(* How the counted sets change when a proc's continuation moves.          *)
(***************************************************************************)
LEMMA PerformedOpsFinite ==
  ASSUME NEW p \in Procs, NEW c, NEW kind, NEW st \in Nat, NEW cur
  PROVE  IsFiniteSet(PerformedOps(p, c, kind, st, cur))
  <1>1. IsFiniteSet(0..st) /\ IsFiniteSet(DOMAIN Program[p])
    BY ProgramType, FS_Interval
  <1>2. IsFiniteSet((0..st) \X DOMAIN Program[p])
    BY <1>1, FS_Product
  <1>. QED
    BY <1>2, FS_Subset DEF PerformedOps

\* Moving the continuation past position cur adds that operation, if it
\* is a `kind` operation on c that takes place in this tick.
LEMMA PerformedOpsAdvance ==
  ASSUME NEW p \in Procs, NEW c, NEW kind, NEW st \in Nat,
         NEW cur \in 1..Len(Program[p])
  PROVE  Cardinality(PerformedOps(p, c, kind, st, cur + 1))
           = Cardinality(PerformedOps(p, c, kind, st, cur))
             + (IF Counts(p, cur, st, c, kind) THEN 1 ELSE 0)
  <1>. DEFINE S == PerformedOps(p, c, kind, st, cur)
  <1>1. IsFiniteSet(S) /\ Cardinality(S) \in Nat
    BY PerformedOpsFinite, FS_CardinalityType
  <1>2. <<st, cur>> \notin S
    BY ProgramType DEF PerformedOps
  <1>3. CASE Counts(p, cur, st, c, kind)
    <2>1. PerformedOps(p, c, kind, st, cur + 1) = S \cup {<<st, cur>>}
      BY <1>3, ProgramType DEF PerformedOps, Counts
    <2>. QED
      BY <1>1, <1>2, <1>3, <2>1, FS_AddElement
  <1>4. CASE ~Counts(p, cur, st, c, kind)
    <2>1. PerformedOps(p, c, kind, st, cur + 1) = S
      BY <1>4, ProgramType DEF PerformedOps, Counts
    <2>. QED
      BY <1>4, <2>1, <1>1
  <1>. QED
    BY <1>3, <1>4

\* A completed tick is the start of the next one: nothing is counted twice.
LEMMA PerformedOpsComplete ==
  ASSUME NEW p \in Procs, NEW c, NEW kind, NEW st \in Nat,
         NEW cur \in Nat, cur > Len(Program[p])
  PROVE  PerformedOps(p, c, kind, st + 1, 1) = PerformedOps(p, c, kind, st, cur)
  BY ProgramType DEF PerformedOps

\* A fresh continuation has performed nothing.
LEMMA PerformedOpsReset ==
  ASSUME NEW p \in Procs, NEW c, NEW kind
  PROVE  Cardinality(PerformedOps(p, c, kind, 0, 1)) = 0
  <1>1. PerformedOps(p, c, kind, 0, 1) = {}
    BY ProgramType DEF PerformedOps
  <1>. QED
    BY <1>1, FS_EmptySet

(***************************************************************************)
(* How the steps of a proc change the counts Performed reads: moving the  *)
(* continuation past an operation counts that operation; suspending at a  *)
(* receive, completing a tick and restarting count nothing new; a reset   *)
(* starts every count from zero.                                          *)
(***************************************************************************)
LEMMA CurType ==
  ASSUME TypeOK, NEW p \in Procs
  PROVE  Cur(p) \in Nat \ {0}
  BY DEF TypeOK, Cur

LEMMA PerformedCount ==
  ASSUME NEW q \in Procs, state[q] \in Nat, NEW c, NEW kind
  PROVE  Performed(q, c, kind) \in Nat
  BY PerformedOpsFinite, FS_CardinalityType DEF Performed

LEMMA PerformedAdvance ==
  ASSUME TypeOK, NEW p \in Procs, Cur(p) <= Len(Program[p]),
         pc' = [pc EXCEPT ![p] = Cur(p) + 1], state' = state,
         NEW q \in Procs, NEW c, NEW kind
  PROVE  Performed(q, c, kind)'
           = Performed(q, c, kind)
             + (IF q = p /\ Counts(p, Cur(p), state[p], c, kind) THEN 1 ELSE 0)
  <1>1. Cur(p) \in 1..Len(Program[p]) /\ state[p] \in Nat
    BY CurType DEF TypeOK
  <1>2. CASE q = p
    <2>1. Cur(p)' = Cur(p) + 1
      BY <1>1 DEF TypeOK, Cur
    <2>2. Performed(p, c, kind)'
            = Cardinality(PerformedOps(p, c, kind, state[p], Cur(p) + 1))
      BY <2>1 DEF Performed
    <2>. QED
      BY <1>1, <1>2, <2>2, PerformedOpsAdvance DEF Performed
  <1>3. CASE q # p
    <2>1. Cur(q)' = Cur(q)
      BY <1>3 DEF TypeOK, Cur
    <2>2. Performed(q, c, kind)' = Performed(q, c, kind)
      BY <2>1 DEF Performed
    <2>3. Performed(q, c, kind) \in Nat
      BY PerformedCount DEF TypeOK
    <2>. QED
      BY <1>3, <2>2, <2>3
  <1>. QED
    BY <1>2, <1>3

LEMMA PerformedStay ==
  ASSUME TypeOK, NEW p \in Procs,
         pc' = [pc EXCEPT ![p] = Cur(p)], state' = state,
         NEW q \in Procs, NEW c, NEW kind
  PROVE  Performed(q, c, kind)' = Performed(q, c, kind)
  <1>1. Cur(q)' = Cur(q)
    BY CurType DEF TypeOK, Cur
  <1>. QED
    BY <1>1 DEF Performed

LEMMA PerformedComplete ==
  ASSUME TypeOK, NEW p \in Procs, Cur(p) > Len(Program[p]),
         pc' = [pc EXCEPT ![p] = 0], state' = [state EXCEPT ![p] = @ + 1],
         NEW q \in Procs, NEW c, NEW kind
  PROVE  Performed(q, c, kind)' = Performed(q, c, kind)
  <1>1. CASE q = p
    <2>1. Cur(p)' = 1 /\ state'[p] = state[p] + 1 /\ state[p] \in Nat
      BY DEF TypeOK, Cur
    <2>2. Performed(p, c, kind)'
            = Cardinality(PerformedOps(p, c, kind, state[p] + 1, 1))
      BY <2>1 DEF Performed
    <2>. QED
      BY <1>1, <2>1, <2>2, CurType, PerformedOpsComplete DEF Performed
  <1>2. CASE q # p
    BY <1>2 DEF TypeOK, Performed, Cur
  <1>. QED
    BY <1>1, <1>2

LEMMA PerformedReset ==
  ASSUME pc' = [r \in Procs |-> 0], state' = [r \in Procs |-> 0],
         NEW q \in Procs, NEW c, NEW kind
  PROVE  Performed(q, c, kind)' = 0
  <1>1. Cur(q)' = 1 /\ state'[q] = 0
    BY DEF Cur
  <1>2. Performed(q, c, kind)' = Cardinality(PerformedOps(q, c, kind, 0, 1))
    BY <1>1 DEF Performed
  <1>. QED
    BY <1>2, PerformedOpsReset

LEMMA PerformedFresh ==
  ASSUME NEW q \in Procs, pc[q] = 0, state[q] = 0, NEW c, NEW kind
  PROVE  Performed(q, c, kind) = 0
  <1>1. Cur(q) = 1
    BY DEF Cur
  <1>. QED
    BY <1>1, PerformedOpsReset DEF Performed

(***************************************************************************)
(* The same for the count of a channel's endpoint.                        *)
(***************************************************************************)
LEMMA EndpointProc ==
  ASSUME NEW c, NEW kind, Endpoints(c, kind) # {}
  PROVE  Endpoint(c, kind) \in Endpoints(c, kind) /\ Endpoint(c, kind) \in Procs
  BY DEF Endpoint, Endpoints

LEMMA PerformedOnNat ==
  ASSUME TypeOK, NEW c, NEW kind
  PROVE  PerformedOn(c, kind) \in Nat
  <1>1. CASE Endpoints(c, kind) # {}
    BY <1>1, EndpointProc, PerformedCount DEF PerformedOn, Endpoint, TypeOK
  <1>. QED
    BY <1>1 DEF PerformedOn

LEMMA PerformedOnSame ==
  ASSUME TypeOK,
         \A q \in Procs : \A d, k : Performed(q, d, k)' = Performed(q, d, k),
         NEW c, NEW kind
  PROVE  PerformedOn(c, kind)' = PerformedOn(c, kind)
  <1>1. CASE Endpoints(c, kind) # {}
    BY <1>1, EndpointProc DEF PerformedOn, Endpoint
  <1>. QED
    BY <1>1 DEF PerformedOn

LEMMA PerformedOnAdvance ==
  ASSUME TypeOK, NEW p \in Procs, Cur(p) <= Len(Program[p]),
         pc' = [pc EXCEPT ![p] = Cur(p) + 1], state' = state,
         NEW c \in Channels, NEW kind
  PROVE  PerformedOn(c, kind)'
           = PerformedOn(c, kind)
             + (IF Counts(p, Cur(p), state[p], c, kind) THEN 1 ELSE 0)
  <1>1. CASE Counts(p, Cur(p), state[p], c, kind)
    <2>1. p \in Endpoints(c, kind)
      <3>1. Cur(p) \in DOMAIN Program[p]
        BY CurType, ProgramType
      <3>. QED
        BY <1>1, <3>1 DEF Counts, Endpoints
    <2>2. Endpoint(c, kind) = p
      BY <2>1, EndpointUnique
    <2>3. /\ PerformedOn(c, kind) = Performed(p, c, kind)
          /\ PerformedOn(c, kind)' = Performed(p, c, kind)'
      BY <2>1, <2>2 DEF PerformedOn, Endpoint
    <2>. QED
      BY <1>1, <2>3, PerformedAdvance
  <1>2. CASE ~Counts(p, Cur(p), state[p], c, kind) /\ Endpoints(c, kind) # {}
    <2>1. Endpoint(c, kind) \in Procs
      BY <1>2, EndpointProc
    <2>2. ASSUME NEW r \in Procs, r = Endpoint(c, kind)
          PROVE  PerformedOn(c, kind)' = PerformedOn(c, kind) + 0
      <3>1. /\ PerformedOn(c, kind) = Performed(r, c, kind)
            /\ PerformedOn(c, kind)' = Performed(r, c, kind)'
        BY <1>2, <2>2 DEF PerformedOn, Endpoint
      <3>2. Performed(r, c, kind)'
              = Performed(r, c, kind)
                + (IF r = p /\ Counts(p, Cur(p), state[p], c, kind) THEN 1 ELSE 0)
        BY PerformedAdvance DEF Performed
      <3>3. Performed(r, c, kind) \in Nat
        BY PerformedCount DEF TypeOK
      <3>. QED
        BY <1>2, <3>1, <3>2, <3>3
    <2>. QED
      BY <1>2, <2>1, <2>2
  <1>3. CASE ~Counts(p, Cur(p), state[p], c, kind) /\ Endpoints(c, kind) = {}
    BY <1>3 DEF PerformedOn
  <1>. QED
    BY <1>1, <1>2, <1>3

-----------------------------------------------------------------------------
(***************************************************************************)
(* The inductive invariant: initial states, then one lemma per action.    *)
(***************************************************************************)
LEMMA InitialQueueType ==
  ASSUME NEW c \in Channels
  PROVE  InitialQueue(c) \in Seq(Value)
  <1>1. InitialValues[c] \in Seq(Value)
    BY NetworkAssumption DEF Value
  <1>. QED
    BY <1>1 DEF InitialQueue

LEMMA InitIInv == Init => IInv
  <1>. SUFFICES ASSUME Init PROVE IInv
    OBVIOUS
  <1>1. TypeOK
    <2>1. queues \in [Channels -> Seq(Value)]
      BY InitialQueueType DEF Init
    <2>2. MaxTicks \in Nat /\ 1 \in 1..N + 1
      BY NetworkAssumption DEF N
    <2>3. pc \in [Procs -> Nat] /\ \A p \in Procs : pc[p] <= Len(Program[p]) + 1
      BY ProgramType DEF Init
    <2>4. reset_len \in [Channels -> Nat]
      BY InitialQueueType DEF Init
    <2>5. state \in [Procs -> 0..MaxTicks] /\ idx \in 1..N + 1
      BY <2>2 DEF Init
    <2>6. /\ phase \in {"idle", "pass", "running"}
          /\ completed_procs \subseteq Procs
          /\ progress_made \in BOOLEAN
          /\ entry_pc \in Nat
      BY DEF Init
    <2>. QED
      BY <2>1, <2>3, <2>4, <2>5, <2>6 DEF TypeOK
  <1>2. TickInv
    BY DEF Init, TickInv
  <1>3. SendReceiveBalance
    <2>1. \A q \in Procs : \A d, k : Performed(q, d, k) = 0
      BY PerformedFresh DEF Init
    <2>2. \A c \in Channels, k \in {"send", "recv"} : PerformedOn(c, k) = 0
      BY <2>1, EndpointProc DEF PerformedOn, Endpoint
    <2>3. \A c \in Channels : Len(queues[c]) = reset_len[c] /\ reset_len[c] \in Nat
      BY InitialQueueType DEF Init
    <2>. QED
      BY <2>2, <2>3 DEF SendReceiveBalance, InternalFifos
  <1>. QED
    BY <1>1, <1>2, <1>3 DEF IInv

\* What holds of the running proc.
LEMMA RunningFacts ==
  ASSUME IInv, phase = "running"
  PROVE  /\ idx \in 1..N
         /\ Current \in Procs
         /\ Current \notin completed_procs
         /\ state[Current] \in 0..MaxTicks - 1
         /\ Cur(Current) \in Nat \ {0}
         /\ MaxTicks \in Nat
  <1>1. idx \in 1..N /\ Current \notin completed_procs
    BY DEF IInv, TickInv
  <1>2. Current \in Procs
    BY <1>1, NetworkAssumption DEF Current, N
  <1>. QED
    BY <1>1, <1>2, CurType, NetworkAssumption DEF IInv, TickInv, TypeOK

\* The operation the running proc's continuation is at.
LEMMA OpFacts ==
  ASSUME IInv, NEW p \in Procs, Cur(p) <= Len(Program[p])
  PROVE  /\ Op(p) = Program[p][Cur(p)]
         /\ Op(p) \in Ops
         /\ Op(p).channel \in Channels
  <1>1. Cur(p) \in DOMAIN Program[p]
    <2>1. TypeOK
      BY DEF IInv
    <2>. QED
      BY <2>1, CurType, ProgramType
  <1>2. Program[p][Cur(p)] \in Ops
    BY <1>1, ProgramType
  <1>. QED
    BY <1>2 DEF Op, Ops

LEMMA NLen == N \in Nat
  BY NetworkAssumption DEF N

LEMMA EnqueueType ==
  ASSUME NEW q \in Seq(Value), NEW c, NEW v \in Value
  PROVE  /\ Enqueue(q, c, v) \in Seq(Value)
         /\ c \notin SingleValueChannels => Len(Enqueue(q, c, v)) = Len(q) + 1
  BY DEF Enqueue

\* A step that moves no continuation, and leaves the queues between procs
\* and the reset lengths alone, keeps the balance.
LEMMA BalanceKept ==
  ASSUME IInv,
         \A q \in Procs : \A d, k : Performed(q, d, k)' = Performed(q, d, k),
         reset_len' = reset_len,
         \A c \in InternalFifos : queues'[c] = queues[c]
  PROVE  SendReceiveBalance'
  <1>1. TypeOK
    BY DEF IInv
  <1>. SUFFICES ASSUME NEW c \in InternalFifos
                PROVE  Len(queues'[c]) = reset_len'[c] + PerformedOn(c, "send")'
                                                     - PerformedOn(c, "recv")'
    BY DEF SendReceiveBalance
  <1>2. PerformedOn(c, "send")' = PerformedOn(c, "send")
        /\ PerformedOn(c, "recv")' = PerformedOn(c, "recv")
    BY <1>1, PerformedOnSame
  <1>. QED
    BY <1>2 DEF IInv, SendReceiveBalance

\* The steps of Tick's loop that run no proc code, and the host's steps.
LEMMA UnchangedPerformed ==
  ASSUME pc' = pc, state' = state
  PROVE  \A q \in Procs : \A d, k : Performed(q, d, k)' = Performed(q, d, k)
  BY DEF Performed, Cur

LEMMA StartTickIInv ==
  ASSUME IInv, StartTick
  PROVE  IInv'
  <1>1. TypeOK'
    <2>1. idx' \in 1..N + 1
      BY NLen DEF StartTick
    <2>. QED
      BY <2>1 DEF IInv, TypeOK, StartTick
  <1>2. TickInv'
    BY DEF IInv, StartTick, TickInv
  <1>3. SendReceiveBalance'
    BY UnchangedPerformed, BalanceKept DEF StartTick
  <1>. QED
    BY <1>1, <1>2, <1>3 DEF IInv

LEMMA SkipCompletedIInv ==
  ASSUME IInv, SkipCompleted
  PROVE  IInv'
  <1>1. TypeOK'
    BY NLen DEF IInv, TypeOK, SkipCompleted
  <1>2. TickInv'
    BY DEF IInv, SkipCompleted, TickInv
  <1>3. SendReceiveBalance'
    BY UnchangedPerformed, BalanceKept DEF SkipCompleted
  <1>. QED
    BY <1>1, <1>2, <1>3 DEF IInv

LEMMA InvokeProcIInv ==
  ASSUME IInv, InvokeProc
  PROVE  IInv'
  <1>1. idx \in 1..N /\ Current \in Procs
    <2>1. idx \in 1..N
      BY DEF InvokeProc, IInv, TypeOK
    <2>. QED
      BY <2>1, NetworkAssumption DEF Current, N
  <1>2. TypeOK'
    BY <1>1 DEF IInv, TypeOK, InvokeProc
  <1>3. TickInv'
    BY <1>1 DEF IInv, InvokeProc, TickInv, Current
  <1>4. SendReceiveBalance'
    BY UnchangedPerformed, BalanceKept DEF InvokeProc
  <1>. QED
    BY <1>2, <1>3, <1>4 DEF IInv

LEMMA NextPassIInv ==
  ASSUME IInv, NextPass
  PROVE  IInv'
  <1>1. TypeOK'
    <2>1. idx' \in 1..N + 1
      BY NLen DEF NextPass
    <2>. QED
      BY <2>1 DEF IInv, TypeOK, NextPass
  <1>2. TickInv'
    BY DEF IInv, NextPass, TickInv
  <1>3. SendReceiveBalance'
    BY UnchangedPerformed, BalanceKept DEF NextPass
  <1>. QED
    BY <1>1, <1>2, <1>3 DEF IInv

LEMMA TickReturnIInv ==
  ASSUME IInv, TickReturn
  PROVE  IInv'
  <1>1. TypeOK'
    BY DEF IInv, TypeOK, TickReturn
  <1>2. TickInv'
    BY DEF IInv, TickReturn, TickInv
  <1>3. SendReceiveBalance'
    BY UnchangedPerformed, BalanceKept DEF TickReturn
  <1>. QED
    BY <1>1, <1>2, <1>3 DEF IInv

LEMMA HostEnqueueIInv ==
  ASSUME IInv, NEW c \in HostInputs, NEW v \in HostValues, HostEnqueue(c, v)
  PROVE  IInv'
  <1>1. c \in Channels /\ queues[c] \in Seq(Value) /\ v \in Value
    BY NetworkAssumption DEF IInv, TypeOK, Value
  <1>2. TypeOK'
    BY <1>1, EnqueueType DEF IInv, TypeOK, HostEnqueue
  <1>3. TickInv'
    BY DEF IInv, HostEnqueue, TickInv, Current
  <1>4. \A d \in InternalFifos : queues'[d] = queues[d]
    BY DEF HostEnqueue, InternalFifos
  <1>5. SendReceiveBalance'
    BY <1>4, UnchangedPerformed, BalanceKept DEF HostEnqueue
  <1>. QED
    BY <1>2, <1>3, <1>5 DEF IInv

LEMMA HostDequeueIInv ==
  ASSUME IInv, NEW c \in HostOutputs, HostDequeue(c)
  PROVE  IInv'
  <1>1. c \in Channels /\ queues[c] \in Seq(Value) /\ queues[c] # <<>>
    BY NetworkAssumption DEF IInv, TypeOK, HostDequeue
  <1>2. Tail(queues[c]) \in Seq(Value)
    BY <1>1
  <1>3. TypeOK'
    BY <1>2 DEF IInv, TypeOK, HostDequeue
  <1>4. TickInv'
    BY DEF IInv, HostDequeue, TickInv, Current
  <1>5. \A d \in InternalFifos : queues'[d] = queues[d]
    BY DEF HostDequeue, InternalFifos
  <1>6. SendReceiveBalance'
    BY <1>5, UnchangedPerformed, BalanceKept DEF HostDequeue
  <1>. QED
    BY <1>3, <1>4, <1>6 DEF IInv

(***************************************************************************)
(* The steps of the running proc's tick body.  Each moves the proc's      *)
(* continuation past one operation, and the balance changes by what that  *)
(* operation did to its queue.                                            *)
(***************************************************************************)
\* What the steps of the running proc p read and keep.
LEMMA BodyStepFacts ==
  ASSUME IInv, phase = "running", NEW p \in Procs, p = Current,
         Cur(p) <= Len(Program[p])
  PROVE  /\ TypeOK
         /\ Cur(p) \in 1..Len(Program[p])
         /\ state[p] \in Nat
         /\ Op(p) = Program[p][Cur(p)] /\ Op(p) \in Ops
         /\ Op(p).channel \in Channels
         /\ Cur(p) + 1 <= Len(Program[p]) + 1
  <1>1. TypeOK
    BY DEF IInv
  <1>2. Cur(p) \in Nat \ {0} /\ Len(Program[p]) \in Nat
    BY <1>1, CurType, ProgramType
  <1>3. state[p] \in Nat
    BY <1>1 DEF TypeOK
  <1>. QED
    BY <1>1, <1>2, <1>3, OpFacts

\* A body step keeps the type and Tick's loop invariant when it changes
\* at most the queues and the running proc's continuation.
LEMMA BodyStepTickInv ==
  ASSUME IInv, phase = "running", NEW p \in Procs, p = Current,
         Cur(p) <= Len(Program[p]),
         queues' \in [Channels -> Seq(Value)],
         pc' = [pc EXCEPT ![p] = Cur(p) + 1],
         UNCHANGED <<state, phase, idx, completed_procs, progress_made,
                     entry_pc, reset_len>>
  PROVE  TypeOK' /\ TickInv'
  <1>1. TypeOK /\ Cur(p) + 1 <= Len(Program[p]) + 1 /\ Cur(p) \in Nat
    BY BodyStepFacts
  <1>2. pc' \in [Procs -> Nat] /\ \A q \in Procs : pc'[q] <= Len(Program[q]) + 1
    BY <1>1 DEF TypeOK
  <1>3. TypeOK'
    BY <1>1, <1>2 DEF TypeOK
  <1>4. TickInv'
    BY DEF IInv, TickInv, Current
  <1>. QED
    BY <1>3, <1>4

LEMMA SkipOpIInv ==
  ASSUME IInv, SkipOp
  PROVE  IInv'
  <1>1. phase = "running"
    BY DEF SkipOp
  <1>2. PICK p \in Procs : p = Current
    BY <1>1, RunningFacts
  <1>3. /\ Cur(p) <= Len(Program[p])
        /\ ~Runs(Op(p), state[p])
        /\ pc' = [pc EXCEPT ![p] = Cur(p) + 1]
        /\ UNCHANGED <<queues, state, phase, idx, completed_procs,
                       progress_made, entry_pc, reset_len>>
    BY <1>2 DEF SkipOp
  <1>4. TypeOK /\ Op(p) = Program[p][Cur(p)] /\ state[p] \in Nat
    BY <1>1, <1>2, <1>3, BodyStepFacts
  <1>5. TypeOK' /\ TickInv'
    BY <1>1, <1>2, <1>3, <1>4, BodyStepTickInv DEF TypeOK
  <1>6. SendReceiveBalance'
    <2>1. \A c \in Channels, k \in {"send", "recv"} :
            PerformedOn(c, k)' = PerformedOn(c, k)
      <3>. SUFFICES ASSUME NEW c \in Channels, NEW k \in {"send", "recv"}
                    PROVE  PerformedOn(c, k)' = PerformedOn(c, k)
        OBVIOUS
      <3>1. ~Counts(p, Cur(p), state[p], c, k)
        BY <1>3, <1>4 DEF Counts
      <3>2. PerformedOn(c, k)' = PerformedOn(c, k) + 0
        BY <1>3, <1>4, <3>1, PerformedOnAdvance
      <3>. QED
        BY <1>4, <3>2, PerformedOnNat
    <2>. QED
      BY <1>3, <2>1 DEF IInv, SendReceiveBalance, InternalFifos
  <1>. QED
    BY <1>5, <1>6 DEF IInv

LEMMA SendIInv ==
  ASSUME IInv, Send
  PROVE  IInv'
  <1>1. phase = "running"
    BY DEF Send
  <1>2. PICK p \in Procs : p = Current
    BY <1>1, RunningFacts
  <1>. DEFINE c0 == Op(p).channel
  <1>3. /\ Cur(p) <= Len(Program[p])
        /\ Runs(Op(p), state[p])
        /\ Op(p).kind = "send"
        /\ queues' = [queues EXCEPT ![c0] = Enqueue(@, c0, state[p])]
        /\ pc' = [pc EXCEPT ![p] = Cur(p) + 1]
        /\ UNCHANGED <<state, phase, idx, completed_procs, progress_made,
                       entry_pc, reset_len>>
    BY <1>2 DEF Send
  <1>4. /\ TypeOK /\ Op(p) = Program[p][Cur(p)] /\ state[p] \in Nat
        /\ c0 \in Channels
    BY <1>1, <1>2, <1>3, BodyStepFacts
  <1>5. queues[c0] \in Seq(Value) /\ state[p] \in Value
    BY <1>4 DEF TypeOK, Value
  <1>6. queues' \in [Channels -> Seq(Value)]
    BY <1>3, <1>4, <1>5, EnqueueType DEF TypeOK
  <1>7. TypeOK' /\ TickInv'
    BY <1>1, <1>2, <1>3, <1>6, BodyStepTickInv
  <1>8. SendReceiveBalance'
    <2>. SUFFICES ASSUME NEW c \in InternalFifos
                  PROVE  Len(queues'[c]) = reset_len'[c] + PerformedOn(c, "send")'
                                                       - PerformedOn(c, "recv")'
      BY DEF SendReceiveBalance
    <2>1. c \in Channels /\ c \notin SingleValueChannels
      BY DEF InternalFifos
    <2>2. PerformedOn(c, "send")'
            = PerformedOn(c, "send") + (IF c = c0 THEN 1 ELSE 0)
      <3>1. Counts(p, Cur(p), state[p], c, "send") <=> c = c0
        BY <1>3, <1>4 DEF Counts
      <3>. QED
        BY <1>3, <1>4, <2>1, <3>1, PerformedOnAdvance
    <2>3. PerformedOn(c, "recv")' = PerformedOn(c, "recv")
      <3>1. ~Counts(p, Cur(p), state[p], c, "recv")
        BY <1>3, <1>4 DEF Counts
      <3>2. PerformedOn(c, "recv")' = PerformedOn(c, "recv") + 0
        BY <1>3, <1>4, <2>1, <3>1, PerformedOnAdvance
      <3>. QED
        BY <1>4, <3>2, PerformedOnNat
    <2>4. Len(queues'[c]) = Len(queues[c]) + (IF c = c0 THEN 1 ELSE 0)
      <3>1. CASE c = c0
        BY <1>3, <1>4, <1>5, <2>1, <3>1, EnqueueType DEF TypeOK
      <3>2. CASE c # c0
        BY <1>3, <3>2
      <3>. QED
        BY <3>1, <3>2
    <2>5. /\ PerformedOn(c, "send") \in Nat /\ PerformedOn(c, "recv") \in Nat
          /\ reset_len[c] \in Nat /\ Len(queues[c]) \in Nat
          /\ Len(queues[c]) = reset_len[c] + PerformedOn(c, "send")
                                           - PerformedOn(c, "recv")
      BY <1>4, <2>1, PerformedOnNat DEF IInv, TypeOK, SendReceiveBalance
    <2>. QED
      BY <1>3, <2>2, <2>3, <2>4, <2>5
  <1>. QED
    BY <1>7, <1>8 DEF IInv

LEMMA ReceiveIInv ==
  ASSUME IInv, Receive
  PROVE  IInv'
  <1>1. phase = "running"
    BY DEF Receive
  <1>2. PICK p \in Procs : p = Current
    BY <1>1, RunningFacts
  <1>. DEFINE c0 == Op(p).channel
  <1>3. /\ Cur(p) <= Len(Program[p])
        /\ Runs(Op(p), state[p])
        /\ Op(p).kind = "recv"
        /\ queues[c0] # <<>>
        /\ queues' = IF c0 \in SingleValueChannels THEN queues
                     ELSE [queues EXCEPT ![c0] = Tail(@)]
        /\ pc' = [pc EXCEPT ![p] = Cur(p) + 1]
        /\ UNCHANGED <<state, phase, idx, completed_procs, progress_made,
                       entry_pc, reset_len>>
    BY <1>2 DEF Receive
  <1>4. /\ TypeOK /\ Op(p) = Program[p][Cur(p)] /\ state[p] \in Nat
        /\ c0 \in Channels
    BY <1>1, <1>2, <1>3, BodyStepFacts
  <1>5. queues[c0] \in Seq(Value) /\ Tail(queues[c0]) \in Seq(Value)
        /\ Len(Tail(queues[c0])) = Len(queues[c0]) - 1
    BY <1>3, <1>4 DEF TypeOK
  <1>6. queues' \in [Channels -> Seq(Value)]
    BY <1>3, <1>4, <1>5 DEF TypeOK
  <1>7. TypeOK' /\ TickInv'
    BY <1>1, <1>2, <1>3, <1>6, BodyStepTickInv
  <1>8. SendReceiveBalance'
    <2>. SUFFICES ASSUME NEW c \in InternalFifos
                  PROVE  Len(queues'[c]) = reset_len'[c] + PerformedOn(c, "send")'
                                                       - PerformedOn(c, "recv")'
      BY DEF SendReceiveBalance
    <2>1. c \in Channels /\ c \notin SingleValueChannels
      BY DEF InternalFifos
    <2>2. PerformedOn(c, "recv")'
            = PerformedOn(c, "recv") + (IF c = c0 THEN 1 ELSE 0)
      <3>1. Counts(p, Cur(p), state[p], c, "recv") <=> c = c0
        BY <1>3, <1>4 DEF Counts
      <3>. QED
        BY <1>3, <1>4, <2>1, <3>1, PerformedOnAdvance
    <2>3. PerformedOn(c, "send")' = PerformedOn(c, "send")
      <3>1. ~Counts(p, Cur(p), state[p], c, "send")
        BY <1>3, <1>4 DEF Counts
      <3>2. PerformedOn(c, "send")' = PerformedOn(c, "send") + 0
        BY <1>3, <1>4, <2>1, <3>1, PerformedOnAdvance
      <3>. QED
        BY <1>4, <3>2, PerformedOnNat
    <2>4. Len(queues'[c]) = Len(queues[c]) - (IF c = c0 THEN 1 ELSE 0)
      <3>1. CASE c = c0
        BY <1>3, <1>4, <1>5, <2>1, <3>1 DEF TypeOK
      <3>2. CASE c # c0
        <4>1. queues'[c] = queues[c]
          BY <1>3, <3>2
        <4>2. Len(queues[c]) \in Nat
          BY <1>4, <2>1 DEF TypeOK
        <4>. QED
          BY <3>2, <4>1, <4>2
      <3>. QED
        BY <3>1, <3>2
    <2>5. /\ PerformedOn(c, "send") \in Nat /\ PerformedOn(c, "recv") \in Nat
          /\ reset_len[c] \in Nat /\ Len(queues[c]) \in Nat
          /\ Len(queues[c]) = reset_len[c] + PerformedOn(c, "send")
                                           - PerformedOn(c, "recv")
      BY <1>4, <2>1, PerformedOnNat DEF IInv, TypeOK, SendReceiveBalance
    <2>. QED
      BY <1>3, <2>2, <2>3, <2>4, <2>5
  <1>. QED
    BY <1>7, <1>8 DEF IInv

(***************************************************************************)
(* ProcJit::Tick returns to the loop.                                      *)
(***************************************************************************)
LEMMA BlockIInv ==
  ASSUME IInv, Block
  PROVE  IInv'
  <1>1. phase = "running"
    BY DEF Block
  <1>2. PICK p \in Procs : p = Current
    BY <1>1, RunningFacts
  <1>3. /\ Cur(p) <= Len(Program[p])
        /\ pc' = [pc EXCEPT ![p] = Cur(p)]
        /\ progress_made' = PassProgress(p)
        /\ phase' = "pass"
        /\ idx' = idx + 1
        /\ UNCHANGED <<queues, state, completed_procs, entry_pc, reset_len>>
    BY <1>2 DEF Block
  <1>4. TypeOK /\ idx \in 1..N /\ Cur(p) \in Nat
    BY <1>1, <1>2, RunningFacts DEF IInv
  <1>5. TypeOK'
    <2>1. progress_made' \in BOOLEAN
      BY <1>3 DEF PassProgress
    <2>2. pc' \in [Procs -> Nat] /\ \A q \in Procs : pc'[q] <= Len(Program[q]) + 1
      BY <1>3, <1>4 DEF TypeOK
    <2>3. idx' \in 1..N + 1
      BY <1>3, <1>4, NLen
    <2>. QED
      BY <1>3, <1>4, <2>1, <2>2, <2>3 DEF TypeOK
  <1>6. TickInv'
    BY <1>1, <1>3 DEF IInv, TickInv
  <1>7. SendReceiveBalance'
    <2>1. \A q \in Procs : \A d, k : Performed(q, d, k)' = Performed(q, d, k)
      BY <1>3, <1>4, PerformedStay
    <2>. QED
      BY <1>3, <2>1, BalanceKept
  <1>. QED
    BY <1>5, <1>6, <1>7 DEF IInv

LEMMA CompleteIInv ==
  ASSUME IInv, Complete
  PROVE  IInv'
  <1>1. phase = "running"
    BY DEF Complete
  <1>2. PICK p \in Procs : p = Current
    BY <1>1, RunningFacts
  <1>3. /\ Cur(p) > Len(Program[p])
        /\ pc' = [pc EXCEPT ![p] = 0]
        /\ state' = [state EXCEPT ![p] = @ + 1]
        /\ progress_made' = TRUE
        /\ completed_procs' = completed_procs \cup {p}
        /\ phase' = "pass"
        /\ idx' = idx + 1
        /\ UNCHANGED <<queues, entry_pc, reset_len>>
    BY <1>2 DEF Complete, RestartedContinuations
  <1>4. /\ TypeOK /\ idx \in 1..N /\ p \notin completed_procs
        /\ state[p] \in 0..MaxTicks - 1 /\ MaxTicks \in Nat
    BY <1>1, <1>2, RunningFacts DEF IInv
  <1>5. TypeOK'
    <2>1. state' \in [Procs -> 0..MaxTicks]
      BY <1>3, <1>4 DEF TypeOK
    <2>2. pc' \in [Procs -> Nat] /\ \A q \in Procs : pc'[q] <= Len(Program[q]) + 1
      BY <1>3, <1>4, ProgramType DEF TypeOK
    <2>3. idx' \in 1..N + 1
      BY <1>3, <1>4, NLen
    <2>. QED
      BY <1>3, <1>4, <2>1, <2>2, <2>3 DEF TypeOK
  <1>6. TickInv'
    <2>1. \A q \in Procs \ completed_procs' : state'[q] = state[q] /\ q # p
      BY <1>3, <1>4 DEF TypeOK
    <2>. QED
      BY <1>1, <1>3, <2>1 DEF IInv, TickInv
  <1>7. SendReceiveBalance'
    <2>1. \A q \in Procs : \A d, k : Performed(q, d, k)' = Performed(q, d, k)
      BY <1>3, <1>4, PerformedComplete
    <2>. QED
      BY <1>3, <2>1, BalanceKept
  <1>. QED
    BY <1>5, <1>6, <1>7 DEF IInv

LEMMA ResetStateIInv ==
  ASSUME IInv, ResetState
  PROVE  IInv'
  <1>1. TypeOK
    BY DEF IInv
  <1>2. TypeOK'
    <2>1. reset_len' \in [Channels -> Nat]
      BY <1>1 DEF ResetState, TypeOK
    <2>2. pc' \in [Procs -> Nat] /\ \A q \in Procs : pc'[q] <= Len(Program[q]) + 1
      BY ProgramType DEF ResetState
    <2>3. state' \in [Procs -> 0..MaxTicks]
      BY NetworkAssumption DEF ResetState
    <2>. QED
      BY <1>1, <2>1, <2>2, <2>3 DEF ResetState, TypeOK
  <1>3. TickInv'
    BY DEF ResetState, TickInv
  <1>4. SendReceiveBalance'
    <2>1. \A q \in Procs : \A d, k : Performed(q, d, k)' = 0
      BY PerformedReset DEF ResetState
    <2>2. \A c \in Channels, k \in {"send", "recv"} : PerformedOn(c, k)' = 0
      BY <2>1, EndpointProc DEF PerformedOn, Endpoint
    <2>3. \A c \in Channels : Len(queues'[c]) = reset_len'[c] /\ reset_len'[c] \in Nat
      BY <1>1 DEF ResetState, TypeOK
    <2>. QED
      BY <2>2, <2>3 DEF SendReceiveBalance, InternalFifos
  <1>. QED
    BY <1>2, <1>3, <1>4 DEF IInv

-----------------------------------------------------------------------------
LEMMA NextIInv == IInv /\ [Next]_vars => IInv'
  <1>. SUFFICES ASSUME IInv, [Next]_vars PROVE IInv'
    OBVIOUS
  <1>1. CASE StartTick
    BY <1>1, StartTickIInv
  <1>2. CASE TickStep
    <2>1. CASE SkipCompleted
      BY <2>1, SkipCompletedIInv
    <2>2. CASE InvokeProc
      BY <2>2, InvokeProcIInv
    <2>3. CASE NextPass
      BY <2>3, NextPassIInv
    <2>4. CASE TickReturn
      BY <2>4, TickReturnIInv
    <2>5. CASE SkipOp
      BY <2>5, SkipOpIInv
    <2>6. CASE Send
      BY <2>6, SendIInv
    <2>7. CASE Receive
      BY <2>7, ReceiveIInv
    <2>8. CASE Block
      BY <2>8, BlockIInv
    <2>9. CASE Complete
      BY <2>9, CompleteIInv
    <2>. QED
      BY <1>2, <2>1, <2>2, <2>3, <2>4, <2>5, <2>6, <2>7, <2>8, <2>9
      DEF TickStep
  <1>3. CASE \E c \in HostInputs, v \in HostValues : HostEnqueue(c, v)
    BY <1>3, HostEnqueueIInv
  <1>4. CASE \E c \in HostOutputs : HostDequeue(c)
    BY <1>4, HostDequeueIInv
  <1>5. CASE ResetState
    BY <1>5, ResetStateIInv
  <1>6. CASE UNCHANGED vars
    <2>1. \A q \in Procs : \A d, k : Performed(q, d, k)' = Performed(q, d, k)
      BY <1>6, UnchangedPerformed DEF vars
    <2>2. SendReceiveBalance'
      BY <1>6, <2>1, BalanceKept DEF vars
    <2>. QED
      BY <1>6, <2>2 DEF vars, IInv, TypeOK, TickInv, Current
  <1>. QED
    BY <1>1, <1>2, <1>3, <1>4, <1>5, <1>6 DEF Next

(***************************************************************************)
(* Exactly-once channel operations (spec sections 1 and 5), for every    *)
(* network of procs with one writer and one reader per channel: through  *)
(* every interleaving of Tick's passes (serial_proc_runtime.cc, Tick),   *)
(* suspensions at a receive, completed ticks, ResetState and host calls, *)
(* every FIFO queue between two procs holds its length at the last reset *)
(* plus the sends its writer has performed less the receives its reader  *)
(* has performed, as counted from the continuations; and the runtime's   *)
(* state keeps its type, the proc states within MaxTicks.                *)
(***************************************************************************)
THEOREM ExactlyOnceChannelOps == Spec => [](TypeOK /\ SendReceiveBalance)
  <1>1. Init => IInv
    BY InitIInv
  <1>2. IInv /\ [Next]_vars => IInv'
    BY NextIInv
  <1>3. IInv => TypeOK /\ SendReceiveBalance
    BY DEF IInv
  <1>. QED
    BY <1>1, <1>2, <1>3, PTL DEF Spec

=============================================================================
