------------------------- MODULE IOTestHarnessProofs -------------------------
(***************************************************************************)
(* Proof that TranslatorIOTest::IOTest (src/xls/dslx/mangle.h, lines     *)
(* 77-183) passes only tests whose expectation lists describe the         *)
(* function: HarnessSound, for every function and every pair of           *)
(* expectation lists, of any length, on any channels and data, when the   *)
(* interpreter returns the conditions and sent data of the io ops         *)
(* (GenInterpret).                                                         *)
(*                                                                         *)
(* The verifying loop (lines 142-178) checks the ops one by one and pops  *)
(* the expectation it used.  What it has established is kept by HIInv:    *)
(* after op_idx - 1 ops, the inputs still to check are the original       *)
(* inputs without the first RecvRank(ops, op_idx - 1), the outputs the    *)
(* original outputs without the first SendRank(ops, op_idx - 1), and      *)
(* every op already checked is described by the expectation of its rank.  *)
(* When both lists are empty at the end (lines 180-181), the ranks of the *)
(* last op are the lengths of the lists, and that is Matches.             *)
(***************************************************************************)
EXTENDS MC_IOTestHarness, FiniteSetTheorems, SequenceTheorems, TLAPS

\* The expectations of list s that the loop has not yet popped, after k.
Unchecked(s, k) == SubSeq(s, k + 1, Len(s))

\* The elements the harness splits the interpreted result into.
OpResults == [k \in 1..Len(Ops) |-> OpResult(Ops[k])]

HIInv ==
  /\ case \in Cases
  /\ pc \in {"count", "pack", "verify", "done"}
  /\ outcome \in Outcomes
  /\ outcome # "running" => pc = "done"
  /\ outcome = "passed" => Matches(case)
  /\ pc \in {"count", "pack"} => outputs = case.outputs
  /\ pc = "pack" => Len(Ops) = TotalTestOps /\ idx \in 1..Len(Ops) + 1
  /\ pc = "verify" =>
       /\ idx \in 1..Len(Ops) + 1
       /\ returns = OpResults
       /\ RecvRank(Ops, idx - 1) <= Len(case.inputs)
       /\ SendRank(Ops, idx - 1) <= Len(case.outputs)
       /\ inputs = Unchecked(case.inputs, RecvRank(Ops, idx - 1))
       /\ outputs = Unchecked(case.outputs, SendRank(Ops, idx - 1))
       /\ \A k \in RecvIndices(Ops) : k < idx => RecvDescribed(case, k)
       /\ \A k \in SendIndices(Ops) : k < idx => SendDescribed(case, k)

-----------------------------------------------------------------------------
(***************************************************************************)
(* Ranks.  The rank of an op among the receives (or the sends) counts     *)
(* the receives up to it; it grows by one at each receive.                 *)
(***************************************************************************)
Upto(I, n) == {m \in I : m <= n}

LEMMA CountFinite ==
  ASSUME NEW L \in Nat, NEW I \in SUBSET (1..L), NEW n \in Int
  PROVE  /\ IsFiniteSet(Upto(I, n))
         /\ Cardinality(Upto(I, n)) \in Nat
  <1>1. IsFiniteSet(1..L)
    BY FS_Interval
  <1>2. IsFiniteSet(Upto(I, n))
    BY <1>1, FS_Subset DEF Upto
  <1>. QED
    BY <1>2, FS_CardinalityType

LEMMA CountStep ==
  ASSUME NEW L \in Nat, NEW I \in SUBSET (1..L), NEW n \in 0..L - 1
  PROVE  Cardinality(Upto(I, n + 1))
           = Cardinality(Upto(I, n)) + (IF n + 1 \in I THEN 1 ELSE 0)
  <1>0. n \in Int
    OBVIOUS
  <1>1. IsFiniteSet(Upto(I, n)) /\ Cardinality(Upto(I, n)) \in Nat
    BY <1>0, CountFinite, Zenon
  <1>2. CASE n + 1 \in I
    <2>1. Upto(I, n + 1) = Upto(I, n) \cup {n + 1}
      <3>1. \A m \in I : m <= n + 1 <=> (m <= n \/ m = n + 1)
        OBVIOUS
      <3>. QED
        BY <1>2, <3>1, Zenon DEF Upto
    <2>2. n + 1 \notin Upto(I, n)
      BY DEF Upto
    <2>. QED
      BY <1>1, <1>2, <2>1, <2>2, FS_AddElement
  <1>3. CASE n + 1 \notin I
    <2>1. Upto(I, n + 1) = Upto(I, n)
      <3>1. \A m \in I : m <= n + 1 <=> (m <= n \/ m = n + 1)
        OBVIOUS
      <3>. QED
        BY <1>3, <3>1, Zenon DEF Upto
    <2>. QED
      BY <1>1, <1>3, <2>1
  <1>. QED
    BY <1>2, <1>3

LEMMA CountEnds ==
  ASSUME NEW L \in Nat, NEW I \in SUBSET (1..L)
  PROVE  /\ Cardinality(Upto(I, 0)) = 0
         /\ Cardinality(Upto(I, L)) = Cardinality(I)
  <1>1. Upto(I, 0) = {}
    <2>1. \A m \in I : ~(m <= 0)
      OBVIOUS
    <2>. QED
      BY <2>1, Zenon DEF Upto
  <1>2. Upto(I, L) = I
    <2>1. \A m \in I : m <= L
      OBVIOUS
    <2>. QED
      BY <2>1, Zenon DEF Upto
  <1>. QED
    BY <1>1, <1>2, FS_EmptySet

\* What CasesAssumption gives about the call under test.
LEMMA CaseFacts ==
  ASSUME case \in Cases
  PROVE  /\ Ops \in Seq(IOOps)
         /\ case.inputs \in Seq(IOOpTestRecords)
         /\ case.outputs \in Seq(IOOpTestRecords)
         /\ RecvIndices(Ops) \in SUBSET (1..Len(Ops))
         /\ SendIndices(Ops) \in SUBSET (1..Len(Ops))
  BY CasesAssumption DEF Ops, RecvIndices, SendIndices

LEMMA RankStep ==
  ASSUME case \in Cases, NEW k \in 1..Len(Ops)
  PROVE  /\ RecvRank(Ops, k - 1) \in Nat
         /\ SendRank(Ops, k - 1) \in Nat
         /\ RecvRank(Ops, k) = RecvRank(Ops, k - 1) + (IF Ops[k].op = "recv" THEN 1 ELSE 0)
         /\ SendRank(Ops, k) = SendRank(Ops, k - 1) + (IF Ops[k].op = "send" THEN 1 ELSE 0)
  <1>1. /\ Len(Ops) \in Nat
        /\ RecvIndices(Ops) \in SUBSET (1..Len(Ops))
        /\ SendIndices(Ops) \in SUBSET (1..Len(Ops))
    BY CaseFacts, LenProperties
  <1>2. k - 1 \in 0..Len(Ops) - 1 /\ k - 1 + 1 = k
    OBVIOUS
  <1>3. k \in RecvIndices(Ops) <=> Ops[k].op = "recv"
    BY DEF RecvIndices
  <1>4. k \in SendIndices(Ops) <=> Ops[k].op = "send"
    BY DEF SendIndices
  <1>5. Cardinality(Upto(RecvIndices(Ops), k))
          = Cardinality(Upto(RecvIndices(Ops), k - 1))
            + (IF k \in RecvIndices(Ops) THEN 1 ELSE 0)
    BY <1>1, <1>2, CountStep
  <1>6. Cardinality(Upto(SendIndices(Ops), k))
          = Cardinality(Upto(SendIndices(Ops), k - 1))
            + (IF k \in SendIndices(Ops) THEN 1 ELSE 0)
    BY <1>1, <1>2, CountStep
  <1>7. /\ Cardinality(Upto(RecvIndices(Ops), k - 1)) \in Nat
        /\ Cardinality(Upto(SendIndices(Ops), k - 1)) \in Nat
    <2>1. k - 1 \in Int
      OBVIOUS
    <2>. QED
      BY <1>1, <2>1, CountFinite, Zenon
  <1>8. /\ RecvRank(Ops, k) = Cardinality(Upto(RecvIndices(Ops), k))
        /\ RecvRank(Ops, k - 1) = Cardinality(Upto(RecvIndices(Ops), k - 1))
        /\ SendRank(Ops, k) = Cardinality(Upto(SendIndices(Ops), k))
        /\ SendRank(Ops, k - 1) = Cardinality(Upto(SendIndices(Ops), k - 1))
    BY DEF RecvRank, SendRank, Upto
  <1>. QED
    BY <1>3, <1>4, <1>5, <1>6, <1>7, <1>8

LEMMA RankEnds ==
  ASSUME case \in Cases
  PROVE  /\ RecvRank(Ops, 0) = 0
         /\ SendRank(Ops, 0) = 0
         /\ RecvRank(Ops, Len(Ops)) = Cardinality(RecvIndices(Ops))
         /\ SendRank(Ops, Len(Ops)) = Cardinality(SendIndices(Ops))
  <1>1. /\ Len(Ops) \in Nat
        /\ RecvIndices(Ops) \in SUBSET (1..Len(Ops))
        /\ SendIndices(Ops) \in SUBSET (1..Len(Ops))
    BY CaseFacts, LenProperties
  <1>. QED
    BY <1>1, CountEnds DEF RecvRank, SendRank, Upto

-----------------------------------------------------------------------------
(***************************************************************************)
(* The unchecked rest of an expectation list.  Popping its front          *)
(* (inputs.pop_front(), line 163) leaves the rest after one more          *)
(* expectation, and it is empty exactly when all of the list is checked.  *)
(***************************************************************************)
LEMMA UncheckedAll ==
  ASSUME NEW S, NEW s \in Seq(S)
  PROVE  Unchecked(s, 0) = s
  <1>1. Unchecked(s, 0) = SubSeq(s, 1, Len(s))
    BY DEF Unchecked
  <1>. QED
    BY <1>1, SubSeqFull

LEMMA UncheckedPop ==
  ASSUME NEW S, NEW s \in Seq(S), NEW r \in Nat, Unchecked(s, r) # << >>
  PROVE  /\ r + 1 \in 1..Len(s)
         /\ Head(Unchecked(s, r)) = s[r + 1]
         /\ Tail(Unchecked(s, r)) = Unchecked(s, r + 1)
  <1>1. Len(s) \in Nat
    BY LenProperties
  <1>2. r + 1 <= Len(s)
    <2>1. SUFFICES ASSUME Len(s) < r + 1 PROVE FALSE
      BY <1>1
    <2>2. r + 1 \in Int /\ Len(s) \in Int
      BY <1>1
    <2>3. SubSeq(s, r + 1, Len(s)) = << >>
      BY <2>1, <2>2, SubSeqEmpty
    <2>. QED
      BY <2>3 DEF Unchecked
  <1>3. r + 1 \in 1..Len(s) /\ Len(s) \in (r + 1)..Len(s)
    BY <1>1, <1>2
  <1>4. /\ Head(SubSeq(s, r + 1, Len(s))) = s[r + 1]
        /\ Tail(SubSeq(s, r + 1, Len(s))) = SubSeq(s, r + 1 + 1, Len(s))
    BY <1>3, HeadTailOfSubSeq
  <1>. QED
    BY <1>3, <1>4 DEF Unchecked

LEMMA UncheckedEmpty ==
  ASSUME NEW S, NEW s \in Seq(S), NEW r \in 0..Len(s)
  PROVE  Unchecked(s, r) = << >> <=> r = Len(s)
  <1>1. Len(s) \in Nat
    BY LenProperties
  <1>2. \A i \in r + 1..Len(s) : s[i] \in S
    BY <1>1, ElementOfSeq
  <1>3. Len(SubSeq(s, r + 1, Len(s))) = IF r + 1 <= Len(s) THEN Len(s) - r ELSE 0
    <2>1. r + 1 \in Int /\ Len(s) \in Int
      BY <1>1
    <2>2. Len(SubSeq(s, r + 1, Len(s)))
            = IF r + 1 <= Len(s) THEN Len(s) - (r + 1) + 1 ELSE 0
      BY <1>2, <2>1, SubSeqProperties
    <2>. QED
      BY <2>2, <1>1
  <1>4. SubSeq(s, r + 1, Len(s)) \in Seq(S)
    BY <1>1, <1>2, SubSeqProperties
  <1>5. \A t \in Seq(S) : t = << >> <=> Len(t) = 0
    BY EmptySeq, LenProperties
  <1>6. SubSeq(s, r + 1, Len(s)) = << >> <=> Len(SubSeq(s, r + 1, Len(s))) = 0
    BY <1>4, <1>5, Zenon
  <1>7. Len(SubSeq(s, r + 1, Len(s))) = 0 <=> r = Len(s)
    BY <1>1, <1>3
  <1>. QED
    BY <1>6, <1>7 DEF Unchecked

-----------------------------------------------------------------------------
(***************************************************************************)
(* The steps that do not verify an op.                                    *)
(***************************************************************************)
LEMMA InitHIInv == Init => HIInv
  BY DEF Init, HIInv, Outcomes

\* An ASSERT failure, a CHECK abort or UB ends the call without a pass.
LEMMA StopHIInv ==
  ASSUME HIInv, pc \in {"count", "pack", "verify"},
         NEW o \in {"failed", "crashed", "ub"}, Stop(o), UNCHANGED case
  PROVE  HIInv'
  BY DEF HIInv, Stop, Outcomes

LEMMA CheckOpCountHIInv ==
  ASSUME HIInv, CheckOpCount
  PROVE  HIInv'
  <1>1. case \in Cases /\ pc = "count" /\ case' = case
    BY DEF HIInv, CheckOpCount
  <1>2. Len(Ops) \in Nat
    BY <1>1, CaseFacts, LenProperties
  <1>3. CASE Len(Ops) # TotalTestOps /\ Stop("failed")
    BY <1>1, <1>3, StopHIInv
  <1>4. CASE Len(Ops) = TotalTestOps /\ pc' = "pack" /\ idx' = 1
             /\ UNCHANGED <<inputs, outputs, args, returns, outcome>>
    <2>1. Ops' = Ops /\ TotalTestOps' = TotalTestOps
      BY <1>1 DEF Ops, TotalTestOps
    <2>. QED
      BY <1>1, <1>2, <1>4, <2>1 DEF HIInv
  <1>. QED
    BY <1>3, <1>4 DEF CheckOpCount

\* One iteration of the packing loop that goes on to the next op.
LEMMA PackStepHIInv ==
  ASSUME HIInv, pc = "pack", idx <= Len(Ops), idx' = idx + 1,
         UNCHANGED <<case, pc, outputs, returns, outcome>>
  PROVE  HIInv'
  <1>1. case \in Cases /\ Len(Ops) \in Nat
    BY CaseFacts, LenProperties DEF HIInv
  <1>2. Ops' = Ops /\ TotalTestOps' = TotalTestOps
    BY DEF Ops, TotalTestOps
  <1>. QED
    BY <1>1, <1>2 DEF HIInv

LEMMA PackOpHIInv ==
  ASSUME HIInv, PackOp
  PROVE  HIInv'
  <1>1. pc = "pack" /\ idx <= Len(Ops) /\ case' = case
    BY DEF PackOp
  <1>. QED
    BY <1>1, StopHIInv, PackStepHIInv DEF PackOp

(***************************************************************************)
(* The interpreter: the translated function returns, for every call and  *)
(* every kwargs, the conditions and sent data of its io ops.               *)
(***************************************************************************)
InterpretIsGen == \A c \in Cases : \A a : Interpret(c, a) = GenInterpret(c, a)

\* Lines 130-136 split the result back into one element per io op.
LEMMA ResultsSplit ==
  ASSUME case \in Cases, Len(Ops) = TotalTestOps,
         Len(Results(FunctionResult(OpResults))) = TotalTestOps
  PROVE  Results(FunctionResult(OpResults)) = OpResults
  <1>1. Len(Ops) \in Nat /\ OpResults \in Seq(UNION {{OpResult(o)} : o \in IOOps})
    <2>1. Ops \in Seq(IOOps)
      BY CaseFacts
    <2>2. Len(Ops) \in Nat
      BY <2>1, LenProperties
    <2>3. \A k \in 1..Len(Ops) : OpResult(Ops[k]) \in UNION {{OpResult(o)} : o \in IOOps}
      BY <2>1, ElementOfSeq
    <2>. QED
      BY <2>2, <2>3, IsASeq DEF OpResults
  <1>2. Len(OpResults) = Len(Ops) /\ DOMAIN OpResults = 1..Len(Ops)
    BY <1>1, LenProperties DEF OpResults
  <1>3. CASE TotalTestOps > 1
    <2>1. FunctionResult(OpResults) = Tuple(OpResults)
      BY <1>2, <1>3 DEF FunctionResult
    <2>. QED
      BY <1>3, <2>1 DEF Results, Tuple
  <1>4. CASE ~(TotalTestOps > 1)
    <2>1. Results(FunctionResult(OpResults)) = <<FunctionResult(OpResults)>>
      BY <1>4 DEF Results
    <2>2. Len(Ops) = 1
      BY <1>4, <2>1
    <2>3. FunctionResult(OpResults) = OpResults[1]
      BY <1>2, <2>2 DEF FunctionResult
    <2>4. OpResults = <<OpResults[1]>>
      <3>1. OpResults = [k \in 1..1 |-> OpResult(Ops[k])]
        BY <2>2 DEF OpResults
      <3>. QED
        BY <3>1
    <2>. QED
      BY <2>1, <2>3, <2>4
  <1>. QED
    BY <1>3, <1>4

LEMMA InterpretFunctionHIInv ==
  ASSUME InterpretIsGen, HIInv, InterpretFunction
  PROVE  HIInv'
  <1>1. /\ case \in Cases /\ pc = "pack" /\ case' = case
        /\ Len(Ops) = TotalTestOps /\ idx \in 1..Len(Ops) + 1
        /\ outputs = case.outputs
    BY DEF HIInv, InterpretFunction
  <1>2. Interpret(case, args) = FunctionResult(OpResults)
    <2>1. Interpret(case, args) = GenInterpret(case, args)
      BY <1>1 DEF InterpretIsGen
    <2>. QED
      BY <2>1 DEF GenInterpret, OpResults, Ops
  <1>3. CASE /\ \/ TotalTestOps > 1 /\ ~IsTuple(Interpret(case, args))
                \/ Len(Results(Interpret(case, args))) # TotalTestOps
             /\ Stop("failed")
    BY <1>1, <1>3, StopHIInv
  <1>4. CASE /\ TotalTestOps > 1 => IsTuple(Interpret(case, args))
             /\ Len(Results(Interpret(case, args))) = TotalTestOps
             /\ returns' = Results(Interpret(case, args))
             /\ inputs' = case.inputs
             /\ pc' = "verify" /\ idx' = 1
             /\ UNCHANGED <<outputs, args, outcome>>
    <2>1. returns' = OpResults
      BY <1>1, <1>2, <1>4, ResultsSplit
    <2>2. /\ case.inputs \in Seq(IOOpTestRecords)
          /\ case.outputs \in Seq(IOOpTestRecords)
          /\ Len(case.inputs) \in Nat /\ Len(case.outputs) \in Nat
      BY <1>1, CaseFacts, LenProperties
    <2>3. RecvRank(Ops, 0) = 0 /\ SendRank(Ops, 0) = 0
      BY <1>1, RankEnds
    <2>4. inputs' = Unchecked(case.inputs, 0) /\ outputs' = Unchecked(case.outputs, 0)
      BY <1>1, <1>4, <2>2, UncheckedAll
    <2>5. Len(Ops) \in Nat
      BY <1>1, CaseFacts, LenProperties
    <2>6. /\ Ops' = Ops /\ OpResults' = OpResults
          /\ \A k \in RecvIndices(Ops) : ~(k < 1)
          /\ \A k \in SendIndices(Ops) : ~(k < 1)
      BY <1>1 DEF Ops, OpResults, RecvIndices, SendIndices
    <2>. QED
      BY <1>1, <1>4, <2>1, <2>2, <2>3, <2>4, <2>5, <2>6 DEF HIInv
  <1>. QED
    BY <1>3, <1>4 DEF InterpretFunction

-----------------------------------------------------------------------------
(***************************************************************************)
(* The verifying loop.  A receive whose element agrees with the front     *)
(* input pops it (lines 145-163): the op it checked is now described by   *)
(* the input of its rank, and the unchecked inputs start one later.       *)
(***************************************************************************)
\* What HIInv says of the loop after op_idx - 1 ops, in a step that moves on.
LEMMA VerifyFacts ==
  ASSUME HIInv, pc = "verify", idx <= Len(Ops)
  PROVE  /\ case \in Cases
         /\ Ops \in Seq(IOOps) /\ Len(Ops) \in Nat /\ idx \in 1..Len(Ops)
         /\ case.inputs \in Seq(IOOpTestRecords)
         /\ case.outputs \in Seq(IOOpTestRecords)
         /\ Ops[idx] \in IOOps
         /\ RecvRank(Ops, idx - 1) \in Nat /\ SendRank(Ops, idx - 1) \in Nat
         /\ RecvRank(Ops, idx)
              = RecvRank(Ops, idx - 1) + (IF Ops[idx].op = "recv" THEN 1 ELSE 0)
         /\ SendRank(Ops, idx)
              = SendRank(Ops, idx - 1) + (IF Ops[idx].op = "send" THEN 1 ELSE 0)
         /\ returns[idx] = OpResult(Ops[idx])
  <1>1. case \in Cases /\ idx \in 1..Len(Ops) + 1 /\ returns = OpResults
    BY DEF HIInv
  <1>2. Ops \in Seq(IOOps) /\ Len(Ops) \in Nat
        /\ case.inputs \in Seq(IOOpTestRecords)
        /\ case.outputs \in Seq(IOOpTestRecords)
    BY <1>1, CaseFacts, LenProperties
  <1>3. idx \in 1..Len(Ops)
    BY <1>1, <1>2
  <1>4. Ops[idx] \in IOOps
    BY <1>2, <1>3, ElementOfSeq
  <1>5. /\ RecvRank(Ops, idx - 1) \in Nat /\ SendRank(Ops, idx - 1) \in Nat
        /\ RecvRank(Ops, idx)
             = RecvRank(Ops, idx - 1) + (IF Ops[idx].op = "recv" THEN 1 ELSE 0)
        /\ SendRank(Ops, idx)
             = SendRank(Ops, idx - 1) + (IF Ops[idx].op = "send" THEN 1 ELSE 0)
    BY <1>1, <1>3, RankStep, Zenon
  <1>6. returns[idx] = OpResult(Ops[idx])
    BY <1>1, <1>3 DEF OpResults
  <1>. QED
    BY <1>1, <1>2, <1>3, <1>4, <1>5, <1>6

LEMMA VerifyRecvHIInv ==
  ASSUME HIInv, pc = "verify", idx <= Len(Ops), Op.op = "recv",
         inputs # << >>, Head(inputs).name = Op.channel,
         RecvReturnOk(returns[idx], Head(inputs)),
         inputs' = Tail(inputs), outputs' = outputs, idx' = idx + 1,
         UNCHANGED <<case, pc, args, returns, outcome>>
  PROVE  HIInv'
  <1> DEFINE RR == RecvRank(Ops, idx - 1)
             SR == SendRank(Ops, idx - 1)
  <1>1. /\ case \in Cases
        /\ Ops \in Seq(IOOps) /\ Len(Ops) \in Nat /\ idx \in 1..Len(Ops)
        /\ case.inputs \in Seq(IOOpTestRecords)
        /\ Ops[idx] \in IOOps
        /\ RR \in Nat /\ SR \in Nat
        /\ RecvRank(Ops, idx) = RR + 1 /\ SendRank(Ops, idx) = SR
        /\ returns[idx] = OpResult(Ops[idx])
    BY VerifyFacts DEF Op
  <1>2. inputs = Unchecked(case.inputs, RR) /\ RR <= Len(case.inputs)
    BY DEF HIInv
  <1>3. /\ RR + 1 \in 1..Len(case.inputs)
        /\ Head(inputs) = case.inputs[RR + 1]
        /\ Tail(inputs) = Unchecked(case.inputs, RR + 1)
    BY <1>1, <1>2, UncheckedPop, Zenon
  <1>4. RecvDescribed(case, idx)
    <2>1. case.inputs[RR + 1] \in IOOpTestRecords
      BY <1>1, <1>3, ElementOfSeq
    <2>2. CondBits(Ops[idx].cond) = CondBits(case.inputs[RR + 1].condition)
      BY <1>1, <1>3 DEF RecvReturnOk, OpResult, Op, Bits
    <2>3. Ops[idx].cond = case.inputs[RR + 1].condition
      <3>1. Ops[idx].cond \in BOOLEAN /\ case.inputs[RR + 1].condition \in BOOLEAN
        BY <1>1, <2>1 DEF IOOps, IOOpTestRecords
      <3>. QED
        BY ONLY <2>2, <3>1 DEF CondBits
    <2>4. Ops[idx].channel = case.inputs[RR + 1].name
      BY <1>3 DEF Op
    <2>. QED
      BY <1>1, <2>3, <2>4 DEF RecvDescribed, Describes, Ops
  <1>5. \A k \in RecvIndices(Ops) : k < idx + 1 => RecvDescribed(case, k)
    <2>1. \A k \in RecvIndices(Ops) : k < idx + 1 => k < idx \/ k = idx
      BY <1>1 DEF RecvIndices
    <2>. QED
      BY <1>4, <2>1, Zenon DEF HIInv
  <1>6. \A k \in SendIndices(Ops) : k < idx + 1 => SendDescribed(case, k)
    <2>1. \A k \in SendIndices(Ops) : k < idx + 1 => k < idx
      BY <1>1 DEF SendIndices, Op
    <2>. QED
      BY <2>1, Zenon DEF HIInv
  <1>7. Ops' = Ops /\ OpResults' = OpResults /\ idx' - 1 = idx
    BY <1>1 DEF Ops, OpResults
  <1>. QED
    BY <1>1, <1>2, <1>3, <1>5, <1>6, <1>7 DEF HIInv

(***************************************************************************)
(* A send whose element agrees with the front output pops it (lines      *)
(* 164-175): its condition, and its data when it sent, are those of the  *)
(* output of its rank.                                                     *)
(***************************************************************************)
LEMMA VerifySendHIInv ==
  ASSUME HIInv, pc = "verify", idx <= Len(Ops), Op.op = "send",
         outputs # << >>, Head(outputs).name = Op.channel,
         SendReturnOk(returns[idx], Head(outputs)),
         outputs' = Tail(outputs), inputs' = inputs, idx' = idx + 1,
         UNCHANGED <<case, pc, args, returns, outcome>>
  PROVE  HIInv'
  <1> DEFINE RR == RecvRank(Ops, idx - 1)
             SR == SendRank(Ops, idx - 1)
  <1>1. /\ case \in Cases
        /\ Ops \in Seq(IOOps) /\ Len(Ops) \in Nat /\ idx \in 1..Len(Ops)
        /\ case.outputs \in Seq(IOOpTestRecords)
        /\ Ops[idx] \in IOOps
        /\ RR \in Nat /\ SR \in Nat
        /\ RecvRank(Ops, idx) = RR /\ SendRank(Ops, idx) = SR + 1
        /\ returns[idx] = OpResult(Ops[idx])
    BY VerifyFacts DEF Op
  <1>2. outputs = Unchecked(case.outputs, SR) /\ SR <= Len(case.outputs)
    BY DEF HIInv
  <1>3. /\ SR + 1 \in 1..Len(case.outputs)
        /\ Head(outputs) = case.outputs[SR + 1]
        /\ Tail(outputs) = Unchecked(case.outputs, SR + 1)
    BY <1>1, <1>2, UncheckedPop, Zenon
  <1>4. SendDescribed(case, idx)
    <2> DEFINE o == Ops[idx]
               t == case.outputs[SR + 1]
    <2>1. t \in IOOpTestRecords
      BY <1>1, <1>3, ElementOfSeq
    <2>2. returns[idx] = Tuple(<<Bits(o.data), Bits(CondBits(o.cond))>>)
      BY <1>1 DEF OpResult, Op
    <2>3. /\ CondBits(o.cond) = CondBits(t.condition)
          /\ CondBits(o.cond) # 0 => Bits(o.data) = t.value
      BY <1>3, <2>2 DEF SendReturnOk, Tuple, Bits
    <2>4. o.cond = t.condition /\ (o.cond => Bits(o.data) = t.value)
      <3>1. o.cond \in BOOLEAN /\ t.condition \in BOOLEAN
        BY <1>1, <2>1 DEF IOOps, IOOpTestRecords
      <3>2. o.cond = t.condition
        BY ONLY <2>3, <3>1 DEF CondBits
      <3>. QED
        BY ONLY <2>3, <3>1, <3>2 DEF CondBits
    <2>5. o.channel = t.name
      BY <1>3 DEF Op
    <2>. QED
      BY <1>1, <2>4, <2>5 DEF SendDescribed, Describes, Ops
  <1>5. \A k \in SendIndices(Ops) : k < idx + 1 => SendDescribed(case, k)
    <2>1. \A k \in SendIndices(Ops) : k < idx + 1 => k < idx \/ k = idx
      BY <1>1 DEF SendIndices
    <2>. QED
      BY <1>4, <2>1, Zenon DEF HIInv
  <1>6. \A k \in RecvIndices(Ops) : k < idx + 1 => RecvDescribed(case, k)
    <2>1. \A k \in RecvIndices(Ops) : k < idx + 1 => k < idx
      BY <1>1 DEF RecvIndices, Op
    <2>. QED
      BY <2>1, Zenon DEF HIInv
  <1>7. Ops' = Ops /\ OpResults' = OpResults /\ idx' - 1 = idx
    BY <1>1 DEF Ops, OpResults
  <1>. QED
    BY <1>1, <1>2, <1>3, <1>5, <1>6, <1>7 DEF HIInv

LEMMA VerifyOpHIInv ==
  ASSUME HIInv, VerifyOp
  PROVE  HIInv'
  <1>1. pc = "verify" /\ idx <= Len(Ops) /\ case' = case
    BY DEF VerifyOp
  <1>2. Op.op \in {"recv", "send"}
    BY <1>1, VerifyFacts DEF Op, IOOps
  <1>3. CASE Op.op = "recv"
    <2>1. Expected = inputs /\ \A r, t : ReturnOk(r, t) = RecvReturnOk(r, t)
      BY <1>3 DEF Expected, ReturnOk
    <2>. QED
      BY <1>1, <1>3, <2>1, StopHIInv, VerifyRecvHIInv DEF VerifyOp
  <1>4. CASE Op.op = "send"
    <2>1. Expected = outputs /\ \A r, t : ReturnOk(r, t) = SendReturnOk(r, t)
      BY <1>4 DEF Expected, ReturnOk
    <2>. QED
      BY <1>1, <1>4, <2>1, StopHIInv, VerifySendHIInv DEF VerifyOp
  <1>. QED
    BY <1>2, <1>3, <1>4

(***************************************************************************)
(* Lines 180-181: the call passes only when both lists are drained, and   *)
(* then every expectation has been used: the ranks of the last op are the *)
(* lengths of the lists, and every op is described.                        *)
(***************************************************************************)
LEMMA CheckDrainedHIInv ==
  ASSUME HIInv, CheckDrained
  PROVE  HIInv'
  <1>1. pc = "verify" /\ idx > Len(Ops) /\ case' = case
    BY DEF CheckDrained
  <1>2. CASE ~(inputs = << >> /\ outputs = << >>)
    <2>1. Stop("failed")
      BY <1>2 DEF CheckDrained
    <2>. QED
      BY <1>1, <2>1, StopHIInv
  <1>3. CASE inputs = << >> /\ outputs = << >>
    <2>1. /\ case \in Cases /\ Len(Ops) \in Nat /\ idx = Len(Ops) + 1
          /\ case.inputs \in Seq(IOOpTestRecords)
          /\ case.outputs \in Seq(IOOpTestRecords)
      BY <1>1, CaseFacts, LenProperties DEF HIInv
    <2>2. /\ RecvRank(Ops, Len(Ops)) = Cardinality(RecvIndices(Ops))
          /\ SendRank(Ops, Len(Ops)) = Cardinality(SendIndices(Ops))
      BY <2>1, RankEnds
    <2>3. /\ inputs = Unchecked(case.inputs, RecvRank(Ops, Len(Ops)))
          /\ outputs = Unchecked(case.outputs, SendRank(Ops, Len(Ops)))
          /\ RecvRank(Ops, Len(Ops)) <= Len(case.inputs)
          /\ SendRank(Ops, Len(Ops)) <= Len(case.outputs)
          /\ \A k \in RecvIndices(Ops) : RecvDescribed(case, k)
          /\ \A k \in SendIndices(Ops) : SendDescribed(case, k)
      <3>1. \A k \in RecvIndices(Ops) \cup SendIndices(Ops) : k < idx
        BY <2>1 DEF RecvIndices, SendIndices
      <3>. QED
        BY <1>1, <2>1, <3>1 DEF HIInv
    <2>4. /\ RecvRank(Ops, Len(Ops)) \in 0..Len(case.inputs)
          /\ SendRank(Ops, Len(Ops)) \in 0..Len(case.outputs)
      <3>1. IsFiniteSet(RecvIndices(Ops)) /\ IsFiniteSet(SendIndices(Ops))
        <4>1. IsFiniteSet(1..Len(Ops))
          BY FS_Interval
        <4>. QED
          BY <2>1, <4>1, CaseFacts, FS_Subset
      <3>. QED
        BY <2>2, <2>3, <3>1, FS_CardinalityType
    <2>5. /\ Cardinality(RecvIndices(Ops)) = Len(case.inputs)
          /\ Cardinality(SendIndices(Ops)) = Len(case.outputs)
      <3>1. RecvRank(Ops, Len(Ops)) = Len(case.inputs)
        BY <1>3, <2>1, <2>3, <2>4, UncheckedEmpty, Zenon
      <3>2. SendRank(Ops, Len(Ops)) = Len(case.outputs)
        BY <1>3, <2>1, <2>3, <2>4, UncheckedEmpty, Zenon
      <3>. QED
        BY <2>2, <3>1, <3>2
    <2>6. Matches(case)
      BY <2>3, <2>5 DEF Matches, Ops
    <2>7. Stop("passed")
      BY <1>3 DEF CheckDrained
    <2>. QED
      BY <1>1, <2>1, <2>6, <2>7 DEF HIInv, Stop, Outcomes
  <1>. QED
    BY <1>2, <1>3

-----------------------------------------------------------------------------
LEMMA NextHIInv ==
  ASSUME InterpretIsGen, HIInv, [Next]_vars
  PROVE  HIInv'
  <1>1. CASE CheckOpCount
    BY <1>1, CheckOpCountHIInv
  <1>2. CASE PackOp
    BY <1>2, PackOpHIInv
  <1>3. CASE InterpretFunction
    BY <1>3, InterpretFunctionHIInv
  <1>4. CASE VerifyOp
    BY <1>4, VerifyOpHIInv
  <1>5. CASE CheckDrained
    BY <1>5, CheckDrainedHIInv
  <1>6. CASE UNCHANGED vars
    BY <1>6 DEF vars, HIInv, Ops, OpResults, TotalTestOps
  <1>. QED
    BY <1>1, <1>2, <1>3, <1>4, <1>5, <1>6 DEF Next

(***************************************************************************)
(* TranslatorIOTest::IOTest (src/xls/dslx/mangle.h, lines 77-183) passes *)
(* only a test whose expectation lists describe the function: for every   *)
(* function, of any number of io ops on any channels, and every pair of   *)
(* expectation lists, when the interpreter returns the conditions and     *)
(* sent data of the io ops, a passing call has matched each receive with  *)
(* the input of its rank and each send with the output of its rank        *)
(* (channel, condition, and data when sent), and left no expectation      *)
(* unused.                                                                 *)
(***************************************************************************)
THEOREM HarnessSoundForAllTests ==
  ASSUME InterpretIsGen
  PROVE  Spec => []HarnessSound
  <1>1. Init => HIInv
    BY InitHIInv
  <1>2. HIInv /\ [Next]_vars => HIInv'
    BY NextHIInv
  <1>3. HIInv => HarnessSound
    BY DEF HIInv, HarnessSound
  <1>. QED
    BY <1>1, <1>2, <1>3, PTL DEF Spec

-----------------------------------------------------------------------------
(***************************************************************************)
(* The packing loop (lines 93-121).  After op_idx - 1 ops, the argument  *)
(* of a name holds the inputs of the receives of that name seen so far:  *)
(* none (the name is not a kwarg yet), the one input itself, or a tuple   *)
(* of them in the order of the receives.                                   *)
(***************************************************************************)
\* The kwarg names the receives of call c's function read.
ArgNames(c) == {OpName(c.ops, m) : m \in RecvIndices(c.ops)}
\* The receives before op j whose argument has name nm.
RecvNamed(c, nm, j) == {m \in RecvIndices(c.ops) : OpName(c.ops, m) = nm /\ m < j}
\* The input the m-th op receives.
InputOf(c, m) == c.inputs[RecvRank(c.ops, m)].value

\* The kwarg a holds, under name nm, the inputs of the receives of that
\* name before op j.
PackedFor(c, nm, j, a) ==
  LET B == RecvNamed(c, nm, j) IN
  /\ nm \in DOMAIN a <=> B # {}
  /\ Cardinality(B) = 1 =>
       /\ a[nm] \in IOValues /\ IsBits(a[nm])
       /\ \A m \in B : a[nm] = InputOf(c, m)
  /\ Cardinality(B) > 1 =>
       /\ IsTuple(a[nm]) /\ a[nm].elems \in Seq(IOValues)
       /\ Len(a[nm].elems) = Cardinality(B)
       /\ \A m \in B : a[nm].elems[Cardinality(RecvNamed(c, nm, m + 1))] = InputOf(c, m)

ArgsPacked == \A nm \in ArgNames(case) : PackedFor(case, nm, idx, args)

AIInv ==
  /\ case \in Cases
  /\ pc \in {"count", "pack", "verify", "done"}
  /\ pc = "count" => inputs = case.inputs /\ args = case.args
  /\ pc = "pack" =>
       /\ idx \in 1..Len(Ops) + 1
       /\ RecvRank(Ops, idx - 1) <= Len(case.inputs)
       /\ inputs = Unchecked(case.inputs, RecvRank(Ops, idx - 1))
       /\ ArgsPacked

LEMMA NamedFinite ==
  ASSUME case \in Cases, NEW nm, NEW j
  PROVE  /\ RecvNamed(case, nm, j) \subseteq 1..Len(Ops)
         /\ IsFiniteSet(RecvNamed(case, nm, j))
         /\ Cardinality(RecvNamed(case, nm, j)) \in Nat
  <1>1. Len(Ops) \in Nat /\ RecvIndices(Ops) \subseteq 1..Len(Ops)
    BY CaseFacts, LenProperties
  <1>2. RecvNamed(case, nm, j) \subseteq 1..Len(Ops)
    BY <1>1 DEF RecvNamed, Ops
  <1>3. IsFiniteSet(1..Len(Ops))
    BY <1>1, FS_Interval
  <1>4. IsFiniteSet(RecvNamed(case, nm, j))
    BY <1>2, <1>3, FS_Subset
  <1>. QED
    BY <1>2, <1>4, FS_CardinalityType

\* Op j joins the receives of its name when the loop passes it.
LEMMA NamedStep ==
  ASSUME case \in Cases, NEW nm, NEW j \in Int
  PROVE  /\ j \notin RecvNamed(case, nm, j)
         /\ RecvNamed(case, nm, j + 1)
              = IF j \in RecvIndices(Ops) /\ OpName(Ops, j) = nm
                THEN RecvNamed(case, nm, j) \cup {j} ELSE RecvNamed(case, nm, j)
  <1>1. RecvIndices(Ops) \subseteq Int
    BY DEF RecvIndices
  <1>2. \A m \in RecvIndices(Ops) : m < j + 1 <=> (m < j \/ m = j)
    BY <1>1
  <1>3. j \notin RecvNamed(case, nm, j)
    BY DEF RecvNamed, Ops, RecvIndices
  <1>4. CASE j \in RecvIndices(Ops) /\ OpName(Ops, j) = nm
    <2>. RecvNamed(case, nm, j + 1) = RecvNamed(case, nm, j) \cup {j}
      BY <1>2, <1>4, Zenon DEF RecvNamed, Ops
    <2>. QED
      BY <1>3, <1>4
  <1>5. CASE ~(j \in RecvIndices(Ops) /\ OpName(Ops, j) = nm)
    <2>. RecvNamed(case, nm, j + 1) = RecvNamed(case, nm, j)
      BY <1>2, <1>5, Zenon DEF RecvNamed, Ops
    <2>. QED
      BY <1>3, <1>5
  <1>. QED
    BY <1>4, <1>5

LEMMA NamedGrows ==
  ASSUME case \in Cases, NEW nm, NEW j \in Int,
         j \in RecvIndices(Ops), OpName(Ops, j) = nm
  PROVE  Cardinality(RecvNamed(case, nm, j + 1)) = Cardinality(RecvNamed(case, nm, j)) + 1
  <1>1. /\ j \notin RecvNamed(case, nm, j)
        /\ RecvNamed(case, nm, j + 1) = RecvNamed(case, nm, j) \cup {j}
    BY NamedStep
  <1>2. IsFiniteSet(RecvNamed(case, nm, j))
    BY NamedFinite
  <1>. QED
    BY <1>1, <1>2, FS_AddElement

\* The position of receive m among the receives of its name before j.
LEMMA PosRange ==
  ASSUME case \in Cases, NEW nm, NEW j \in Int, NEW m \in RecvNamed(case, nm, j)
  PROVE  Cardinality(RecvNamed(case, nm, m + 1)) \in 1..Cardinality(RecvNamed(case, nm, j))
  <1>1. m \in Int /\ m < j
    BY DEF RecvNamed, Ops, RecvIndices
  <1>2. RecvNamed(case, nm, m + 1) \subseteq RecvNamed(case, nm, j)
    <2>1. \A x \in RecvIndices(Ops) : x < m + 1 => x < j
      BY <1>1 DEF RecvIndices
    <2>. QED
      BY <2>1 DEF RecvNamed, Ops
  <1>3. m \in RecvNamed(case, nm, m + 1)
    <2>1. m < m + 1
      BY <1>1
    <2>. QED
      BY <2>1 DEF RecvNamed, Ops
  <1>4. /\ IsFiniteSet(RecvNamed(case, nm, j))
        /\ Cardinality(RecvNamed(case, nm, j)) \in Nat
        /\ IsFiniteSet(RecvNamed(case, nm, m + 1))
        /\ Cardinality(RecvNamed(case, nm, m + 1)) \in Nat
    BY NamedFinite
  <1>5. Cardinality(RecvNamed(case, nm, m + 1)) <= Cardinality(RecvNamed(case, nm, j))
    BY <1>2, <1>4, FS_Subset
  <1>6. Cardinality(RecvNamed(case, nm, m + 1)) # 0
    BY <1>3, <1>4, FS_EmptySet
  <1>. QED
    BY <1>4, <1>5, <1>6

(***************************************************************************)
(* The calls the packing loop handles as intended: every input is a Bits *)
(* value (line 112 tells a first value from a tuple of them by IsBits),   *)
(* and no kwarg passed in (the args parameter, line 79) has the name of   *)
(* a receive's argument.                                                   *)
(***************************************************************************)
PackableCases ==
  \A c \in Cases :
    /\ \A i \in 1..Len(c.inputs) : IsBits(c.inputs[i].value)
    /\ \A k \in RecvIndices(c.ops) : OpName(c.ops, k) \notin DOMAIN c.args

\* PackedFor reads a kwarg only at the name, and the receives only through
\* the set of those before j.
LEMMA PackedForSame ==
  \A c, nm, j, j2, a, a2 :
    /\ RecvNamed(c, nm, j2) = RecvNamed(c, nm, j)
    /\ nm \in DOMAIN a2 <=> nm \in DOMAIN a
    /\ a2[nm] = a[nm]
    /\ PackedFor(c, nm, j, a)
    => PackedFor(c, nm, j2, a2)
  <1> SUFFICES ASSUME NEW c, NEW nm, NEW j, NEW j2, NEW a, NEW a2,
                      RecvNamed(c, nm, j2) = RecvNamed(c, nm, j),
                      nm \in DOMAIN a2 <=> nm \in DOMAIN a,
                      a2[nm] = a[nm],
                      PackedFor(c, nm, j, a)
               PROVE  PackedFor(c, nm, j2, a2)
    OBVIOUS
  <1>. QED
    BY SMT DEF PackedFor

LEMMA PackRecvAIInv ==
  ASSUME PackableCases, AIInv, pc = "pack", idx <= Len(Ops), Op.op = "recv",
         inputs # << >>,
         args' = [x \in DOMAIN args \cup {OpName(Ops, idx)} |->
                    IF x = OpName(Ops, idx) THEN PackedArg(OpName(Ops, idx), Head(inputs).value)
                    ELSE args[x]],
         inputs' = Tail(inputs), idx' = idx + 1,
         UNCHANGED <<case, pc>>
  PROVE  AIInv'
  <1> DEFINE RR == RecvRank(Ops, idx - 1)
             name == OpName(Ops, idx)
             v == Head(inputs).value
  <1>1. /\ case \in Cases /\ Ops \in Seq(IOOps) /\ Len(Ops) \in Nat
        /\ idx \in 1..Len(Ops) /\ idx \in RecvIndices(Ops)
        /\ case.inputs \in Seq(IOOpTestRecords)
        /\ RR \in Nat /\ RecvRank(Ops, idx) = RR + 1
    <2>1. case \in Cases /\ idx \in 1..Len(Ops) + 1
      BY DEF AIInv
    <2>2. Ops \in Seq(IOOps) /\ Len(Ops) \in Nat /\ case.inputs \in Seq(IOOpTestRecords)
      BY <2>1, CaseFacts, LenProperties
    <2>3. idx \in 1..Len(Ops)
      BY <2>1, <2>2
    <2>4. /\ RR \in Nat
          /\ RecvRank(Ops, idx) = RR + (IF Ops[idx].op = "recv" THEN 1 ELSE 0)
      BY <2>1, <2>3, RankStep, Zenon
    <2>5. idx \in RecvIndices(Ops)
      BY <2>3 DEF RecvIndices, Op
    <2>. QED
      BY <2>1, <2>2, <2>3, <2>4, <2>5 DEF Op
  <1>2. /\ RR + 1 \in 1..Len(case.inputs)
        /\ Head(inputs) = case.inputs[RR + 1]
        /\ Tail(inputs) = Unchecked(case.inputs, RR + 1)
    <2>1. inputs = Unchecked(case.inputs, RR)
      BY DEF AIInv
    <2>. QED
      BY <1>1, <2>1, UncheckedPop, Zenon
  <1>3. v = InputOf(case, idx) /\ v \in IOValues /\ IsBits(v)
    <2>1. case.inputs[RR + 1] \in IOOpTestRecords
      BY <1>1, <1>2, ElementOfSeq
    <2>2. IsBits(case.inputs[RR + 1].value)
      BY <1>1, <1>2 DEF PackableCases
    <2>. QED
      BY <1>1, <1>2, <2>1, <2>2 DEF InputOf, IOOpTestRecords, Ops
  <1>4. /\ DOMAIN args' = DOMAIN args \cup {name}
        /\ args'[name] = PackedArg(name, v)
        /\ \A x \in DOMAIN args : x # name => args'[x] = args[x]
    OBVIOUS
  <1>5. ASSUME NEW nm \in ArgNames(case)
        PROVE  PackedFor(case, nm, idx + 1, args')
    <2> DEFINE B == RecvNamed(case, nm, idx)
               B1 == RecvNamed(case, nm, idx + 1)
    <2>1. PackedFor(case, nm, idx, args)
      BY DEF AIInv, ArgsPacked
    <2>2. /\ IsFiniteSet(B) /\ Cardinality(B) \in Nat
          /\ (Cardinality(B) = 0 <=> B = {})
      BY <1>1, NamedFinite, FS_EmptySet
    <2>0. idx \in Int
      BY <1>1
    <2>3. CASE nm # name
      <3>1. B1 = B
        <4>1. B1 = IF idx \in RecvIndices(Ops) /\ OpName(Ops, idx) = nm
                   THEN B \cup {idx} ELSE B
          BY <1>1, <2>0, NamedStep, Zenon
        <4>. QED
          BY <2>3, <4>1
      <3>2. CASE nm \in DOMAIN args
        <4>1. nm \in DOMAIN args' /\ args'[nm] = args[nm]
          BY <1>4, <2>3, <3>2
        <4>. QED
          BY ONLY <2>1, <3>1, <3>2, <4>1, PackedForSame, Zenon
      <3>3. CASE nm \notin DOMAIN args
        <4>1. nm \notin DOMAIN args' /\ B1 = {}
          BY <1>4, <2>1, <2>3, <3>1, <3>3 DEF PackedFor
        <4>2. Cardinality(B1) = 0
          BY <4>1, FS_EmptySet
        <4>. QED
          BY <4>1, <4>2 DEF PackedFor
      <3>. QED
        BY <3>2, <3>3
    <2>4. CASE nm = name
      <3>1. /\ B1 = B \cup {idx} /\ idx \notin B
            /\ Cardinality(B1) = Cardinality(B) + 1
        <4>1. idx \in RecvIndices(Ops) /\ OpName(Ops, idx) = nm
          BY <1>1, <2>4
        <4>2. B1 = B \cup {idx} /\ idx \notin B
          <5>1. /\ idx \notin B
                /\ B1 = IF idx \in RecvIndices(Ops) /\ OpName(Ops, idx) = nm
                        THEN B \cup {idx} ELSE B
            BY <1>1, <2>0, NamedStep, Zenon
          <5>. QED
            BY <4>1, <5>1
        <4>3. Cardinality(B1) = Cardinality(B) + 1
          BY <1>1, <2>0, <4>1, NamedGrows, Zenon
        <4>. QED
          BY <4>2, <4>3
      <3>2. \A m \in B : Cardinality(RecvNamed(case, nm, m + 1)) \in 1..Cardinality(B)
        BY <1>1, PosRange
      <3>3. nm \in DOMAIN args' /\ B1 # {}
        BY <1>4, <2>4, <3>1
      <3>4. CASE B = {}
        <4>1. nm \notin DOMAIN args
          BY <2>1, <3>4 DEF PackedFor
        <4>2. args'[nm] = v
          BY <1>4, <2>4, <4>1 DEF PackedArg
        <4>3. B1 = {idx} /\ Cardinality(B1) = 1
          BY <2>2, <3>1, <3>4
        <4>. QED
          BY <1>3, <3>3, <4>2, <4>3 DEF PackedFor
      <3>5. CASE Cardinality(B) = 1
        <4>1. /\ nm \in DOMAIN args /\ args[nm] \in IOValues /\ IsBits(args[nm])
              /\ \A m \in B : args[nm] = InputOf(case, m)
          BY <2>1, <2>2, <3>5 DEF PackedFor
        <4>2. args'[nm] = Tuple(<<args[nm], v>>)
          BY <1>4, <2>4, <4>1 DEF PackedArg
        <4>3. Cardinality(B1) = 2
          BY <3>1, <3>5
        <4>4. \A m \in B : Cardinality(RecvNamed(case, nm, m + 1)) = 1
          BY <3>2, <3>5
        <4>5. /\ <<args[nm], v>> \in Seq(IOValues)
              /\ Len(<<args[nm], v>>) = 2
          BY <1>3, <4>1
        <4>6. \A m \in B1 : <<args[nm], v>>[Cardinality(RecvNamed(case, nm, m + 1))]
                              = InputOf(case, m)
          BY <1>3, <3>1, <4>1, <4>3, <4>4
        <4>7. IsTuple(args'[nm]) /\ args'[nm].elems = <<args[nm], v>>
          BY <4>2 DEF Tuple, IsTuple
        <4>8. ~(Cardinality(B1) = 1) /\ Cardinality(B1) > 1
          BY <4>3
        <4>. QED
          BY <3>3, <4>3, <4>5, <4>6, <4>7, <4>8 DEF PackedFor
      <3>6. CASE Cardinality(B) > 1
        <4> DEFINE e == args[nm].elems
        <4>1. /\ nm \in DOMAIN args /\ IsTuple(args[nm]) /\ e \in Seq(IOValues)
              /\ Len(e) = Cardinality(B)
              /\ \A m \in B : e[Cardinality(RecvNamed(case, nm, m + 1))] = InputOf(case, m)
          BY <2>1, <2>2, <3>6 DEF PackedFor
        <4>2. args'[nm] = Tuple(Append(e, v))
          BY <1>4, <2>4, <4>1 DEF PackedArg, IsTuple, IsBits
        <4>3. /\ Append(e, v) \in Seq(IOValues)
              /\ Len(Append(e, v)) = Len(e) + 1
              /\ \A i \in 1..Len(e) : Append(e, v)[i] = e[i]
              /\ Append(e, v)[Len(e) + 1] = v
          BY <1>3, <4>1, AppendProperties
        <4>4. \A m \in B1 : Append(e, v)[Cardinality(RecvNamed(case, nm, m + 1))]
                              = InputOf(case, m)
          <5>1. \A m \in B : Append(e, v)[Cardinality(RecvNamed(case, nm, m + 1))]
                              = InputOf(case, m)
            BY <3>2, <4>1, <4>3
          <5>2. Append(e, v)[Cardinality(RecvNamed(case, nm, idx + 1))] = InputOf(case, idx)
            BY <1>3, <3>1, <4>1, <4>3
          <5>. QED
            BY <3>1, <5>1, <5>2, Zenon
        <4>5. IsTuple(args'[nm]) /\ args'[nm].elems = Append(e, v)
          BY ONLY <4>2 DEF Tuple, IsTuple
        <4>6. ~(Cardinality(B1) = 1) /\ Cardinality(B1) > 1
                /\ Len(Append(e, v)) = Cardinality(B1)
          <5>1. Cardinality(B) \in Nat /\ Cardinality(B) > 1
            BY <2>2, <3>6
          <5>2. Cardinality(B1) = Cardinality(B) + 1
            BY <3>1
          <5>3. Len(Append(e, v)) = Cardinality(B) + 1
            BY <4>1, <4>3
          <5>. QED
            BY <5>1, <5>2, <5>3
        <4>. QED
          BY <3>3, <4>3, <4>4, <4>5, <4>6 DEF PackedFor
      <3>. QED
        BY <2>2, <3>4, <3>5, <3>6
    <2>. QED
      BY <2>3, <2>4
  <1>6. Ops' = Ops /\ idx' - 1 = idx /\ idx' \in 1..Len(Ops) + 1
    BY <1>1 DEF Ops
  <1>7. ArgsPacked'
    BY <1>5, Zenon DEF ArgsPacked
  <1>8. /\ RecvRank(Ops', idx' - 1) = RR + 1
        /\ inputs' = Unchecked(case'.inputs, RecvRank(Ops', idx' - 1))
    BY <1>1, <1>2, <1>6
  <1>. QED
    BY <1>1, <1>2, <1>6, <1>7, <1>8 DEF AIInv


LEMMA InitAIInv == Init => AIInv
  BY DEF Init, AIInv

\* A step that ends the packing loop, or is past it, keeps AIInv.
LEMMA LeavePackAIInv ==
  ASSUME AIInv, pc' \in {"verify", "done"}, case' = case
  PROVE  AIInv'
  BY DEF AIInv

LEMMA CheckOpCountAIInv ==
  ASSUME PackableCases, AIInv, CheckOpCount
  PROVE  AIInv'
  <1>1. case \in Cases /\ pc = "count" /\ case' = case
        /\ inputs = case.inputs /\ args = case.args
    BY DEF AIInv, CheckOpCount
  <1>2. CASE Len(Ops) # TotalTestOps /\ Stop("failed")
    BY <1>1, <1>2, LeavePackAIInv DEF Stop
  <1>3. CASE Len(Ops) = TotalTestOps /\ pc' = "pack" /\ idx' = 1
             /\ UNCHANGED <<inputs, outputs, args, returns, outcome>>
    <2>1. /\ Len(Ops) \in Nat /\ Ops' = Ops
          /\ case.inputs \in Seq(IOOpTestRecords)
          /\ RecvRank(Ops, 0) = 0
      BY <1>1, CaseFacts, RankEnds, LenProperties DEF Ops
    <2>2. inputs' = Unchecked(case.inputs, 0)
      BY <1>1, <1>3, <2>1, UncheckedAll
    <2>3. ASSUME NEW nm \in ArgNames(case)
          PROVE  PackedFor(case, nm, 1, args')
      <3>1. RecvNamed(case, nm, 1) = {}
        <4>1. RecvIndices(Ops) \subseteq 1..Len(Ops)
          BY <1>1, CaseFacts
        <4>. QED
          BY <4>1 DEF RecvNamed, Ops
      <3>2. nm \notin DOMAIN args'
        BY <1>1, <1>3 DEF ArgNames, PackableCases
      <3>3. Cardinality(RecvNamed(case, nm, 1)) = 0
        BY <3>1, FS_EmptySet
      <3>. QED
        BY <3>1, <3>2, <3>3 DEF PackedFor
    <2>4. ArgsPacked'
      BY <1>1, <1>3, <2>3, Zenon DEF ArgsPacked
    <2>. QED
      BY <1>1, <1>3, <2>1, <2>2, <2>4 DEF AIInv
  <1>. QED
    BY <1>2, <1>3 DEF CheckOpCount

\* A send leaves the kwargs and the inputs as they are.
LEMMA PackSendAIInv ==
  ASSUME AIInv, pc = "pack", idx <= Len(Ops), Op.op = "send", idx' = idx + 1,
         UNCHANGED <<case, pc, inputs, args>>
  PROVE  AIInv'
  <1>1. /\ case \in Cases /\ Len(Ops) \in Nat /\ idx \in 1..Len(Ops)
        /\ idx \notin RecvIndices(Ops)
    <2>1. case \in Cases /\ idx \in 1..Len(Ops) + 1
      BY DEF AIInv
    <2>2. Len(Ops) \in Nat
      BY <2>1, CaseFacts, LenProperties
    <2>. QED
      BY <2>1, <2>2 DEF RecvIndices, Op
  <1>2. RecvRank(Ops, idx) = RecvRank(Ops, idx - 1)
    <2>1. /\ RecvRank(Ops, idx - 1) \in Nat
          /\ RecvRank(Ops, idx) = RecvRank(Ops, idx - 1) + (IF Ops[idx].op = "recv" THEN 1 ELSE 0)
      BY <1>1, RankStep, Zenon
    <2>2. Ops[idx].op # "recv"
      BY DEF Op
    <2>. QED
      BY <2>1, <2>2
  <1>3. ASSUME NEW nm \in ArgNames(case)
        PROVE  PackedFor(case, nm, idx + 1, args)
    <2>1. idx \in Int
      BY <1>1
    <2>2. RecvNamed(case, nm, idx + 1) = RecvNamed(case, nm, idx)
      <3>1. RecvNamed(case, nm, idx + 1)
              = IF idx \in RecvIndices(Ops) /\ OpName(Ops, idx) = nm
                THEN RecvNamed(case, nm, idx) \cup {idx} ELSE RecvNamed(case, nm, idx)
        BY <1>1, <2>1, NamedStep, Zenon
      <3>. QED
        BY <1>1, <3>1
    <2>3. PackedFor(case, nm, idx, args)
      BY DEF AIInv, ArgsPacked
    <2>. QED
      BY ONLY <2>2, <2>3, PackedForSame, Zenon
  <1>4. ArgsPacked'
    BY <1>3, Zenon DEF ArgsPacked
  <1>5. Ops' = Ops /\ idx' - 1 = idx /\ idx' \in 1..Len(Ops) + 1
    BY <1>1 DEF Ops
  <1>. QED
    BY <1>2, <1>4, <1>5 DEF AIInv

LEMMA PackOpAIInv ==
  ASSUME PackableCases, AIInv, PackOp
  PROVE  AIInv'
  <1>1. pc = "pack" /\ idx <= Len(Ops) /\ case' = case
    BY DEF PackOp
  <1>2. CASE Op.op = "send" /\ idx' = idx + 1
             /\ UNCHANGED <<pc, inputs, outputs, args, returns, outcome>>
    BY <1>1, <1>2, PackSendAIInv
  <1>3. CASE Op.op = "recv" /\ inputs = <<>> /\ Stop("ub")
    BY <1>1, <1>3, LeavePackAIInv DEF Stop
  <1>4. CASE Op.op = "recv" /\ inputs # <<>>
             /\ Head(inputs).name # Op.channel /\ Stop("crashed")
    BY <1>1, <1>4, LeavePackAIInv DEF Stop
  <1>5. CASE Op.op = "recv" /\ inputs # <<>>
             /\ Head(inputs).name = Op.channel
             /\ LET name == ArgName(Op.channel, Op.channel_op_index)
                IN  args' = [x \in DOMAIN args \cup {name} |->
                               IF x = name THEN PackedArg(name, Head(inputs).value)
                               ELSE args[x]]
             /\ inputs' = Tail(inputs)
             /\ idx' = idx + 1
             /\ UNCHANGED <<pc, outputs, returns, outcome>>
    <2>1. ArgName(Op.channel, Op.channel_op_index) = OpName(Ops, idx)
      BY DEF OpName, Op
    <2>. QED
      BY <1>1, <1>5, <2>1, PackRecvAIInv
  <1>. QED
    BY <1>2, <1>3, <1>4, <1>5 DEF PackOp

LEMMA NextAIInv ==
  ASSUME PackableCases, AIInv, [Next]_vars
  PROVE  AIInv'
  <1>1. CASE CheckOpCount
    BY <1>1, CheckOpCountAIInv
  <1>2. CASE PackOp
    BY <1>2, PackOpAIInv
  <1>3. CASE InterpretFunction
    BY <1>3, LeavePackAIInv DEF InterpretFunction, Stop
  <1>4. CASE VerifyOp
    BY <1>4, LeavePackAIInv DEF VerifyOp, Stop
  <1>5. CASE CheckDrained
    BY <1>5, LeavePackAIInv DEF CheckDrained, Stop
  <1>6. CASE UNCHANGED vars
    BY <1>6 DEF vars, AIInv, ArgsPacked, Ops
  <1>. QED
    BY <1>1, <1>2, <1>3, <1>4, <1>5, <1>6 DEF Next


\* When the packing loop has passed every op, the receives of one name are
\* those SameName collects, and the rank among them is RecvNamed's count.
LEMMA AIInvArgs ==
  ASSUME AIInv
  PROVE  ArgsCarryInputs
  <1> SUFFICES ASSUME pc = "pack", idx > Len(Ops), NEW k \in RecvIndices(Ops)
               PROVE  OpReads(Ops, args, k, case.inputs[RecvRank(Ops, k)].value)
    BY DEF ArgsCarryInputs
  <1> DEFINE nm == OpName(Ops, k)
             B == RecvNamed(case, nm, idx)
             S == SameName(Ops, k)
  <1>1. /\ case \in Cases /\ idx = Len(Ops) + 1 /\ Len(Ops) \in Nat
        /\ RecvIndices(Ops) \subseteq 1..Len(Ops)
    <2>1. case \in Cases /\ idx \in 1..Len(Ops) + 1
      BY DEF AIInv
    <2>2. Len(Ops) \in Nat /\ RecvIndices(Ops) \subseteq 1..Len(Ops)
      BY <2>1, CaseFacts, LenProperties
    <2>. QED
      BY <2>1, <2>2
  <1>2. PackedFor(case, nm, idx, args)
    <2>1. nm \in ArgNames(case)
      BY DEF ArgNames, Ops
    <2>. QED
      BY <2>1 DEF AIInv, ArgsPacked
  <1>3. B = S /\ k \in B /\ k \in Int
    <2>1. \A m \in RecvIndices(Ops) : m < idx
      BY <1>1
    <2>. QED
      BY <1>1, <2>1 DEF RecvNamed, SameName, Ops
  <1>4. RecvNamed(case, nm, k + 1) = {m \in S : m <= k}
    <2>1. \A m \in RecvIndices(Ops) : m < k + 1 <=> m <= k
      BY <1>1, <1>3
    <2>. QED
      BY <2>1, Zenon DEF RecvNamed, SameName, Ops
  <1>5. /\ IsFiniteSet(B) /\ Cardinality(B) \in Nat /\ Cardinality(B) # 0
    <2>1. IsFiniteSet(B) /\ Cardinality(B) \in Nat
      BY <1>1, NamedFinite
    <2>. QED
      BY <1>3, <2>1, FS_EmptySet
  <1>6. InputOf(case, k) = case.inputs[RecvRank(Ops, k)].value
    BY DEF InputOf, Ops
  <1>7. CASE Cardinality(B) = 1
    <2>1. args[nm] = InputOf(case, k)
      BY <1>2, <1>3, <1>7 DEF PackedFor
    <2>. QED
      BY <1>3, <1>6, <1>7, <2>1 DEF OpReads
  <1>8. CASE Cardinality(B) # 1
    <2>1. Cardinality(B) > 1
      BY <1>5, <1>8
    <2>2. /\ IsTuple(args[nm]) /\ Len(args[nm].elems) = Cardinality(B)
          /\ args[nm].elems[Cardinality(RecvNamed(case, nm, k + 1))] = InputOf(case, k)
      BY <1>2, <1>3, <2>1 DEF PackedFor
    <2>3. Cardinality(S) # 1
      BY <1>3, <1>8
    <2>. QED
      BY <1>3, <1>4, <1>6, <2>2, <2>3 DEF OpReads
  <1>. QED
    BY <1>7, <1>8

(***************************************************************************)
(* The packing loop of TranslatorIOTest::IOTest (src/xls/dslx/mangle.h,   *)
(* lines 93-121) gives every receive op, for every function and every     *)
(* list of Bits inputs that packs without a CHECK or UB, the input of its *)
(* rank as its argument: the value itself when it is the only receive of  *)
(* its name, and otherwise the element at its position among the         *)
(* receives of that name in the tuple the loop builds.  The hypothesis    *)
(* leaves out the calls this holds for only by luck: a tuple-valued input *)
(* (line 112 takes it for an earlier tuple) and a kwarg passed in under   *)
(* a receive's name.                                                       *)
(***************************************************************************)
THEOREM ArgsCarryInputsForPackableTests ==
  ASSUME PackableCases
  PROVE  Spec => []ArgsCarryInputs
  <1>1. Init => AIInv
    BY InitAIInv
  <1>2. AIInv /\ [Next]_vars => AIInv'
    BY NextAIInv
  <1>3. AIInv => ArgsCarryInputs
    BY AIInvArgs
  <1>. QED
    BY <1>1, <1>2, <1>3, PTL DEF Spec

=============================================================================
