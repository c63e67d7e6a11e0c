--------------------------- MODULE IOTestHarness ---------------------------
(***************************************************************************)
(* TranslatorIOTest::IOTest, the harness of the xlscc IO tests            *)
(* (src/xls/dslx/mangle.h, lines 77-183).  A call translates a C++        *)
(* program in io_test_mode, where every static channel operation of the   *)
(* top function becomes an argument (a receive's data) and an element of  *)
(* the returned tuple (a receive's condition, a send's data and           *)
(* condition).  The harness packs the expected inputs into the arguments, *)
(* interprets the function and compares each returned element with the    *)
(* expectation lists.                                                      *)
(*                                                                         *)
(* One behaviour is one IOTest call: the case is chosen in Init and every *)
(* step is one iteration of one of the harness's loops.                   *)
(***************************************************************************)
EXTENDS Integers, Sequences, FiniteSets, TLC

CONSTANTS
    Cases,          \* the IOTest calls: records [ops, inputs, outputs, args]
    Interpret(_, _) \* InterpretFunctionKwargs(entry, args) for a case

(***************************************************************************)
(* xls::Value, reduced to the two kinds the tests use.                    *)
(***************************************************************************)
Bits(n) == [kind |-> "bits", bits |-> n, elems |-> <<>>]
Tuple(s) == [kind |-> "tuple", bits |-> 0, elems |-> s]
IsBits(v) == v.kind = "bits"
IsTuple(v) == v.kind = "tuple"
CondBits(c) == IF c THEN 1 ELSE 0

(* The function's io_test_mode result built from one element per io op:  *)
(* the element itself for a single op, otherwise the tuple of them; the   *)
(* form lines 130-136 take apart.                                          *)
FunctionResult(rets) == IF Len(rets) = 1 THEN rets[1] ELSE Tuple(rets)

(* absl::StrFormat("%s_op%i", ch_name, op.channel_op_index) *)
ArgName(ch, i) == ch \o "_op" \o ToString(i)

Outcomes == {"running", "passed", "failed", "crashed", "ub"}

VARIABLES
    case,      \* the IOTest call
    pc,        \* the statement the harness is at
    idx,       \* position in func->io_ops (op_idx in the second loop)
    inputs,    \* the std::list<IOOpTest> inputs
    outputs,   \* the std::list<IOOpTest> outputs
    args,      \* the kwargs of the interpreted function
    returns,   \* the elements of the interpreted result
    outcome    \* how the call ended: gtest failure, CHECK abort or UB

vars == <<case, pc, idx, inputs, outputs, args, returns, outcome>>

Ops == case.ops
Op == Ops[idx]
TotalTestOps == Len(case.inputs) + Len(case.outputs)

(* An ASSERT_* failure returns from IOTest; a CHECK failure aborts;       *)
(* front() of an empty std::list is undefined behaviour.                   *)
Stop(o) == pc' = "done" /\ outcome' = o /\ UNCHANGED <<idx, inputs, outputs, args, returns>>

Init ==
    /\ case \in Cases
    /\ pc = "count"
    /\ idx = 0
    /\ inputs = case.inputs
    /\ outputs = case.outputs
    /\ args = case.args
    /\ returns = <<>>
    /\ outcome = "running"

(* ASSERT_EQ(func->io_ops.size(), total_test_ops) *)
CheckOpCount ==
    /\ pc = "count"
    /\ UNCHANGED case
    /\ \/ Len(Ops) # TotalTestOps /\ Stop("failed")
       \/ Len(Ops) = TotalTestOps
          /\ pc' = "pack" /\ idx' = 1
          /\ UNCHANGED <<inputs, outputs, args, returns, outcome>>

(* The value args[name] becomes when another input of that name arrives. *)
PackedArgAlwaysAppend(name, new_val) ==
    IF name \notin DOMAIN args THEN new_val
    ELSE Tuple(Append(args[name].elems, new_val))
PackedArg(name, new_val) ==
    IF name \notin DOMAIN args THEN new_val
    ELSE IF IsBits(args[name]) THEN Tuple(<<args[name], new_val>>)
    ELSE Tuple(Append(args[name].elems, new_val))

(* First loop: a receive takes the front input as its argument.  A send *)
(* is skipped.                                                            *)
PackOp ==
    /\ pc = "pack" /\ idx <= Len(Ops)
    /\ UNCHANGED case
    /\ \/ Op.op = "send"
          /\ idx' = idx + 1
          /\ UNCHANGED <<pc, inputs, outputs, args, returns, outcome>>
       \/ Op.op = "recv" /\ inputs = <<>> /\ Stop("ub")
       \/ Op.op = "recv" /\ inputs # <<>>
          /\ Head(inputs).name # Op.channel /\ Stop("crashed")
       \/ Op.op = "recv" /\ inputs # <<>>
          /\ Head(inputs).name = Op.channel
          /\ LET name == ArgName(Op.channel, Op.channel_op_index)
             IN  args' = [x \in DOMAIN args \cup {name} |->
                            IF x = name THEN PackedArg(name, Head(inputs).value)
                            ELSE args[x]]
          /\ inputs' = Tail(inputs)
          /\ idx' = idx + 1
          /\ UNCHANGED <<pc, outputs, returns, outcome>>

(* The result of the function, one element per IO op: a tuple of them,   *)
(* or the single element itself when there is one op.                     *)
Results(actual) == IF TotalTestOps > 1 THEN actual.elems ELSE <<actual>>

(* Interpret, ASSERT the result's shape, restore the inputs. *)
InterpretFunction ==
    /\ pc = "pack" /\ idx > Len(Ops)
    /\ UNCHANGED case
    /\ LET actual == Interpret(case, args) IN
       \/ /\ \/ TotalTestOps > 1 /\ ~IsTuple(actual)
             \/ Len(Results(actual)) # TotalTestOps
          /\ Stop("failed")
       \/ /\ TotalTestOps > 1 => IsTuple(actual)
          /\ Len(Results(actual)) = TotalTestOps
          /\ returns' = Results(actual)
          /\ inputs' = case.inputs
          /\ pc' = "verify" /\ idx' = 1
          /\ UNCHANGED <<outputs, args, outcome>>

(* The checks of the second loop on one returned element. *)
RecvReturnOkNoCondition(ret, test_op) == IsBits(ret)
RecvReturnOk(ret, test_op) ==
    IsBits(ret) /\ ret.bits = CondBits(test_op.condition)
SendReturnOk(ret, test_op) ==
    /\ IsTuple(ret) /\ Len(ret.elems) = 2 /\ IsBits(ret.elems[2])
    /\ ret.elems[2].bits = CondBits(test_op.condition)
    \* Don't check data if it wasn't sent
    /\ ret.elems[2].bits # 0 => ret.elems[1] = test_op.value

ReturnOk(ret, test_op) ==
    IF Op.op = "recv" THEN RecvReturnOk(ret, test_op) ELSE SendReturnOk(ret, test_op)

(* The list the second loop takes the op's expectation from. *)
Expected == IF Op.op = "recv" THEN inputs ELSE outputs

(* Second loop: compare returns[op_idx] with the front expectation. *)
VerifyOp ==
    /\ pc = "verify" /\ idx <= Len(Ops)
    /\ UNCHANGED case
    /\ \/ Expected = <<>> /\ Stop("ub")
       \/ Expected # <<>> /\ Head(Expected).name # Op.channel /\ Stop("crashed")
       \/ Expected # <<>> /\ Head(Expected).name = Op.channel
          /\ ~ReturnOk(returns[idx], Head(Expected))
          /\ Stop("failed")
       \/ Expected # <<>> /\ Head(Expected).name = Op.channel
          /\ ReturnOk(returns[idx], Head(Expected))
          /\ inputs' = (IF Op.op = "recv" THEN Tail(inputs) ELSE inputs)
          /\ outputs' = (IF Op.op = "send" THEN Tail(outputs) ELSE outputs)
          /\ idx' = idx + 1
          /\ UNCHANGED <<pc, args, returns, outcome>>

(* ASSERT_EQ(inputs.size(), 0); ASSERT_EQ(outputs.size(), 0) *)
CheckDrained ==
    /\ pc = "verify" /\ idx > Len(Ops)
    /\ UNCHANGED case
    /\ Stop(IF inputs = <<>> /\ outputs = <<>> THEN "passed" ELSE "failed")

Next == CheckOpCount \/ PackOp \/ InterpretFunction \/ VerifyOp \/ CheckDrained

(* gtest runs IOTest to its end on one thread. *)
Spec == Init /\ [][Next]_vars /\ WF_vars(Next)

(***************************************************************************)
(* How the translated function reads the kwargs: the argument of the k-th *)
(* io op is args[name] when no other receive shares its name, and         *)
(* otherwise the element of the tuple at the op's rank among those that   *)
(* do.  This is the reading that the packing loop (lines 93-121) builds   *)
(* its tuples for.                                                         *)
(***************************************************************************)
RecvIndices(ops) == {k \in 1..Len(ops) : ops[k].op = "recv"}
OpName(ops, k) == ArgName(ops[k].channel, ops[k].channel_op_index)
SameName(ops, k) == {m \in RecvIndices(ops) : OpName(ops, m) = OpName(ops, k)}
(* Whether the kwargs a give the k-th op the argument v. *)
OpReads(ops, a, k, v) ==
    LET arg == a[OpName(ops, k)]
        n == Cardinality(SameName(ops, k))
    IN  IF n = 1 THEN arg = v
        ELSE /\ IsTuple(arg) /\ Len(arg.elems) = n
             /\ arg.elems[Cardinality({m \in SameName(ops, k) : m <= k})] = v

(* The rank of the k-th op among the receives: its input's position. *)
RecvRank(ops, k) == Cardinality({m \in RecvIndices(ops) : m <= k})

(***************************************************************************)
(* Properties of the harness.                                              *)
(***************************************************************************)

(* When the packing loop (lines 93-121) ends and the function is about to *)
(* be interpreted, every receive op of the function reads, as its         *)
(* argument, the value of the input expectation that the second loop will *)
(* check it against: the inputs in order, receive by receive, also when   *)
(* several receives share one argument name and their values are packed   *)
(* into a tuple.                                                           *)
ArgsCarryInputs ==
    pc = "pack" /\ idx > Len(Ops) =>
        \A k \in RecvIndices(Ops) :
            OpReads(Ops, args, k, case.inputs[RecvRank(Ops, k)].value)

(* Whatever expectation lists a test passes, IOTest never takes front()  *)
(* of an empty std::list (lines 100, 147, 158): a disagreement between the *)
(* lists and the function's io ops ends in a test failure or a CHECK.     *)
NoUndefinedBehaviour == outcome # "ub"
============================================================================
