-------------------------- MODULE MC_IOTestHarness --------------------------
(***************************************************************************)
(* IOTest on every small function and every small pair of expectation     *)
(* lists.  A function is given by its io ops, each with the condition it  *)
(* is executed under and, for a send, the data it sends; the interpreter  *)
(* returns exactly those.  The expectation lists are arbitrary, so the    *)
(* runs contain the tests that should pass and the ones that should not.  *)
(***************************************************************************)
EXTENDS IOTestHarness

RecvChannels == {"a"}
SendChannels == {"x"}
BitsInputs == {Bits(1), Bits(2)}
(* A channel of a struct type: its values are tuples of the fields. *)
StructInputs == {Tuple(<<Bits(1)>>), Tuple(<<Bits(2)>>)}
InputValues == BitsInputs
SentData == {1, 2}
MaxOps == 2
MaxExpectations == 2

RecvOps == [op : {"recv"}, channel : RecvChannels, channel_op_index : {0, 1},
            cond : BOOLEAN, data : {0}]
SendOps == [op : {"send"}, channel : SendChannels, channel_op_index : {0},
            cond : BOOLEAN, data : SentData]
Functions == UNION {[1..n -> RecvOps \cup SendOps] : n \in 0..MaxOps}

(* IOOpTest(name, value, condition); a value has its channel's type. *)
IOOpTests ==
    [name : RecvChannels, value : InputValues, condition : BOOLEAN]
    \cup [name : SendChannels, value : {Bits(d) : d \in SentData}, condition : BOOLEAN]
ExpectationPairs ==
    {p \in UNION {[1..i -> IOOpTests] \X [1..o -> IOOpTests] :
                    i \in 0..MaxExpectations, o \in 0..MaxExpectations} :
        Len(p[1]) + Len(p[2]) <= MaxExpectations}

GenCases == {[ops |-> f, inputs |-> p[1], outputs |-> p[2], args |-> <<>>] :
                f \in Functions, p \in ExpectationPairs}

(* The calls the harness is given: a function's io ops and the two      *)
(* expectation lists (IOOpTest records) are sequences, an op's condition  *)
(* and an expectation's condition are Booleans, and a value is a Bits or  *)
(* a tuple of Bits (a struct).                                             *)
IOOps == [op : {"recv", "send"}, channel : STRING, channel_op_index : Nat,
          cond : BOOLEAN, data : Nat]
BitsValues == [kind : {"bits"}, bits : Nat, elems : {<<>>}]
IOValues == BitsValues \cup [kind : {"tuple"}, bits : {0}, elems : Seq(BitsValues)]
IOOpTestRecords == [name : STRING, value : IOValues, condition : BOOLEAN]
ASSUME CasesAssumption ==
    \A c \in Cases : /\ c.ops \in Seq(IOOps)
                    /\ c.inputs \in Seq(IOOpTestRecords)
                    /\ c.outputs \in Seq(IOOpTestRecords)

(* The function's result: a receive returns its condition, a send its    *)
(* data and condition; one op's element alone, several ops' as a tuple.  *)
OpResult(o) == IF o.op = "recv" THEN Bits(CondBits(o.cond))
               ELSE Tuple(<<Bits(o.data), Bits(CondBits(o.cond))>>)
GenInterpret(c, a) == FunctionResult([k \in 1..Len(c.ops) |-> OpResult(c.ops[k])])

(***************************************************************************)
(* What a test means: the expectation lists describe the function's io    *)
(* ops.  The k-th receive is the k-th input (same channel, same           *)
(* condition), the k-th send the k-th output (same channel, same          *)
(* condition, and the same data when it is sent).                         *)
(***************************************************************************)
SendIndices(ops) == {k \in 1..Len(ops) : ops[k].op = "send"}
SendRank(ops, k) == Cardinality({m \in SendIndices(ops) : m <= k})
Describes(o, t) == o.channel = t.name /\ o.cond = t.condition
(* The k-th op, a receive or a send, is described by the expectation of *)
(* its rank among the receives or the sends.                               *)
RecvDescribed(c, k) == Describes(c.ops[k], c.inputs[RecvRank(c.ops, k)])
SendDescribed(c, k) ==
    LET t == c.outputs[SendRank(c.ops, k)]
    IN  /\ Describes(c.ops[k], t)
        /\ c.ops[k].cond => Bits(c.ops[k].data) = t.value
Matches(c) ==
    /\ Cardinality(RecvIndices(c.ops)) = Len(c.inputs)
    /\ Cardinality(SendIndices(c.ops)) = Len(c.outputs)
    /\ \A k \in RecvIndices(c.ops) : RecvDescribed(c, k)
    /\ \A k \in SendIndices(c.ops) : SendDescribed(c, k)

(* IOTest passes only tests whose expectations describe the function:    *)
(* a passing test has checked every op's channel, condition and sent      *)
(* data, and no expectation is left over.                                  *)
HarnessSound == outcome = "passed" => Matches(case)

(* IOTest passes every test whose expectations describe the function.   *)
WellFormedTestPasses == Matches(case) => <>(outcome = "passed")
============================================================================
