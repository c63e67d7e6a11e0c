-------------------------- MODULE TranslatorIOTest --------------------------
(***************************************************************************)
(* The IOTest-based tests of xlscc's translator_io_test                    *)
(* (src/xls/dslx/mangle.h, lines 185-685 and 1154-1267).  Each test's C++  *)
(* program is an operator from the io_test_mode kwargs to the sequence of *)
(* per-op results: a receive's condition, a send's data and condition.    *)
(* Each IOTest call is a case: the function's static io ops (channel,     *)
(* channel_op_index) and the test's expectation lists.                    *)
(*                                                                         *)
(* An `int` is an integer: every value the tests compute lies between 0  *)
(* and 1001, far from the 32-bit bounds, so no operation wraps.           *)
(* An op under a condition that folds to a constant false is not part of  *)
(* the function; Guarded models that, and CAnd, COr and CNot fold the     *)
(* conditions with C++'s short-circuit semantics.                          *)
(***************************************************************************)
EXTENDS IOTestHarness

Recv(ch, i) == [op |-> "recv", channel |-> ch, channel_op_index |-> i]
Send(ch, i) == [op |-> "send", channel |-> ch, channel_op_index |-> i]

(* IOOpTest(name, value, condition) of an int channel. *)
IOOpTest(name, v, cond) == [name |-> name, value |-> Bits(v), condition |-> cond]

(* The int a receive of channel ch with index i reads: args["ch_opi"]. *)
In(a, ch, i) == a[ArgName(ch, i)].bits

RecvRet(cond) == Bits(CondBits(cond))
SendRet(v, cond) == Tuple(<<Bits(v), Bits(CondBits(cond))>>)

Case(prog, ops, ins, outs, a) ==
    [prog |-> prog, ops |-> ops, inputs |-> ins, outputs |-> outs, args |-> a]
NoArgs == <<>>

(***************************************************************************)
(* Constant folding of conditions: a condition is a constant (Const(b))  *)
(* or Dyn, known only when the function runs.                             *)
(***************************************************************************)
Const(b) == [known |-> TRUE, val |-> b]
Dyn == [known |-> FALSE, val |-> FALSE]
False == Const(FALSE)
True == Const(TRUE)
CAndEager(l, r) == IF l = False /\ r = False THEN False
                   ELSE IF l = True /\ r = True THEN True ELSE Dyn
CAnd(l, r) == IF l = False THEN False ELSE IF l = True THEN r ELSE Dyn
COr(l, r) == IF l = True THEN True ELSE IF l = False THEN r ELSE Dyn
CNot(c) == IF c.known THEN Const(~c.val) ELSE Dyn
(* An op under a condition that folds to false is not generated. *)
Guarded(c, s) == IF c = False THEN <<>> ELSE s

(* TEST IO: out.write(3*in.read()) *)
IO(a) == <<RecvRet(TRUE), SendRet(3 * In(a, "in", 0), TRUE)>>
IOCases ==
    {Case("IO", <<Recv("in", 0), Send("out", 0)>>,
          <<IOOpTest("in", 5, TRUE)>>, <<IOOpTest("out", 15, TRUE)>>, NoArgs)}

(* TEST IOReadToParam: in.read(v); out.write(3*v) *)
IOReadToParam(a) == <<RecvRet(TRUE), SendRet(3 * In(a, "in", 0), TRUE)>>
IOReadToParamCases ==
    {Case("IOReadToParam", <<Recv("in", 0), Send("out", 0)>>,
          <<IOOpTest("in", 5, TRUE)>>, <<IOOpTest("out", 15, TRUE)>>, NoArgs)}

(* TEST IOUnsequencedCheck: out.write(3*in.read()*2) *)
IOUnsequencedCheck(a) == <<RecvRet(TRUE), SendRet(3 * In(a, "in", 0) * 2, TRUE)>>
IOUnsequencedCheckCases ==
    {Case("IOUnsequencedCheck", <<Recv("in", 0), Send("out", 0)>>,
          <<IOOpTest("in", 5, TRUE)>>, <<IOOpTest("out", 30, TRUE)>>, NoArgs)}

(* TEST IOMulti: x = in.read(); if (sel) out1.write(3*x) else out2.write(7*x) *)
IOMulti(a) ==
    LET x == In(a, "in", 0)
        sel == a["sel"].bits # 0
    IN  <<RecvRet(TRUE), SendRet(3 * x, sel), SendRet(7 * x, ~sel)>>
IOMultiCases ==
    LET ops == <<Recv("in", 0), Send("out1", 0), Send("out2", 0)>> IN
    {Case("IOMulti", ops, <<IOOpTest("in", 5, TRUE)>>,
          <<IOOpTest("out1", 15, TRUE), IOOpTest("out2", 0, FALSE)>>,
          "sel" :> Bits(1)),
     Case("IOMulti", ops, <<IOOpTest("in", 5, TRUE)>>,
          <<IOOpTest("out1", 0, FALSE), IOOpTest("out2", 35, TRUE)>>,
          "sel" :> Bits(0))}

(* TEST IOWriteConditional: x = in.read(); if (x>10) out.write(5*x) *)
IOWriteConditional(a) ==
    LET x == In(a, "in", 0) IN <<RecvRet(TRUE), SendRet(5 * x, x > 10)>>
IOWriteConditionalCases ==
    LET ops == <<Recv("in", 0), Send("out", 0)>> IN
    {Case("IOWriteConditional", ops, <<IOOpTest("in", 5, TRUE)>>,
          <<IOOpTest("out", 0, FALSE)>>, NoArgs),
     Case("IOWriteConditional", ops, <<IOOpTest("in", 20, TRUE)>>,
          <<IOOpTest("out", 100, TRUE)>>, NoArgs)}

(* TEST IOReadConditional: x = in.read(); if (x < 8) x += in.read(); out.write(x) *)
IOReadConditional(a) ==
    LET x0 == In(a, "in", 0)
        c == x0 < 8
        x == IF c THEN x0 + In(a, "in", 1) ELSE x0
    IN  <<RecvRet(TRUE), RecvRet(c), SendRet(x, TRUE)>>
IOReadConditionalCases ==
    LET ops == <<Recv("in", 0), Recv("in", 1), Send("out", 0)>> IN
    {Case("IOReadConditional", ops,
          <<IOOpTest("in", 10, TRUE), IOOpTest("in", 0, FALSE)>>,
          <<IOOpTest("out", 10, TRUE)>>, NoArgs),
     Case("IOReadConditional", ops,
          <<IOOpTest("in", 1, TRUE), IOOpTest("in", 2, TRUE)>>,
          <<IOOpTest("out", 3, TRUE)>>, NoArgs)}

(* TEST IOSubroutine: sub_send(7 + sub_recv(in, z), out) with z = 1,     *)
(* sub_recv returning in.read() - v; then out.write(55).                  *)
IOSubroutine(a) ==
    <<RecvRet(TRUE), SendRet(7 + (In(a, "in", 0) - 1), TRUE), SendRet(55, TRUE)>>
IOSubroutineCases ==
    {Case("IOSubroutine", <<Recv("in", 0), Send("out", 0), Send("out", 1)>>,
          <<IOOpTest("in", 5, TRUE)>>,
          <<IOOpTest("out", 5 + 7 - 1, TRUE), IOOpTest("out", 55, TRUE)>>, NoArgs)}

(* TEST IOSubroutineDeclOrder: the program of IOSubroutine with sub_recv *)
(* declared before and defined after the top function.                    *)
IOSubroutineDeclOrder(a) ==
    <<RecvRet(TRUE), SendRet(7 + (In(a, "in", 0) - 1), TRUE), SendRet(55, TRUE)>>
IOSubroutineDeclOrderCases ==
    {Case("IOSubroutineDeclOrder", <<Recv("in", 0), Send("out", 0), Send("out", 1)>>,
          <<IOOpTest("in", 5, TRUE)>>,
          <<IOOpTest("out", 5 + 7 - 1, TRUE), IOOpTest("out", 55, TRUE)>>, NoArgs)}

(* TEST IOSubroutine2: IOSubroutine with sub_send(5, out) before the 55. *)
IOSubroutine2(a) ==
    <<RecvRet(TRUE), SendRet(7 + (In(a, "in", 0) - 1), TRUE),
      SendRet(5, TRUE), SendRet(55, TRUE)>>
IOSubroutine2Cases ==
    {Case("IOSubroutine2",
          <<Recv("in", 0), Send("out", 0), Send("out", 1), Send("out", 2)>>,
          <<IOOpTest("in", 5, TRUE)>>,
          <<IOOpTest("out", 5 + 7 - 1, TRUE), IOOpTest("out", 5, TRUE),
            IOOpTest("out", 55, TRUE)>>, NoArgs)}

(* TEST IOSubroutine3: sub_send(v, out) writes v and then 2*v. *)
IOSubroutine3(a) ==
    LET v == 7 + (In(a, "in", 0) - 1)
    IN  <<RecvRet(TRUE), SendRet(v, TRUE), SendRet(2 * v, TRUE), SendRet(55, TRUE)>>
IOSubroutine3Cases ==
    {Case("IOSubroutine3",
          <<Recv("in", 0), Send("out", 0), Send("out", 1), Send("out", 2)>>,
          <<IOOpTest("in", 5, TRUE)>>,
          <<IOOpTest("out", 5 + 7 - 1, TRUE), IOOpTest("out", 2 * (5 + 7 - 1), TRUE),
            IOOpTest("out", 55, TRUE)>>, NoArgs)}

(* TEST IOSubroutine4: xx += sub_recvA(in); xx += sub_recvB(in);          *)
(* sub_sendA(xx, out); sub_sendB(xx, out).                                 *)
IOSubroutine4(a) ==
    LET xx == 0 + In(a, "in", 0) + In(a, "in", 1)
    IN  <<RecvRet(TRUE), RecvRet(TRUE), SendRet(xx, TRUE), SendRet(xx, TRUE)>>
IOSubroutine4Cases ==
    {Case("IOSubroutine4",
          <<Recv("in", 0), Recv("in", 1), Send("out", 0), Send("out", 1)>>,
          <<IOOpTest("in", 5, TRUE), IOOpTest("in", 15, TRUE)>>,
          <<IOOpTest("out", 20, TRUE), IOOpTest("out", 20, TRUE)>>, NoArgs)}

(* TEST IOSubroutine5: IOSubroutine4 calling one sub_recv and one        *)
(* sub_send twice each.                                                    *)
IOSubroutine5(a) ==
    LET xx == 0 + In(a, "in", 0) + In(a, "in", 1)
    IN  <<RecvRet(TRUE), RecvRet(TRUE), SendRet(xx, TRUE), SendRet(xx, TRUE)>>
IOSubroutine5Cases ==
    {Case("IOSubroutine5",
          <<Recv("in", 0), Recv("in", 1), Send("out", 0), Send("out", 1)>>,
          <<IOOpTest("in", 5, TRUE), IOOpTest("in", 15, TRUE)>>,
          <<IOOpTest("out", 20, TRUE), IOOpTest("out", 20, TRUE)>>, NoArgs)}

(* TEST IOMethodSubroutine: f.sub_send(7 + f.sub_recv(in), out);          *)
(* out.write(55), with the subroutines methods of a struct Foo.           *)
IOMethodSubroutine(a) ==
    <<RecvRet(TRUE), SendRet(7 + In(a, "in", 0), TRUE), SendRet(55, TRUE)>>
IOMethodSubroutineCases ==
    {Case("IOMethodSubroutine", <<Recv("in", 0), Send("out", 0), Send("out", 1)>>,
          <<IOOpTest("in", 5, TRUE)>>,
          <<IOOpTest("out", 5 + 7, TRUE), IOOpTest("out", 55, TRUE)>>, NoArgs)}

(* TEST IOUnrolled: for (i = 0; i < 4; ++i) out.write(i), unrolled. *)
IOUnrolled(a) == [k \in 1..4 |-> SendRet(k - 1, TRUE)]
IOUnrolledCases ==
    {Case("IOUnrolled", [k \in 1..4 |-> Send("out", k - 1)], <<>>,
          [k \in 1..4 |-> IOOpTest("out", k - 1, TRUE)], NoArgs)}

(* TEST IOUnrolledSubroutine: for (i = 0; i < 4; ++i) sub(in, i, out),    *)
(* unrolled, where sub does out.write(i * in.read()): iteration i is the *)
(* receive at position 2i+1 and the send at 2i+2.                          *)
IOUnrolledSubroutine(a) ==
    [k \in 1..8 |-> IF k % 2 = 1 THEN RecvRet(TRUE)
                    ELSE LET i == (k - 2) \div 2 IN SendRet(i * In(a, "in", i), TRUE)]
IOUnrolledSubroutineCases ==
    {Case("IOUnrolledSubroutine",
          [k \in 1..8 |-> IF k % 2 = 1 THEN Recv("in", (k - 1) \div 2)
                          ELSE Send("out", (k - 2) \div 2)],
          <<IOOpTest("in", 2, TRUE), IOOpTest("in", 4, TRUE),
            IOOpTest("in", 5, TRUE), IOOpTest("in", 10, TRUE)>>,
          <<IOOpTest("out", 0, TRUE), IOOpTest("out", 4, TRUE),
            IOOpTest("out", 10, TRUE), IOOpTest("out", 30, TRUE)>>, NoArgs)}

(* TEST IOUnrolledUnsequenced: for (i = 0; i < 3; ++i) ret += 2*in.read(), *)
(* unrolled; out.write(ret).                                               *)
IOUnrolledUnsequenced(a) ==
    LET ret == 2 * In(a, "in", 0) + 2 * In(a, "in", 1) + 2 * In(a, "in", 2)
    IN  <<RecvRet(TRUE), RecvRet(TRUE), RecvRet(TRUE), SendRet(ret, TRUE)>>
IOUnrolledUnsequencedCases ==
    {Case("IOUnrolledUnsequenced",
          <<Recv("in", 0), Recv("in", 1), Recv("in", 2), Send("out", 0)>>,
          <<IOOpTest("in", 10, TRUE), IOOpTest("in", 20, TRUE), IOOpTest("in", 100, TRUE)>>,
          <<IOOpTest("out", 260, TRUE)>>, NoArgs)}

(* TEST IOInThisExpr: out.write(3*in.read().foo()) on a channel of       *)
(* struct Test {int x;}, whose value is the tuple of its fields.          *)
IOInThisExpr(a) ==
    <<RecvRet(TRUE), SendRet(3 * a[ArgName("in", 0)].elems[1].bits, TRUE)>>
IOInThisExprCases ==
    {Case("IOInThisExpr", <<Recv("in", 0), Send("out", 0)>>,
          <<[name |-> "in", value |-> Tuple(<<Bits(5)>>), condition |-> TRUE]>>,
          <<IOOpTest("out", 15, TRUE)>>, NoArgs)}
(* TEST IOShortCircuitAnd: zero = 0; x = in.read(); v = 100;              *)
(* if (zero && x) v = out.read(); out.write(1 + v).  The read of the      *)
(* output channel sits under a condition that folds to false.            *)
IOShortCircuitAndGuard == CAnd(False, Dyn)
IOShortCircuitAnd(a) ==
    <<RecvRet(TRUE)>> \o Guarded(IOShortCircuitAndGuard, <<RecvRet(FALSE)>>)
    \o <<SendRet(1 + 100, TRUE)>>
IOShortCircuitAndCases ==
    {Case("IOShortCircuitAnd",
          <<Recv("in", 0)>> \o Guarded(IOShortCircuitAndGuard, <<Recv("out", 0)>>)
          \o <<Send("out", 0)>>,
          <<IOOpTest("in", 1000, TRUE)>>, <<IOOpTest("out", 101, TRUE)>>, NoArgs)}

(* TEST IOShortCircuitOr: one = 1; if (!(one || x)) v = out.read(). *)
IOShortCircuitOrGuard == CNot(COr(True, Dyn))
IOShortCircuitOr(a) ==
    <<RecvRet(TRUE)>> \o Guarded(IOShortCircuitOrGuard, <<RecvRet(FALSE)>>)
    \o <<SendRet(1 + 100, TRUE)>>
IOShortCircuitOrCases ==
    {Case("IOShortCircuitOr",
          <<Recv("in", 0)>> \o Guarded(IOShortCircuitOrGuard, <<Recv("out", 0)>>)
          \o <<Send("out", 0)>>,
          <<IOOpTest("in", 1000, TRUE)>>, <<IOOpTest("out", 101, TRUE)>>, NoArgs)}

(* TEST IONoShortCircuitAnd: one = 1; x = in.read(); v = 100;             *)
(* if (one && x) v = in.read(); out.write(1 + v).                          *)
IONoShortCircuitAndGuard == CAnd(True, Dyn)
IONoShortCircuitAnd(a) ==
    LET c == In(a, "in", 0) # 0
        v == IF c THEN In(a, "in", 1) ELSE 100
    IN  <<RecvRet(TRUE)>> \o Guarded(IONoShortCircuitAndGuard, <<RecvRet(c)>>)
        \o <<SendRet(1 + v, TRUE)>>
IONoShortCircuitAndCases ==
    LET ops == <<Recv("in", 0)>> \o Guarded(IONoShortCircuitAndGuard, <<Recv("in", 1)>>)
               \o <<Send("out", 0)>> IN
    {Case("IONoShortCircuitAnd", ops,
          <<IOOpTest("in", 0, TRUE), IOOpTest("in", 0, FALSE)>>,
          <<IOOpTest("out", 101, TRUE)>>, NoArgs),
     Case("IONoShortCircuitAnd", ops,
          <<IOOpTest("in", 1, TRUE), IOOpTest("in", 1000, TRUE)>>,
          <<IOOpTest("out", 1001, TRUE)>>, NoArgs)}

(* template<bool direction_read> read_or_write(ch, val):                   *)
(* if (direction_read) val = ch.read(); else ch.write(val).  The results  *)
(* of an instance, given its read's and its write's.                      *)
ReadOrWriteOps(direction_read, ch) ==
    Guarded(direction_read, <<Recv(ch, 0)>>) \o Guarded(CNot(direction_read), <<Send(ch, 0)>>)
ReadOrWriteRets(direction_read, read_ret, write_ret) ==
    Guarded(direction_read, <<read_ret>>) \o Guarded(CNot(direction_read), <<write_ret>>)

(* TEST IOConstCondition: v = 100; read_or_write<true>(in, v); ++v;      *)
(* read_or_write<false>(out, v).                                           *)
IOConstCondition(a) ==
    LET v == In(a, "in", 0) + 1
    IN  ReadOrWriteRets(True, RecvRet(TRUE), SendRet(100, FALSE))
        \o ReadOrWriteRets(False, RecvRet(FALSE), SendRet(v, TRUE))
IOConstConditionCases ==
    {Case("IOConstCondition", ReadOrWriteOps(True, "in") \o ReadOrWriteOps(False, "out"),
          <<IOOpTest("in", 5, TRUE)>>, <<IOOpTest("out", 6, TRUE)>>, NoArgs)}

(* TEST IOConstConditionShortCircuitAnd: read_or_write writes only       *)
(* if (val > 0).                                                           *)
IOConstConditionShortCircuitAnd(a) ==
    LET v == In(a, "in", 0) + 1
    IN  ReadOrWriteRets(True, RecvRet(TRUE), SendRet(100, FALSE))
        \o ReadOrWriteRets(False, RecvRet(FALSE), SendRet(v, v > 0))
IOConstConditionShortCircuitAndCases ==
    {Case("IOConstConditionShortCircuitAnd",
          ReadOrWriteOps(True, "in") \o ReadOrWriteOps(False, "out"),
          <<IOOpTest("in", 5, TRUE)>>, <<IOOpTest("out", 6, TRUE)>>, NoArgs)}

(***************************************************************************)
(* The suite: every IOTest call of the file, and the function each one's  *)
(* content translates to.                                                  *)
(***************************************************************************)
SuiteCases ==
    UNION {IOCases, IOReadToParamCases, IOUnsequencedCheckCases, IOMultiCases,
           IOWriteConditionalCases, IOReadConditionalCases, IOSubroutineCases,
           IOSubroutineDeclOrderCases, IOSubroutine2Cases, IOSubroutine3Cases,
           IOSubroutine4Cases, IOSubroutine5Cases, IOMethodSubroutineCases,
           IOUnrolledCases, IOUnrolledSubroutineCases, IOUnrolledUnsequencedCases,
           IOInThisExprCases, IOShortCircuitAndCases, IOShortCircuitOrCases,
           IONoShortCircuitAndCases, IOConstConditionCases,
           IOConstConditionShortCircuitAndCases}

Program(c, a) ==
    CASE c.prog = "IO" -> IO(a)
      [] c.prog = "IOReadToParam" -> IOReadToParam(a)
      [] c.prog = "IOUnsequencedCheck" -> IOUnsequencedCheck(a)
      [] c.prog = "IOMulti" -> IOMulti(a)
      [] c.prog = "IOWriteConditional" -> IOWriteConditional(a)
      [] c.prog = "IOReadConditional" -> IOReadConditional(a)
      [] c.prog = "IOSubroutine" -> IOSubroutine(a)
      [] c.prog = "IOSubroutineDeclOrder" -> IOSubroutineDeclOrder(a)
      [] c.prog = "IOSubroutine2" -> IOSubroutine2(a)
      [] c.prog = "IOSubroutine3" -> IOSubroutine3(a)
      [] c.prog = "IOSubroutine4" -> IOSubroutine4(a)
      [] c.prog = "IOSubroutine5" -> IOSubroutine5(a)
      [] c.prog = "IOMethodSubroutine" -> IOMethodSubroutine(a)
      [] c.prog = "IOUnrolled" -> IOUnrolled(a)
      [] c.prog = "IOUnrolledSubroutine" -> IOUnrolledSubroutine(a)
      [] c.prog = "IOUnrolledUnsequenced" -> IOUnrolledUnsequenced(a)
      [] c.prog = "IOInThisExpr" -> IOInThisExpr(a)
      [] c.prog = "IOShortCircuitAnd" -> IOShortCircuitAnd(a)
      [] c.prog = "IOShortCircuitOr" -> IOShortCircuitOr(a)
      [] c.prog = "IONoShortCircuitAnd" -> IONoShortCircuitAnd(a)
      [] c.prog = "IOConstCondition" -> IOConstCondition(a)
      [] c.prog = "IOConstConditionShortCircuitAnd" -> IOConstConditionShortCircuitAnd(a)

(* xls::InterpretFunctionKwargs(entry, args) *)
SuiteInterpret(c, a) == FunctionResult(Program(c, a))

(* Every IOTest call in translator_io_test passes: the expectations each *)
(* test writes down agree with what its C++ program does, through the     *)
(* harness's packing of inputs, its reading of the result tuple and its  *)
(* skipping of unsent data.                                                *)
SuitePasses == <>(outcome = "passed")
============================================================================
