----------------------- MODULE MC_SerialProcRuntime -----------------------
(***************************************************************************)
(* A three-proc network, declared A, B, C, whose data flows against the   *)
(* declaration order, so that a pass can unblock a proc it already        *)
(* visited:  host -in-> C -cb-> B -ba-> A -out-> host, where cb is seeded *)
(* with one initial value, B sends on ba before it receives, and B sends *)
(* and A receives on ba only on even ticks, and A also reads a SingleValue register cfg the host sets. *)
(***************************************************************************)
EXTENDS SerialProcRuntime

CONSTANTS A, B, C, in, cb, ba, out, cfg

MCProcs == {A, B, C}
MCProcOrder == <<A, B, C>>
MCChannels == {in, cb, ba, out, cfg}

MCProgram ==
  [p \in MCProcs |->
     CASE p = A -> << [kind |-> "recv", channel |-> cfg, when |-> "always"],
                      [kind |-> "recv", channel |-> ba,  when |-> "even"],
                      [kind |-> "send", channel |-> out, when |-> "always"] >>
       [] p = B -> << [kind |-> "send", channel |-> ba,  when |-> "even"],
                      [kind |-> "recv", channel |-> cb,  when |-> "always"] >>
       [] p = C -> << [kind |-> "recv", channel |-> in,  when |-> "always"],
                      [kind |-> "send", channel |-> cb,  when |-> "always"] >>]

MCInitialValues == [c \in MCChannels |-> IF c = cb THEN <<7>> ELSE <<>>]

=============================================================================
