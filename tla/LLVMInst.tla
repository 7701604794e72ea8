------------------------------ MODULE LLVMInst ------------------------------
(***************************************************************************)
(* What the analysis and the instrumentation pass see of an instruction:   *)
(* its definition and its uses (the two classes LLVMInst).                 *)
(*                                                                         *)
(* A program is a record                                                   *)
(*   fn        function -> [args, body, decl, void]                        *)
(*   base      result of an address computation -> its pointer operand     *)
(*   ptr       values of pointer type                                      *)
(*   const     constants that are no globals                               *)
(*   global    variables                                                   *)
(*   readonly  parameters the function only reads through                  *)
(*   inactive  address computations of fields that are not followed        *)
(* and an instruction is a record [v, op, ops, callee, void, bb]: its      *)
(* value, opcode, operands (the function called comes last), the function  *)
(* called if it is known, whether the result is void, its block.           *)
(***************************************************************************)
EXTENDS Naturals, Sequences

CONSTANTS NoValue, NoFunc

IsCall(i) == i.op \in {"call", "invoke"}
IsAdd(i) == i.op \in {"add", "fadd", "sub", "fsub"}
IsMul(i) == i.op \in {"mul", "fmul"}
IsDiv(i) == i.op \in {"udiv", "sdiv", "fdiv"}
IsInstrinsicDbgInst(i) == i.op \in {"dbg", "lifetime"}
IsSkipped(i) == IsInstrinsicDbgInst(i) \/ i.op \in {"unreachable", "alloca"}

\* The opcodes both classes decode as a result computed from the operands; a
\* floating point division is not among them.
Computes ==
    {"gep", "phi", "load", "trunc", "zext", "sext", "fptoui", "fptosi", "uitofp",
     "sitofp", "fptrunc", "fpext", "ptrtoint", "inttoptr", "bitcast", "addrspacecast",
     "select", "vaarg", "icmp", "lshr", "ashr", "shl", "and", "or", "xor", "add",
     "fadd", "sub", "fsub", "mul", "fmul", "sdiv", "udiv", "urem", "srem"}

GetBaseAddr(P, v) == IF v \in DOMAIN P.base THEN P.base[v] ELSE v
Bases(P, s) == [k \in DOMAIN s |-> GetBaseAddr(P, s[k])]
First(s) == SubSeq(s, 1, IF s = <<>> THEN 0 ELSE 1)
Actuals(s) == SubSeq(s, 1, Len(s) - 1)
IsConst(P, v) == v \in P.const

GetDef(i) ==
    CASE i.op = "store"                  -> i.ops[2]
      [] IsCall(i) /\ ~i.void            -> i.v
      [] i.op \in Computes               -> i.v
      [] OTHER                           -> NoValue

\* The uses as the analysis decodes them ...
Uses(P, i) ==
    CASE i.op \in {"store", "br", "ret"} -> Bases(P, First(i.ops))
      [] IsCall(i)                       -> Bases(P, Actuals(i.ops))
      [] i.op \in Computes               -> Bases(P, i.ops)
      [] OTHER                           -> <<>>

\* ... and as the pass does: all operands of a branch, operands of stores and
\* returns as they are, and a pointer that merges others as its own use.
PassUses(P, i) ==
    CASE i.op \in {"store", "ret"}       -> First(i.ops)
      [] i.op = "br"                     -> Bases(P, i.ops)
      [] IsCall(i)                       -> Bases(P, Actuals(i.ops))
      [] i.op = "phi" /\ i.v \in P.ptr   -> <<i.v>>
      [] i.op \in Computes               -> Bases(P, i.ops)
      [] OTHER                           -> <<>>
=============================================================================
