---------------------------------- MODULE Isa ----------------------------------
(***************************************************************************)
(* What a programmer of the processor in Mikro/lab1 relies on: two 4-bit   *)
(* registers, sixteen bytes of memory for code and data, and instructions  *)
(* that take effect one at a time, in the order the program counter says.  *)
(***************************************************************************)
EXTENDS Naturals

CONSTANT Memories     \* the memories a run may start with

VARIABLES pc, r0, r1, memory

vars == <<pc, r0, r1, memory>>

Init == pc = 0 /\ r0 = 0 /\ r1 = 0 /\ memory \in Memories

Code == memory[pc]
Operand == Code % 16
Is(high) == Code \div 16 = high
Next4(n) == (n + 1) % 16

Falls == pc' = Next4(pc)
Sets(v0, v1) == Falls /\ r0' = v0 /\ r1' = v1 /\ UNCHANGED memory
Stores(v) == Falls /\ memory' = [memory EXCEPT ![Operand] = v] /\ UNCHANGED <<r0, r1>>

Instruction ==
    \/ Is(0) /\ pc' = Operand /\ UNCHANGED <<r0, r1, memory>>
    \/ Is(2) /\ Sets((r0 + r1) % 16, r1)
    \/ Is(3) /\ Sets(r0, (r0 + r1) % 16)
    \/ Is(6) /\ Sets((r0 * r1) \div 16, (r0 * r1) % 16)
    \/ (\E nop \in {1, 4, 5, 7} : Is(nop)) /\ Sets(r0, r1)
    \/ Is(8) /\ Sets(Operand, r1)
    \/ Is(9) /\ Sets(r0, Operand)
    \/ Is(10) /\ Sets(r1, r1)
    \/ Is(11) /\ Sets(r0, r0)
    \/ Is(12) /\ Sets(memory[Operand] % 16, r1)
    \/ Is(13) /\ Sets(r0, memory[Operand] % 16)
    \/ Is(14) /\ Stores(r0)
    \/ Is(15) /\ Stores(r1)

Reset == pc' = 0 /\ r0' = 0 /\ r1' = 0 /\ UNCHANGED memory

Spec == Init /\ [][Instruction \/ Reset]_vars
=================================================================================
