---------------------------------- MODULE Cpu ----------------------------------
(***************************************************************************)
(* Mikro/lab1, cpu.v and its wiring to the memory in toplevel.v.  The      *)
(* processor acts on the rising edge of clk, in four states: address,      *)
(* fetch, execute, access.  The memory is synchronous and has the inverted *)
(* clock: on the falling edge it writes if mem_we is set, and latches what *)
(* it reads.  reset_n acts at any time, in the middle of an instruction.   *)
(*                                                                         *)
(* Registers that reset leaves alone hold anything after power-up.  A      *)
(* write also shows on mem_data_r; that choice is the memory's.            *)
(***************************************************************************)
EXTENDS Naturals

CONSTANTS Memories,     \* the memories a run may start with
          PowerUp       \* bound: bytes a register may hold before it is written

Nibbles == 0 .. 15
BytesOf == 0 .. 255

CpuAssumption == Memories \subseteq [Nibbles -> BytesOf] /\ PowerUp \subseteq BytesOf

VARIABLES
    state, pc, opcode, r0, r1,          \* registers
    mem_address, mem_data_w, mem_we,    \* what the processor drives
    memory, mem_data_r,                 \* the memory and what it has latched
    clk                                 \* the level of the clock

registers == <<state, pc, opcode, r0, r1>>
bus == <<mem_address, mem_data_w, mem_we>>
vars == <<registers, bus, memory, mem_data_r, clk>>

\* After power-up and reset.
Init ==
    /\ state = 0 /\ pc = 0 /\ r0 = 0 /\ r1 = 0 /\ mem_we = 0
    /\ \E b \in PowerUp : opcode = b /\ mem_address = b % 16 /\ mem_data_w = b /\ mem_data_r = b
    /\ memory \in Memories /\ clk = 0

High == opcode \div 16
Low == opcode % 16
IsStore == High \in {14, 15}
IsLoad == High \in {12, 13}

-----------------------------------------------------------------------------
(* The states of the processor                                             *)

\* Mutant: the write enable of the last instruction is left on.
AddressNoDisable ==
    /\ state = 0 /\ state' = 1
    /\ mem_address' = pc /\ UNCHANGED <<pc, opcode, r0, r1, mem_we, mem_data_w>>

Address ==
    /\ state = 0 /\ state' = 1
    /\ mem_we' = 0 /\ mem_address' = pc
    /\ UNCHANGED <<pc, opcode, r0, r1, mem_data_w>>

Fetch ==
    /\ state = 1 /\ state' = 2
    /\ opcode' = mem_data_r /\ pc' = (pc + 1) % 16
    /\ UNCHANGED <<r0, r1, bus>>

Jump == High = 0 /\ pc' = Low /\ UNCHANGED <<r0, r1, bus>>

\* Sums are cut to four bits; the product has eight, for both registers.
Calculate ==
    /\ \/ High = 2 /\ r0' = (r0 + r1) % 16 /\ UNCHANGED r1
       \/ High = 3 /\ r1' = (r0 + r1) % 16 /\ UNCHANGED r0
       \/ High = 6 /\ r0' = (r0 * r1) \div 16 /\ r1' = (r0 * r1) % 16
       \/ High \in {1, 4, 5, 7} /\ UNCHANGED <<r0, r1>>
    /\ UNCHANGED <<pc, bus>>

Move ==
    /\ \/ High = 8 /\ r0' = Low /\ UNCHANGED r1
       \/ High = 9 /\ r1' = Low /\ UNCHANGED r0
       \/ High = 10 /\ r0' = r1 /\ UNCHANGED r1
       \/ High = 11 /\ r1' = r0 /\ UNCHANGED r0
    /\ UNCHANGED <<pc, bus>>

Point ==
    /\ IsStore \/ IsLoad
    /\ mem_address' = Low
    /\ mem_data_w' = CASE High = 14 -> r0 [] High = 15 -> r1 [] OTHER -> mem_data_w
    /\ UNCHANGED <<pc, r0, r1, mem_we>>

Execute == state = 2 /\ state' = 3 /\ (Jump \/ Calculate \/ Move \/ Point) /\ UNCHANGED opcode

Access ==
    /\ state = 3 /\ state' = 0
    /\ mem_we' = IF IsStore THEN 1 ELSE mem_we
    /\ r0' = IF High = 12 THEN mem_data_r % 16 ELSE r0
    /\ r1' = IF High = 13 THEN mem_data_r % 16 ELSE r1
    /\ UNCHANGED <<pc, opcode, mem_address, mem_data_w>>

Rise ==
    /\ clk = 0 /\ clk' = 1
    /\ Address \/ Fetch \/ Execute \/ Access
    /\ UNCHANGED <<memory, mem_data_r>>

-----------------------------------------------------------------------------
(* The memory and reset                                                    *)

Fall ==
    /\ clk = 1 /\ clk' = 0
    /\ memory' = IF mem_we = 1 THEN [memory EXCEPT ![mem_address] = mem_data_w] ELSE memory
    /\ mem_data_r' = memory'[mem_address]
    /\ UNCHANGED <<registers, bus>>

Reset ==
    /\ state' = 0 /\ pc' = 0 /\ r0' = 0 /\ r1' = 0 /\ mem_we' = 0
    /\ UNCHANGED <<opcode, mem_address, mem_data_w, memory, mem_data_r, clk>>

Next == Rise \/ Fall \/ Reset

Spec == Init /\ [][Next]_vars

-----------------------------------------------------------------------------
(* Properties                                                              *)

TypeOK ==
    /\ state \in 0 .. 3 /\ pc \in Nibbles /\ opcode \in BytesOf /\ r0 \in Nibbles /\ r1 \in Nibbles
    /\ mem_address \in Nibbles /\ mem_data_w \in BytesOf /\ mem_we \in {0, 1}
    /\ memory \in [Nibbles -> BytesOf] /\ mem_data_r \in BytesOf /\ clk \in {0, 1}

\* An instruction that has been fetched has taken effect once its last register or
\* byte is written: a load in state 3, a store at the falling edge after it, the
\* others in state 2.  Until then it is still to come.
Pending ==
    \/ state = 2
    \/ state = 3 /\ (IsLoad \/ IsStore)
    \/ state = 0 /\ mem_we = 1 /\ clk = 1

Program == INSTANCE Isa WITH pc <- IF Pending THEN (pc + 15) % 16 ELSE pc

\* cpu.v:70-157: four states and a memory half a clock behind make one instruction
\* at a time, with the old values of the registers, one byte written by a store
\* and none by anything else, also when a program changes the instructions that
\* come next; a reset in the middle leaves an instruction done or not begun.
ImplementsIsa == Program!Spec
=================================================================================
