------------------------------- MODULE MCFilesCpu -------------------------------
(* Three programs for TLC, side by side: the image filter of lab8, the record   *)
(* tool of lab2 and the processor of Mikro/lab1.  A behaviour is of the one     *)
(* chosen at its start; the others stay in an initial state.                    *)
EXTENDS ImageFilter

CONSTANTS Bytes, RecordSizes, BufferSizes, MaxBytes, MaxCommands, Memories, PowerUp

VARIABLES program,
          source, destination, cmd, at, i, j, buffer1, buffer2, recNum, offset, old, commands,
          state, pc, opcode, r0, r1, mem_address, mem_data_w, mem_we, memory, mem_data_r, clk

recordVars == <<source, destination, cmd, at, i, j, buffer1, buffer2, recNum, offset, old, commands>>
chipVars == <<state, pc, opcode, r0, r1, mem_address, mem_data_w, mem_we, memory, mem_data_r, clk>>

Records == INSTANCE RecordFile
Chip == INSTANCE Cpu

ASSUME RecordsAssumption == Records!RecordFileAssumption
ASSUME ChipAssumption == Chip!CpuAssumption

MCImage(x, y) == 7 * x * x + 5 * y

\* An unsymmetric filter whose weights are tenths.
MCFILTER == [e \in (1 .. 3) \X (1 .. 3) |-> (3 * e[1] + e[2]) % 4]

\* Jumps, constants, moves, sums, a product, a code without meaning, loads of code
\* as data, and stores into the code and behind it.
Codes == {2, 16, 32, 48, 96, 131, 159, 160, 176, 193, 210, 225, 243}

\* Every program of three such instructions; a 0 jumps to the start.
MCMemories == {[a \in 0 .. 15 |-> IF a < 3 THEN p[a] ELSE 0] : p \in [0 .. 2 -> Codes]}

\* The memory of a processor that is not chosen.
Idle == CHOOSE m \in Memories : TRUE

FilesInit ==
    /\ program \in {"filter", "records", "processor"} /\ Init /\ Records!Init /\ Chip!Init
    /\ program # "filter" => WIDTH = 2 /\ HEIGHT = 1 /\ NUM_OF_THREADS = 2
    /\ program # "processor" => memory = Idle /\ opcode = 0

FilesNext ==
    /\ \/ program = "filter" /\ Next /\ UNCHANGED <<recordVars, chipVars>>
       \/ program = "records" /\ Records!Next /\ UNCHANGED <<vars, chipVars>>
       \/ program = "processor" /\ Chip!Next /\ UNCHANGED <<vars, recordVars>>
    /\ program' = program

FilesSpec ==
    /\ FilesInit /\ [][FilesNext]_<<program, vars, recordVars, chipVars>>
    /\ program = "filter" => Fairness

\* The filter ends with the whole image or never writes (main.c:142, :145-152).
FilterEndsOrSpins == program = "filter" => FilteredOrSpins

\* Sorting and copying lose no record (zad1.c:139-173, :212-251).
RecordsKept == Records!RecordsKept

\* The processor carries out its instructions one at a time (cpu.v:70-157).
ImplementsIsa == Chip!ImplementsIsa
=================================================================================
