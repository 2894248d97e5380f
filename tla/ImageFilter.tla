------------------------------ MODULE ImageFilter ------------------------------
(***************************************************************************)
(* SysOpy/lab8/src/zad1/main.c: threads filter an image, each a range of   *)
(* columns, and raise a flag.  main does not join them: it spins on the    *)
(* flags and then writes the file.                                         *)
(*                                                                         *)
(* The flags and the pixels are read and written without synchronisation.  *)
(* The Makefile compiles without optimisation, for a machine that keeps    *)
(* the order of a thread's stores, so every load and store is one that     *)
(* memory sees in program order.  pthread_create may fail; nobody checks.  *)
(* Nor does anybody check the number of threads: none, for which a number  *)
(* below 0 does as well, writes an image of zeros.                         *)
(***************************************************************************)
EXTENDS Integers, FiniteSetsExt

CONSTANTS Widths, Heights, ThreadCounts,    \* what parseImage and argv may give
          Image(_, _),                      \* the pixels of the file
          FILTER_SIZE, FILTER, Unit         \* the filter, in multiples of 1/Unit

ASSUME ImageFilterAssumption ==
    /\ Widths \subseteq Nat \ {0} /\ Heights \subseteq Nat \ {0} /\ ThreadCounts \subseteq Nat
    /\ FILTER_SIZE \in Nat \ {0} /\ Unit \in Nat \ {0}
    /\ FILTER \in [(1 .. FILTER_SIZE) \X (1 .. FILTER_SIZE) -> Nat]
    /\ \A h \in Heights, w \in Widths : \A x \in 1 .. h, y \in 1 .. w : Image(x, y) \in Nat

VARIABLES
    WIDTH, HEIGHT, NUM_OF_THREADS, OUTPUT, FINISHED,
    thread,     \* "none", "missing" (not created), "runs" or "done"
    pos,        \* x and y of the loops of calculate
    main,       \* where main is, with i and flag of its loops
    file        \* the image in the output file, empty before it is written

args == <<WIDTH, HEIGHT, NUM_OF_THREADS>>
vars == <<args, OUTPUT, FINISHED, thread, pos, main, file>>

Threads == 0 .. NUM_OF_THREADS - 1
Rows == 1 .. HEIGHT
Pixels == Rows \X (1 .. WIDTH)

Init ==
    /\ WIDTH \in Widths /\ HEIGHT \in Heights /\ NUM_OF_THREADS \in ThreadCounts
    /\ OUTPUT = [p \in Pixels |-> 0] /\ FINISHED = [s \in Threads |-> 0]
    /\ thread = [s \in Threads |-> "none"] /\ pos = [s \in Threads |-> <<0, 0>>]
    /\ main = [at |-> "creates", i |-> 0, flag |-> 1] /\ file = <<>>

-----------------------------------------------------------------------------
(* The filter                                                              *)

\* ceil(FILTER_SIZE / 2), and round of a sum of multiples of 1/Unit.
Centre == (FILTER_SIZE + 1) \div 2
Rounded(sum) == (2 * sum + Unit) \div (2 * Unit)

\* The row or column of the image under an element of the filter: the first one
\* is repeated, what lies beyond the last one counts as 0.
Under(x, i) == Max({1, x - Centre + i})

Filtered(x, y) ==
    LET term(e) == LET r == Under(x, e[1]) k == Under(y, e[2]) IN
                   IF r - 1 < HEIGHT /\ k - 1 < WIDTH THEN Image(r, k) * FILTER[e] ELSE 0
    IN  Rounded(MapThenSumSet(term, DOMAIN FILTER))

-----------------------------------------------------------------------------
(* calculate                                                               *)

First(s) == (s * WIDTH) \div NUM_OF_THREADS + 1

\* Mutant: the width of a range is rounded down before it is multiplied.
LastRounded(s) == IF s + 1 # NUM_OF_THREADS THEN (s + 1) * (WIDTH \div NUM_OF_THREADS) ELSE WIDTH

Last(s) == IF s + 1 # NUM_OF_THREADS THEN ((s + 1) * WIDTH) \div NUM_OF_THREADS ELSE WIDTH

Calculate(s) ==
    LET x == pos[s][1] y == pos[s][2] IN
    /\ thread[s] = "runs" /\ x <= HEIGHT
    /\ IF y <= Last(s)
       THEN /\ OUTPUT' = [OUTPUT EXCEPT ![pos[s]] = Filtered(x, y)]
            /\ pos' = [pos EXCEPT ![s] = <<x, y + 1>>]
       ELSE pos' = [pos EXCEPT ![s] = <<x + 1, First(s)>>] /\ UNCHANGED OUTPUT
    /\ UNCHANGED <<args, FINISHED, thread, main, file>>

Finish(s) ==
    /\ thread[s] = "runs" /\ pos[s][1] > HEIGHT
    /\ FINISHED' = [FINISHED EXCEPT ![s] = 1] /\ thread' = [thread EXCEPT ![s] = "done"]
    /\ UNCHANGED <<args, OUTPUT, pos, main, file>>

-----------------------------------------------------------------------------
(* main                                                                    *)

Create ==
    /\ main.at = "creates" /\ main.i < NUM_OF_THREADS
    /\ main' = [main EXCEPT !.i = @ + 1]
    /\ \/ /\ thread' = [thread EXCEPT ![main.i] = "runs"]
          /\ pos' = [pos EXCEPT ![main.i] = <<1, First(main.i)>>]
       \/ thread' = [thread EXCEPT ![main.i] = "missing"] /\ UNCHANGED pos
    /\ UNCHANGED <<args, OUTPUT, FINISHED, file>>

Scans == [at |-> "scans", i |-> 0, flag |-> 1]

StartScan ==
    /\ main.at = "creates" /\ main.i = NUM_OF_THREADS /\ main' = Scans
    /\ UNCHANGED <<args, OUTPUT, FINISHED, thread, pos, file>>

\* Mutant: a flag that is up outweighs those that are not.
ReadFlagAny ==
    /\ main.at = "scans" /\ main.i < NUM_OF_THREADS
    /\ main' = [main EXCEPT !.i = @ + 1, !.flag = FINISHED[main.i]]
    /\ UNCHANGED <<args, OUTPUT, FINISHED, thread, pos, file>>

ReadFlag ==
    /\ main.at = "scans" /\ main.i < NUM_OF_THREADS
    /\ main' = [main EXCEPT !.i = @ + 1, !.flag = IF FINISHED[main.i] = 0 THEN 0 ELSE @]
    /\ UNCHANGED <<args, OUTPUT, FINISHED, thread, pos, file>>

EndScan ==
    /\ main.at = "scans" /\ main.i = NUM_OF_THREADS
    /\ main' = IF main.flag = 1 THEN [main EXCEPT !.at = "writes"] ELSE Scans
    /\ UNCHANGED <<args, OUTPUT, FINISHED, thread, pos, file>>

\* writeToFile and the end of main, which ends every thread that still runs.
Write ==
    /\ main.at = "writes" /\ main' = [main EXCEPT !.at = "end"]
    /\ file' = OUTPUT /\ thread' = [s \in Threads |-> "done"]
    /\ UNCHANGED <<args, OUTPUT, FINISHED, pos>>

MainStep == Create \/ StartScan \/ ReadFlag \/ EndScan \/ Write
ThreadStep(s) == Calculate(s) \/ Finish(s)
Next == MainStep \/ \E s \in Threads : ThreadStep(s)

Spec == Init /\ [][Next]_vars

\* Every thread runs on its own; main spins, it does not wait.
Fairness == WF_vars(MainStep)
            /\ \A s \in 0 .. Max(ThreadCounts) - 1 : WF_vars(s \in Threads /\ ThreadStep(s))

-----------------------------------------------------------------------------
(* Properties                                                              *)

TypeOK ==
    /\ WIDTH \in Widths /\ HEIGHT \in Heights /\ NUM_OF_THREADS \in ThreadCounts
    /\ OUTPUT \in [Pixels -> Nat] /\ FINISHED \in [Threads -> {0, 1}]
    /\ thread \in [Threads -> {"none", "missing", "runs", "done"}]
    /\ pos \in [Threads -> Nat \X Nat]
    /\ main.at \in {"creates", "scans", "writes", "end"} /\ main.i \in 0 .. NUM_OF_THREADS /\ main.flag \in {0, 1}
    /\ file \in {<<>>, OUTPUT}

\* What main has to find: without threads, the zeros of calloc.
Expected == [p \in Pixels |-> IF NUM_OF_THREADS = 0 THEN 0 ELSE Filtered(p[1], p[2])]

\* main.c:94-145, :162-180: the ranges of the threads cover the image and do not
\* overlap, and a flag that is up means its range is done: threads that still
\* calculate have not written a pixel of another's range, and once main has seen
\* all flags nothing it reads is missing or changes under it.
SeesFilteredImage ==
    /\ TypeOK
    /\ main.at \in {"writes", "end"} => OUTPUT = Expected
    /\ \A s, t \in Threads : s # t => First(s) .. Last(s) \intersect First(t) .. Last(t) = {}

\* The program ends with the filtered image in the file, whatever the order of
\* the threads, unless a thread was not created: then main spins for ever
\* (main.c:142, :145-152) and never writes a part of an image.
FilteredOrSpins ==
    \/ <>[](main.at = "end" /\ file = Expected)
    \/ <>[](main.at = "scans" /\ file = <<>> /\ \E s \in Threads : thread[s] = "missing")
=================================================================================
