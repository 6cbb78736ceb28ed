--------------------------- MODULE RuntimeProgram ---------------------------
(***************************************************************************)
(* A named program run over a symbol table (program.rs, value.rs): each    *)
(* instruction reads its inputs by name, calls a registered operator and   *)
(* binds what it returns to its output names.  Nothing is undone when an   *)
(* instruction fails; the host may then add what was missing and run the   *)
(* same program again over the table as it was left.                       *)
(*                                                                         *)
(* A value is the term that says how it came about: operator, inputs and   *)
(* place among the outputs; one of the host is its name and a number.      *)
(***************************************************************************)
EXTENDS Naturals, SequencesExt

CONSTANTS
  Names,          \* symbol names
  Returns,        \* Returns[op]: number of values operator op returns
  Programs,       \* the programs to choose from
  MaxEvals,       \* bound: evaluations of the program
  MaxEdits        \* bound: changes by the host, besides registering

Operators == DOMAIN Returns

\* RuntimeInstruction::new: output names are unique.
Instructions ==
  [op : Operators, inputs : Seq(Names), outputs : {s \in Seq(Names) : IsInjective(s)}]

ASSUME ProgramAssumption ==
  /\ \A op \in Operators : Returns[op] \in Nat
  /\ Programs \subseteq Seq(Instructions)

VARIABLES
  program,
  registered,   \* operators in the registry
  symbols,      \* the table: a function on the names that are bound
  pc,           \* the instruction the evaluation is at
  status,       \* "idle", "running", "done" or "failed"
  tracing,      \* enable_action_trace or enable_operator_trace
  trace,        \* RuntimeContext.trace
  evals, edits,
  start,        \* history: the table and the length of the trace when the
                \* evaluation began
  base,         \* history: what the host has put into the table
  pristine      \* history: the host has changed nothing that was bound, and
                \* bound nothing twice, since the program was first run

hostVars == <<edits, base, pristine>>
programVars == <<program, registered, symbols, pc, status, tracing, trace, evals, start, hostVars>>

NoSymbols == [n \in {} |-> 0]
Value(n, i) == <<n, <<>>, i>>
With(table, n, v) == [m \in DOMAIN table \cup {n} |-> IF m = n THEN v ELSE table[m]]
Without(table, n) == [m \in DOMAIN table \ {n} |-> table[m]]

ProgramInit ==
  /\ program \in Programs
  /\ registered \in SUBSET Operators
  /\ symbols \in {[n \in bound |-> Value(n, 0)] : bound \in SUBSET Names}
  /\ pc = 1
  /\ status = "idle"
  /\ tracing \in BOOLEAN
  /\ trace = <<>>
  /\ evals = 0 /\ edits = 0
  /\ start = [symbols |-> symbols, events |-> 0]
  /\ base = symbols
  /\ pristine = TRUE
-----------------------------------------------------------------------------
(* The host, between two evaluations.                                      *)

\* A second operator of the same name is refused.
Register(op) ==
  /\ status # "running"
  /\ op \notin registered
  /\ registered' = registered \cup {op}
  /\ UNCHANGED <<program, symbols, pc, status, tracing, trace, evals, start, hostVars>>

SetVar(n) ==
  /\ status # "running"
  /\ edits < MaxEdits
  /\ edits' = edits + 1
  /\ symbols' = With(symbols, n, Value(n, edits + 1))
  /\ base' = With(base, n, Value(n, edits + 1))
  /\ pristine' = (pristine /\ (status = "idle" \/ n \notin DOMAIN symbols))
  /\ UNCHANGED <<program, registered, pc, status, tracing, trace, evals, start>>

DelVar(n) ==
  /\ status # "running"
  /\ edits < MaxEdits
  /\ n \in DOMAIN symbols
  /\ edits' = edits + 1
  /\ symbols' = Without(symbols, n)
  /\ base' = Without(base, n)
  /\ pristine' = (pristine /\ status = "idle")
  /\ UNCHANGED <<program, registered, pc, status, tracing, trace, evals, start>>

Eval ==
  /\ status # "running"
  /\ evals < MaxEvals
  /\ evals' = evals + 1
  /\ pc' = 1
  /\ status' = "running"
  /\ start' = [symbols |-> symbols, events |-> Len(trace)]
  /\ UNCHANGED <<program, registered, symbols, tracing, trace, hostVars>>
-----------------------------------------------------------------------------
Instruction == program[pc]
Bound == ToSet(Instruction.inputs) \subseteq DOMAIN symbols
Inputs == [i \in DOMAIN Instruction.inputs |-> symbols[Instruction.inputs[i]]]

Recorded(returned) ==
  IF tracing THEN Append(trace, [op |-> Instruction.op, inputs |-> Len(Instruction.inputs),
                                 outputs |-> returned])
             ELSE trace

\* An operator that fails is not in the trace.
RecordedBefore == Recorded(Len(Instruction.outputs))
RecordedFailure == trace

Stop(s) == status' = s
Unchanged == UNCHANGED <<program, registered, tracing, evals, start, hostVars>>

\* An input is not bound, the operator is not registered, or it fails.
EvalFails ==
  /\ status = "running" /\ pc <= Len(program)
  /\ Stop("failed")
  /\ trace' = IF Bound /\ Instruction.op \in registered THEN RecordedFailure ELSE trace
  /\ UNCHANGED <<symbols, pc>> /\ Unchanged

Called ==
  /\ status = "running" /\ pc <= Len(program)
  /\ Bound
  /\ Instruction.op \in registered
  /\ trace' = Recorded(Returns[Instruction.op])

\* The outputs bound to names, one after the other: a name in the table is
\* overwritten.
Place(n) == CHOOSE k \in DOMAIN Instruction.outputs : Instruction.outputs[k] = n
Given(n) == n \in ToSet(Instruction.outputs) /\ Place(n) <= Returns[Instruction.op]
BindUnbound ==
  [n \in DOMAIN symbols \cup {m \in Names : Given(m)} |->
     IF n \in DOMAIN symbols THEN symbols[n] ELSE <<Instruction.op, Inputs, Place(n)>>]
Bind ==
  [n \in DOMAIN symbols \cup {m \in Names : Given(m)} |->
     IF Given(n) THEN <<Instruction.op, Inputs, Place(n)>> ELSE symbols[n]]

CountMatches == Returns[Instruction.op] = Len(Instruction.outputs)

\* The operator has returned, and nothing is bound.
NothingBound == symbols
CountDiffers ==
  /\ Called
  /\ ~CountMatches
  /\ Stop("failed")
  /\ symbols' = NothingBound
  /\ UNCHANGED pc /\ Unchanged

EvalInstruction ==
  /\ Called
  /\ CountMatches
  /\ symbols' = Bind
  /\ pc' = pc + 1
  /\ UNCHANGED status /\ Unchanged

EvalReturns ==
  /\ status = "running" /\ pc > Len(program)
  /\ Stop("done")
  /\ UNCHANGED <<symbols, pc, trace>> /\ Unchanged
-----------------------------------------------------------------------------
ProgramNext ==
  \/ \E op \in Operators : Register(op)
  \/ \E n \in Names : SetVar(n) \/ DelVar(n)
  \/ Eval
  \/ EvalFails \/ CountDiffers \/ EvalInstruction \/ EvalReturns

ProgramSpec == ProgramInit /\ [][ProgramNext]_programVars
-----------------------------------------------------------------------------
\* What instruction i makes of a table, if it does not fail: every output name
\* is that output of its operator, called with what the table has.
Applied(table, i) ==
  [n \in DOMAIN table \cup ToSet(i.outputs) |->
     IF n \in ToSet(i.outputs)
     THEN <<i.op, [a \in DOMAIN i.inputs |-> table[i.inputs[a]]],
            CHOOSE k \in DOMAIN i.outputs : i.outputs[k] = n>>
     ELSE table[n]]

\* What the first k instructions make of a table, one after the other.
Stages(code, table) ==
  LET f[j \in 0 .. Len(code)] == IF j = 0 THEN table ELSE Applied(f[j - 1], code[j])
  IN  f
After(table, k) == Stages(program, table)[k]

\* A program that fails leaves the work of a prefix of its instructions, each
\* of them done or not done as a whole: also one whose operator has returned
\* another number of values than the instruction names.
LeavesPrefix ==
  [][status = "running" => symbols' = After(start.symbols, pc' - 1)]_programVars

\* No instruction writes a name that it or one before it has read or written.
WrittenOnce ==
  \A j \in DOMAIN program : \A i \in 1 .. j :
    /\ ToSet(program[i].inputs) \cap ToSet(program[j].outputs) = {}
    /\ i < j => ToSet(program[i].outputs) \cap ToSet(program[j].outputs) = {}

\* A program of such instructions may be run again after it failed anywhere,
\* once what was missing has been added, and ends as if it had been run once;
\* one that updates a name in place would apply the update again.
RerunIsFresh ==
  status = "done" /\ pristine /\ WrittenOnce => symbols = After(base, Len(program))

\* The trace of an evaluation lists the operators that have returned: those of
\* the prefix in the table, and one more only if its outputs were refused.
Events == Len(trace) - start.events
TraceMatchesTable ==
  tracing =>
    /\ status \in {"running", "done"} => Events = pc - 1
    /\ status = "failed" => Events - (pc - 1) \in {0, 1}
    /\ status = "failed" /\ Events = pc => Last(trace).outputs # Len(Instruction.outputs)
=============================================================================
