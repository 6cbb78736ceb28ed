------------------------------ MODULE MCLocal ------------------------------
(***************************************************************************)
(* What a process does by itself, one subject in each behaviour: loads of  *)
(* values into the memory of both parties (PairedLoad), values written     *)
(* into a file and read back (Containers), a program run over a symbol     *)
(* table (RuntimeProgram), or slices and bytes taken from what is reused   *)
(* (Scratch).  The variables of a component stay as they are in the others'*)
(* behaviours: initial, and None those of Scratch.                         *)
(***************************************************************************)
EXTENDS PairedLoad, RuntimeProgram, Containers, FiniteSets, TLC

VARIABLES
  subject,
  pools, arenas, contents, kept, calls, expanded, buffer, index, given, gifts, samples

reuseVars == <<pools, arenas, contents, kept, calls, expanded, buffer, index, given, gifts, samples>>
-----------------------------------------------------------------------------
\* Three loads in any mixture of the two ways and of ciphertexts and keys.
CONSTANTS l1, l2, l3
MCLoads == {l1, l2, l3}
Symmetry == Permutations(MCLoads)

\* Programs of up to three instructions over three names: one that is written
\* once, others that update in place, overwrite or rename, and instructions
\* whose operator returns more or fewer values than they name.
I(op, inputs, outputs) == [op |-> op, inputs |-> inputs, outputs |-> outputs]
MCInstructions ==
  { I("one", <<"a">>, <<"b">>), I("one", <<"b">>, <<"c">>), I("one", <<"a">>, <<"a">>),
    I("two", <<"a">>, <<"b", "c">>), I("two", <<"a", "b">>, <<"b", "a">>),
    I("two", <<>>, <<"c">>), I("one", <<"c">>, <<"b", "a">>) }
MCReturns == [one |-> 1, two |-> 2]
MCPrograms == UNION {[1 .. n -> MCInstructions] : n \in 1 .. 3}

\* Two arenas of two threads, from a capacity of one word to four, by doubling
\* and to what is asked for; reads below and above a block of four bytes; words
\* of two bytes, moduli with 1 and with 3 and 2 words too many.
Byte(block, place) == (5 * block + 3 * place + 2) % 4
Reuse ==
  INSTANCE Scratch WITH
    Threads <- {"t", "u"}, Arenas <- {"x", "y"}, Least <- 1, Requests <- {0, 2}, Lengths <- {1, 3},
    MaxWords <- 4, MaxBuffers <- 3, MaxCalls <- 6,
    Block <- 4, Reads <- {1, 2, 3, 5, 9}, MaxBlocks <- 5, MaxRedraws <- 2, ByteValues <- 4, WordBytes <- 2,
    Expand <- Byte, Bases <- {<<5>>, <<7, 3>>},
    counter <- expanded

ASSUME InstancesAssumption == Reuse!ScratchAssumption
-----------------------------------------------------------------------------
None == "none"
LoadsUnused == Init /\ generic = {} /\ foreign = {} /\ badKeys = {}
ProgramUnused ==
  /\ program = <<I("one", <<"a">>, <<"b">>)>> /\ registered = {} /\ symbols = NoSymbols /\ tracing = FALSE
  /\ ProgramInit
ReuseUnused ==
  /\ pools = None /\ arenas = None /\ contents = None /\ kept = None
  /\ calls = None /\ expanded = None /\ buffer = None /\ index = None
  /\ given = None /\ gifts = None /\ samples = None

LocalInit ==
  \/ subject = "load" /\ Init /\ ContainersInit /\ ProgramUnused /\ ReuseUnused
  \/ subject = "file" /\ LoadsUnused /\ ContainersInit /\ ProgramUnused /\ ReuseUnused
  \/ subject = "program" /\ LoadsUnused /\ ContainersInit /\ ProgramInit /\ ReuseUnused
  \/ subject \in {"arena", "stream"} /\ LoadsUnused /\ ContainersInit /\ ProgramUnused /\ Reuse!Init

LocalNext ==
  /\ UNCHANGED subject
  /\ \/ subject = "load" /\ Next /\ UNCHANGED <<containerVars, programVars, reuseVars>>
     \/ subject = "file" /\ ContainersNext /\ UNCHANGED <<vars, programVars, reuseVars>>
     \/ subject = "program" /\ ProgramNext /\ UNCHANGED <<vars, containerVars, reuseVars>>
     \/ subject = "arena" /\ Reuse!ScratchNext /\ UNCHANGED <<vars, containerVars, programVars>>
     \/ subject = "stream" /\ Reuse!StreamNext /\ UNCHANGED <<vars, containerVars, programVars>>

LocalSpec == LocalInit /\ [][LocalNext]_<<subject, vars, containerVars, programVars, reuseVars>>
-----------------------------------------------------------------------------
\* Scratch: no two users share a buffer, slices stay as their user left them,
\* and a generator gives every byte once.
ReusesCleanly ==
  /\ subject = "arena" => Reuse!HeldOnce /\ Reuse!KeepsSlices
  /\ subject = "stream" => Reuse!GivesOnce /\ Reuse!DrawsFairly
=============================================================================
