----------------------------- MODULE FrameFifo -----------------------------
(***************************************************************************)
(* What one direction of a frame stream promises to the code above it: the *)
(* frames come out whole, in the order they were put in, none left out,    *)
(* until a fault breaks the stream.  A broken stream may skip frames or    *)
(* return a mixture of bytes as a frame (a frame header has no magic       *)
(* number and no checksum), but it never goes back.  FrameStream           *)
(* implements it.                                                          *)
(***************************************************************************)
EXTENDS Naturals, Sequences

CONSTANT Sizes      \* payload sizes frames may have

VARIABLES
  sent,             \* payload sizes of the frames put in; a frame is its index
  received,         \* what came out: indices of frames, or Mixed
  taken,            \* index of the last frame that came out
  broken            \* a fault has broken the stream

fifoVars == <<sent, received, taken, broken>>

Mixed == 0

FifoInit == sent = <<>> /\ received = <<>> /\ taken = 0 /\ broken = FALSE

Put ==
  /\ \E n \in Sizes : sent' = Append(sent, n)
  /\ UNCHANGED <<received, taken, broken>>

Take ==
  \E i \in taken + 1 .. Len(sent) :
    /\ i = taken + 1 \/ broken
    /\ received' = Append(received, i)
    /\ taken' = i
    /\ UNCHANGED <<sent, broken>>

TakeMixed ==
  /\ broken
  /\ received' = Append(received, Mixed)
  /\ UNCHANGED <<sent, taken, broken>>

Break ==
  /\ broken' = TRUE
  /\ UNCHANGED <<sent, received, taken>>

FifoNext == Put \/ Take \/ TakeMixed \/ Break

FifoSpec == FifoInit /\ [][FifoNext]_fifoVars
=============================================================================
