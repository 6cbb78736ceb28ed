----------------------------- MODULE Truncation -----------------------------
(***************************************************************************)
(* Dividing a shared number by a power of two (truncation.rs), one slot.   *)
(* The input is shared modulo 2^BitWidth and the output modulo             *)
(* OutputModulus, which need have nothing to do with each other.  Each     *)
(* party shifts its own share; that loses the carry out of the low bits    *)
(* and keeps the multiple of 2^BitWidth by which the shares exceed their   *)
(* value.  Both corrections are comparisons on shares, one after the other.*)
(* The comparisons are their one-table form; RadixComparison shows that    *)
(* the digit-wise form answers the same.                                   *)
(***************************************************************************)
EXTENDS AdditiveShares

CONSTANTS
  TruncateFormats,    \* records [bitWidth, shift, outputModulus] to choose from
  TruncateInputs,     \* what a party may hold, reduced or not
  TruncateDraws       \* shares that party 0 may get from a lookup

ASSUME TruncationAssumption ==
  /\ TruncateFormats \subseteq [bitWidth : Nat, shift : Nat, outputModulus : Nat]
  /\ TruncateInputs \subseteq Nat
  /\ TruncateDraws \subseteq Nat

VARIABLES
  truncateFormat,
  held,          \* what the parties hold
  truncatePhase, \* "low", "wrap", "combine" or "done"
  lowCarry,      \* shares of: the low bits of the two shares carry
  modularWrap,   \* shares of: the two shares exceed 2^BitWidth
  truncated

truncateVars == <<truncateFormat, held, truncatePhase, lowCarry, modularWrap, truncated>>

BitWidth == truncateFormat.bitWidth
Shift == truncateFormat.shift
OutputModulus == truncateFormat.outputModulus

\* TruncationConfig::validate
TruncateAccepted == BitWidth \in 1 .. 62 /\ Shift \in 1 .. BitWidth /\ OutputModulus >= 3

ZeroShares == SharePublic(0, OutputModulus)

TruncateInit ==
  /\ truncateFormat \in TruncateFormats /\ TruncateAccepted
  /\ held \in [p0 : TruncateInputs, p1 : TruncateInputs]
  /\ truncatePhase = "low"
  /\ lowCarry = ZeroShares
  /\ modularWrap = ZeroShares
  /\ truncated = ZeroShares
-----------------------------------------------------------------------------
LessThanPublic(x, bits, threshold, draw) ==
  LET domain == TwoTo[bits]
      table == [c \in 0 .. domain - 1 |-> Bit(c < threshold)]
  IN  Lookup(x, domain, {c \in 0 .. domain - 1 : table[c] # 0}, table, draw, OutputModulus)

ReducedShares(x, m) == [p0 |-> x.p0 % m, p1 |-> x.p1 % m]

\* One bit more than the shares have: their sum must not wrap in the lookup.
SameDomainBits(bits) == bits
DomainBits(bits) == bits + 1

\* The sum of both shares modulo 2^bits is at least 2^bits.
Exceeds(bits, draw) ==
  OneMinus(LessThanPublic(ReducedShares(held, TwoTo[bits]), DomainBits(bits), TwoTo[bits], draw), OutputModulus)

LookUpLowCarry(draw) ==
  /\ truncatePhase = "low"
  /\ lowCarry' = Exceeds(Shift, draw)
  /\ truncatePhase' = "wrap"
  /\ UNCHANGED <<truncateFormat, held, modularWrap, truncated>>

LookUpModularWrap(draw) ==
  /\ truncatePhase = "wrap"
  /\ modularWrap' = Exceeds(BitWidth, draw)
  /\ truncatePhase' = "combine"
  /\ UNCHANGED <<truncateFormat, held, lowCarry, truncated>>

WrapWeight == TwoTo[BitWidth - Shift] % OutputModulus

\* What a party computes from its three shares.
BaseShare(share) == ((share % TwoTo[BitWidth]) \div TwoTo[Shift]) % OutputModulus
LocalShare(share, low, wrap) ==
  SubReduced(AddReduced(BaseShare(share), low, OutputModulus), (wrap * WrapWeight) % OutputModulus, OutputModulus)

Combine ==
  /\ truncatePhase = "combine"
  /\ truncated' = [p0 |-> LocalShare(held.p0, lowCarry.p0, modularWrap.p0),
                   p1 |-> LocalShare(held.p1, lowCarry.p1, modularWrap.p1)]
  /\ truncatePhase' = "done"
  /\ UNCHANGED <<truncateFormat, held, lowCarry, modularWrap>>
-----------------------------------------------------------------------------
TruncateNext ==
  \/ \E draw \in TruncateDraws : LookUpLowCarry(draw)
  \/ \E draw \in TruncateDraws : LookUpModularWrap(draw)
  \/ Combine

TruncateSpec == TruncateInit /\ [][TruncateNext]_truncateVars
-----------------------------------------------------------------------------
SharePairs == [p0 : 0 .. OutputModulus - 1, p1 : 0 .. OutputModulus - 1]

\* Every share a party computes is reduced, which AddReduced and SubReduced rely on.
TruncateTypeOK ==
  /\ truncateFormat \in TruncateFormats
  /\ held \in [p0 : TruncateInputs, p1 : TruncateInputs]
  /\ truncatePhase \in {"low", "wrap", "combine", "done"}
  /\ lowCarry \in SharePairs
  /\ modularWrap \in SharePairs
  /\ truncated \in SharePairs

\* The outcome is the exact quotient of the shared number in reduced shares, in
\* any output modulus, even one smaller than the quotient (then it is the
\* quotient modulo it), and also when nothing is left after the shift.
TruncatesExactly ==
  truncatePhase = "done" =>
    /\ truncated \in SharePairs
    /\ Reconstruct(truncated, OutputModulus)
         = (((held.p0 + held.p1) % TwoTo[BitWidth]) \div TwoTo[Shift]) % OutputModulus
=============================================================================
