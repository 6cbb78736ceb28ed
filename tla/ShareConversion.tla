-------------------------- MODULE ShareConversion --------------------------
(***************************************************************************)
(* Turning shares modulo q, as a linear map leaves them, into shares       *)
(* modulo p (ShareConverter of conversion.rs), one slot.  A value v modulo *)
(* p is carried as about v * (q \div p) modulo q, with noise.  Each party  *)
(* adds a mask of its own, scaled in the same way, and shows the sum to    *)
(* the other; both round what they open, and their masks, taken off again, *)
(* are the new shares.  The packed linear map has a prime q, so that       *)
(* q \div p is not q / p, and every mask adds to the error of the rounding.*)
(***************************************************************************)
EXTENDS Integers

CONSTANTS
  ModuliPairs   \* records [q, p]

ASSUME ModuliAssumption == ModuliPairs \subseteq [q : Nat, p : Nat]

Parties == {0, 1}
Peer(i) == 1 - i
NoShare == 0 - 1

VARIABLES
  moduli,
  shares,    \* shares[i]: party i's share modulo q
  mask,      \* mask[i]: the mask of party i, NoShare before it has one
  masked,    \* masked[i]: what party i shows to its peer, NoShare before
  converted  \* converted[i]: the share of party i modulo p, NoShare before

convertVars == <<moduli, shares, mask, masked, converted>>

q == moduli.q
p == moduli.p
Scale == q \div p

\* validate_q_to_p_inputs
ConvertAccepted == p >= 2 /\ q >= p

ConvertInit ==
  /\ moduli \in ModuliPairs /\ ConvertAccepted
  /\ shares \in [Parties -> 0 .. q - 1]
  /\ mask = [i \in Parties |-> NoShare]
  /\ masked = [i \in Parties |-> NoShare]
  /\ converted = [i \in Parties |-> NoShare]
-----------------------------------------------------------------------------
MaskUnscaled(m) == m % q
MaskScaled(m) == (m * Scale) % q

MaskShare(i, m) ==
  /\ mask[i] = NoShare
  /\ mask' = [mask EXCEPT ![i] = m]
  /\ masked' = [masked EXCEPT ![i] = (shares[i] + MaskScaled(m)) % q]
  /\ UNCHANGED <<moduli, shares, converted>>

\* LinearMap::decode_q_to_p
DecodedDown(v) == ((v * p) \div q) % p
Decoded(v) == ((v * p + q \div 2) \div q) % p

Opened == (masked[0] + masked[1]) % q

\* The new share of party 1 is the negative of its mask, which may be 0.
Finished(i) ==
  IF i = 0 THEN (Decoded(Opened) + (p - mask[0])) % p
  ELSE IF mask[1] = 0 THEN 0 ELSE p - mask[1]

FinishShare(i) ==
  /\ mask[i] # NoShare /\ masked[Peer(i)] # NoShare
  /\ converted[i] = NoShare
  /\ converted' = [converted EXCEPT ![i] = Finished(i)]
  /\ UNCHANGED <<moduli, shares, mask, masked>>
-----------------------------------------------------------------------------
ConvertNext ==
  \/ \E i \in Parties, m \in 0 .. p - 1 : MaskShare(i, m)
  \/ \E i \in Parties : FinishShare(i)

ConvertSpec == ConvertInit /\ [][ConvertNext]_convertVars
-----------------------------------------------------------------------------
HeldValue == (shares[0] + shares[1]) % q
BothConverted == \A i \in Parties : converted[i] # NoShare
ConvertedValue == (converted[0] + converted[1]) % p

\* The step by which q \div p falls short, once for each unit of a mask.
Shortfall == q % p

ConvertTypeOK ==
  /\ moduli \in ModuliPairs
  /\ shares \in [Parties -> 0 .. q - 1]
  /\ mask \in [Parties -> {NoShare} \cup 0 .. p - 1]
  /\ masked \in [Parties -> {NoShare} \cup 0 .. q - 1]
  /\ converted \in [Parties -> {NoShare} \cup 0 .. p - 1]

\* The masked exchange decodes what the parties hold as if they had opened it
\* without masks, unless the masks' shortfall takes the value across the
\* boundary below it at which the rounding changes; so always if p divides q.
AgreesWithOpening ==
  BothConverted => (ConvertedValue = Decoded(HeldValue)
             <=> (HeldValue * p + q \div 2) % q >= (mask[0] + mask[1]) * Shortfall)

\* A value v carried with noise e arrives as v, whatever the shares and the
\* masks are, if there is room below half of q for the noise and for the
\* shortfall of v and of both masks.
ToleratesNoise ==
  BothConverted =>
    \A v \in 0 .. p - 1 :
      LET carried == (v * Scale) % q
          up == (HeldValue + (q - carried)) % q
          noise == IF 2 * up > q THEN q - up ELSE up
      IN  noise * p + (v + mask[0] + mask[1]) * Shortfall <= (q - 1) \div 2 => ConvertedValue = v

\* Both parties end with reduced shares of what the exchange decodes: what an
\* opening without masks would decode, unless the masks' shortfall takes it
\* across a rounding boundary; noise below half a step does no harm.
Converts ==
  /\ BothConverted => converted \in [Parties -> 0 .. p - 1]
  /\ AgreesWithOpening
  /\ ToleratesNoise
=============================================================================
