------------------------------ MODULE MCLevelled -----------------------------
(***************************************************************************)
(* The schemes in which ciphertexts lose moduli, one subject in each       *)
(* behaviour: calls on BGV ciphertexts (BgvScheme), and the recryption of  *)
(* one (BgvBootstrap).                                                     *)
(***************************************************************************)
EXTENDS RnsTool

VARIABLES
  subject,
  par, sk, keys, ciphers, meaning, calls,
  source, cipher, message, outcome

bgvVars == <<par, keys, ciphers, meaning, calls>>
recryptionVars == <<source, cipher, message, outcome>>
-----------------------------------------------------------------------------
\* A ring of degree four over three moduli, so that every slot can be brought to
\* every other; one matrix with four diagonals that are not zero, and none.
BgvTables == [m \in {401, 449, 433, 17} |-> NttTables(4, m)]
BgvTable(m) == BgvTables[m]
Four(a, b, c, d) == [i \in 0 .. 3 |-> <<a, b, c, d>>[i + 1]]
Bgv ==
  INSTANCE BgvScheme WITH
    N <- 4, Tables <- BgvTable,
    Parameters <- {[moduli |-> <<401, 449, 433>>, t |-> 17]},
    Plaintexts <- {<<Four(1, 2, 3, 4), Four(5, 0, 16, 7)>>}, Weights <- {Four(3, 1, 0, 9)},
    Starts <- {[public |-> TRUE, ntt |-> TRUE, calls |-> 2], [public |-> FALSE, ntt |-> FALSE, calls |-> 1]},
    Seeds <- {1}, Amounts <- {1, 0 - 2},
    Matrices <-
      {Four(Four(1, 2, 3, 4), Four(0, 5, 0, 0), Four(6, 0, 1, 2), Four(0, 0, 0, 16)),
       Four(Four(0, 0, 0, 0), Four(0, 0, 0, 0), Four(0, 0, 0, 0), Four(0, 0, 0, 0))},
    Babies <- {<<>>, <<5>>}, Dimensions <- {<<2, 2>>, <<1, 3>>},
    Polynomials <- {<<1, 2, 5>>}
-----------------------------------------------------------------------------
\* A source of degree two whose ciphertexts are switched down to one modulus, so
\* that their phases can be looked up; the other two are only bridged and
\* recrypted from residues.  5 * 11 leaves room for phases no plan classifies.
SmallTables == [m \in {401, 449, 5, 13, 17, 29, 37, 41, 53, 61} |-> NttTables(2, m)]
SmallTable(m) == SmallTables[m]
Recryption ==
  INSTANCE BgvBootstrap WITH
    N <- 2, Tables <- SmallTable,
    Sources <-
      {[moduli |-> <<13, 37>>, t |-> 5, limbs |-> 1, scalar |-> 5],
       [moduli |-> <<401, 449>>, t |-> 13, limbs |-> 1, scalar |-> 13],
       [moduli |-> <<401, 449>>, t |-> 13, limbs |-> 2, scalar |-> 65],
       [moduli |-> <<401, 449>>, t |-> 13, limbs |-> 2, scalar |-> 13]},
    Values <- [i \in 0 .. 1 |-> 2 + i], Seeds <- 1 .. 8, Fusions <- {41}, Auxiliaries <- {<<3, 13>>, <<5, 11>>},
    Targets <- {5}, AuxiliaryBits <- 10, MaxPoints <- 64

NoBgv == par = 0 /\ keys = 0 /\ ciphers = 0 /\ meaning = 0 /\ calls = 0
NoRecryption == source = 0 /\ cipher = 0 /\ message = 0 /\ outcome = 0
-----------------------------------------------------------------------------
Init ==
  \/ subject = "bgv" /\ Bgv!Init /\ NoRecryption
  \/ subject = "recryption" /\ Recryption!Init /\ NoBgv

Next ==
  /\ UNCHANGED subject
  /\ \/ subject = "bgv" /\ Bgv!Next /\ UNCHANGED recryptionVars
     \/ subject = "recryption" /\ Recryption!Next /\ UNCHANGED bgvVars

vars == <<subject, sk, bgvVars, recryptionVars>>
Spec == Init /\ [][Next]_vars
-----------------------------------------------------------------------------
\* BgvScheme: whatever calls are strung together, at whatever levels and with
\* whatever factors, a ciphertext that is within its bound decrypts to what they
\* make of the plaintexts.
TracksFactors == subject = "bgv" => Bgv!TracksFactors
\* BgvBootstrap: whichever way the wraps of the raw phase are found, what comes
\* out has the message that the source decrypts to.
RecryptsExactly == subject = "recryption" => Recryption!RecryptsExactly
=============================================================================
