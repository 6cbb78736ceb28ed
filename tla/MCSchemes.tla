------------------------------ MODULE MCSchemes -----------------------------
(***************************************************************************)
(* The homomorphic schemes, one subject in each behaviour: calls on        *)
(* ciphertexts of short integers (Shortint), a programmable bootstrap      *)
(* (Bootstrap), a product divided in residues (RnsPipeline), or calls on   *)
(* BFV ciphertexts (BfvScheme).  The variables a subject has none of stay  *)
(* None.                                                                   *)
(***************************************************************************)
EXTENDS RnsTool, Shortint

VARIABLES
  subject,
  seed, backend, table, input, meant, pc, i, acc, out,
  par, keys,
  tool, chain, left, right, drift, stage, value,
  sk, dyadic, method, shape, cache, ciphers, noise

\* The variables only one subject has, and those two share.
slotVars == <<params, slots, sound, overfull, crossed>>
callVars == <<calls, meaning>>
bootstrapVars == <<seed, backend, table, input, meant, pc, i, acc, out>>
keyVars == <<par, keys>>
rnsVars == <<tool, chain, left, right, drift, stage, value>>
bfvVars == <<sk, dyadic, method, shape, cache, ciphers, noise>>

None == "none"
ShortintUnused ==
  /\ params = None /\ slots = None /\ crossed = None
  /\ sound = [s \in CipherNames |-> FALSE] /\ overfull = [s \in CipherNames |-> FALSE]
CallsUnused == calls = None /\ meaning = None
BootstrapUnused ==
  /\ seed = None /\ backend = None /\ table = None /\ input = None
  /\ meant = None /\ pc = None /\ i = None /\ acc = None /\ out = None
KeysUnused == par = None /\ keys = None
RnsUnused ==
  /\ tool = None /\ chain = None /\ left = None /\ right = None
  /\ drift = None /\ stage = None /\ value = None
BfvUnused ==
  /\ sk = None /\ dyadic = None /\ method = None /\ shape = None
  /\ cache = None /\ ciphers = None /\ noise = None
-----------------------------------------------------------------------------
\* Two ciphertexts; room for one carry bit, for two, and for none; factors
\* that fit, that need the carry and that are refused.
ShortParameters == {[mm |-> 2, cm |-> 2], [mm |-> 2, cm |-> 4], [mm |-> 4, cm |-> 4], [mm |-> 4, cm |-> 1]}

\* Three digits with noise, paired; two mask polynomials; a single digit, too
\* long to be paired.
Torus(k, base, level, ksBase, ksLevel, width) ==
  [logq |-> 14, N |-> 8, k |-> k, n |-> 2, T |-> 2, baseLog |-> base, level |-> level,
   ksBaseLog |-> ksBase, ksLevel |-> ksLevel, noise |-> width]
Tfhe ==
  INSTANCE Bootstrap WITH
    Parameters <- {Torus(1, 4, 3, 4, 3, 1), Torus(2, 5, 2, 3, 4, 1), Torus(1, 7, 1, 4, 3, 0)},
    Seeds <- {1}, PreciseBits <- 7, Threshold <- 2, PublicCount <- 3

\* Plaintext moduli that are a power of two and that are not; two and three
\* moduli; msk below the base B and above it; numbers around zero and around
\* half of Q.
Bases(q, b, msk, mTilde, t, r, p, shift) ==
  [Q |-> q, B |-> b, msk |-> msk, mTilde |-> mTilde, t |-> t, R |-> r, P |-> p, shift |-> shift]
Rns ==
  INSTANCE RnsPipeline WITH
    Word <- 512, Drifts <- {0, 40, 0 - 40},
    Tools <- {Bases({53, 61}, {47, 43}, 41, 32, 4, {59, 127}, {67, 71}, 3),
              Bases({53, 61}, {47, 43}, 67, 32, 15, {241, 251}, {71}, 2),
              Bases({13, 17, 19}, {23, 29, 31}, 37, 16, 2, {97, 101}, {89}, 3)},
    Operands <- LAMBDA tl :
      LET q == IF tl.t = 2 THEN 4199 ELSE 3233
      IN  {0, 1, 5, q - 1, q \div 2, (q \div 2) + 1, q \div 7, (q \div tl.t) * 2 + 3}

\* A ring of degree two over two moduli; products in each of the four ways, on
\* coefficients and on transforms: of one form with itself and of both.
BfvParameters ==
  [moduli |-> <<193, 197>>, t |-> 5, B |-> {181, 173}, msk |-> 157, mTilde |-> 32,
   R |-> {701, 709}, P |-> {877, 881}, special |-> 881]
BfvTables ==
  [m \in {193, 197, 5, 181, 173, 157, 701, 709, 877, 881} |-> NttTables(2, m)]
BfvTable(m) == BfvTables[m]
Pair(a, b) == [j \in 0 .. 1 |-> IF j = 0 THEN a ELSE b]
Bfv ==
  INSTANCE BfvScheme WITH
    N <- 2, Tables <- BfvTable, Parameters <- {BfvParameters},
    Plaintexts <- {<<Pair(2, 3), Pair(4, 1)>>}, Seeds <- {1}, Forms <- {<<FALSE, TRUE>>, <<TRUE, FALSE>>},
    Results <- {1},
    Dyadics <- {"standard", "split", "karatsuba"}, Moves <- FALSE, MaxCalls <- 3

\* The bases are the ones the code picks below the last modulus.
ASSUME BasesAssumption ==
  /\ Rns!BehzParams(53, {53, 61}, 4, 1) = [B |-> {43, 47}, msk |-> 41]
  /\ Rns!BehzParams(53, {53, 61}, 16, 1) = [B |-> {43, 47}, msk |-> 67]
-----------------------------------------------------------------------------
Init ==
  \/ /\ subject = "shortint" /\ ShortintInit
     /\ BootstrapUnused /\ KeysUnused /\ RnsUnused /\ BfvUnused
  \/ /\ subject = "tfhe" /\ Tfhe!Init
     /\ ShortintUnused /\ CallsUnused /\ RnsUnused /\ BfvUnused
  \/ /\ subject = "rns" /\ Rns!Init
     /\ ShortintUnused /\ CallsUnused /\ BootstrapUnused /\ KeysUnused /\ BfvUnused
  \/ /\ subject = "bfv" /\ Bfv!Init
     /\ ShortintUnused /\ BootstrapUnused /\ RnsUnused

Next ==
  /\ UNCHANGED subject
  /\ \/ subject = "shortint" /\ ShortintNext /\ UNCHANGED <<bootstrapVars, keyVars, rnsVars, bfvVars>>
     \/ subject = "tfhe" /\ Tfhe!Next /\ UNCHANGED <<slotVars, callVars, rnsVars, bfvVars>>
     \/ /\ subject = "rns" /\ Rns!Next
        /\ UNCHANGED <<slotVars, callVars, bootstrapVars, keyVars, bfvVars>>
     \/ subject = "bfv" /\ Bfv!Next /\ UNCHANGED <<slotVars, bootstrapVars, rnsVars>>

vars == <<subject, slotVars, callVars, bootstrapVars, keyVars, rnsVars, bfvVars>>
Spec == Init /\ [][Next]_vars
SubtractionSpec ==
  /\ subject = "shortint" /\ ShortintInit
  /\ BootstrapUnused /\ KeysUnused /\ RnsUnused /\ BfvUnused
  /\ [][Next]_vars
-----------------------------------------------------------------------------
\* Bootstrap: whatever way it multiplies, the accumulator is at each step the
\* table rotated by as much of the phase as has been read, and the outcome
\* decrypts under the first key to the entry.
Evaluates == subject = "tfhe" => Tfhe!Evaluates

\* RnsPipeline: whichever bases a product goes through, the outcome is the
\* quotient, off by no more than the way it was computed may be.
Divides == subject = "rns" => Rns!Divides

\* BfvScheme: whatever calls are strung together, on coefficients or on
\* transforms, a ciphertext whose noise is within the bound decrypts to what they
\* make of the plaintexts, and a switch of coefficients passes its own check.
DecryptsToMeaning == subject = "bfv" => Bfv!DecryptsToMeaning
=============================================================================
