----------------------------- MODULE Containers -----------------------------
(***************************************************************************)
(* Values written one after the other into a file and read back            *)
(* (ContainerWriter and ContainerReader of silent-io, as RuntimeIo uses    *)
(* them).  A container is a header that starts with a magic word, a payload*)
(* and a checksum.  The reader keeps nothing between two calls but its     *)
(* place in the file; a call that refuses a header leaves the rest of the  *)
(* container for the next one, and a write that fails leaves a part of one *)
(* that later containers follow.  A magic word may also stand in the middle*)
(* of a container: a payload is any bytes, and may be a container itself.  *)
(***************************************************************************)
EXTENDS Integers, SequencesExt, FiniteSets

CONSTANTS
  MagicLen, VersionLen, RestLen, CheckLen,   \* lengths in units of the file
  PayloadLens,                               \* lengths of payloads
  MaxContainers, MaxFaults, MaxWords,
  SharedWriter                   \* one ContainerWriter for all, or one for each

\* In the code 4, 2, 50 and 8 bytes.
ASSUME LengthsAssumption ==
  /\ {MagicLen, VersionLen, RestLen, CheckLen} \subseteq Nat \ {0}
  /\ PayloadLens \subseteq Nat
  /\ {MaxContainers, MaxFaults, MaxWords} \subseteq Nat
  /\ SharedWriter \in BOOLEAN

\* What the reader thinks of a container that it gets in one piece: nothing
\* wrong, a format version newer than its own, a header that it refuses, or a
\* value that it cannot use.
Kinds == {"accepted", "newer", "refused", "unusable"}

VARIABLES
  containers,  \* those written: their length of payload, kind, further magic words, what was hashed
  file,        \* units [of, at]: unit at of container of; at = 0 if damaged
  reading,     \* the writers are done
  pos,         \* units read so far
  results      \* what the calls of the reader returned

containerVars == <<containers, file, reading, pos, results>>

VersionEnd == MagicLen + VersionLen
HeaderLen == VersionEnd + RestLen
Size(n) == HeaderLen + n + CheckLen

\* Where in a container another magic word may stand; none reaches into the
\* next container, as SFIR has no letter twice.
Places(n) == MagicLen .. Size(n) - MagicLen

ContainersInit ==
  /\ containers = << >>
  /\ file = << >>
  /\ reading = FALSE
  /\ pos = 0
  /\ results = << >>
-----------------------------------------------------------------------------
\* The containers whose headers and payloads the writer's hasher has seen.
Hashed(i) == IF SharedWriter THEN [j \in 1 .. i |-> j] ELSE <<i>>

Torn == {i \in DOMAIN containers : containers[i].torn}
Damaged == {k \in DOMAIN file : file[k].at = 0}
Faults == Cardinality(Torn) + Cardinality(Damaged)

Words == UNION {{i} \X containers[i].words : i \in DOMAIN containers}

WordSets(n) ==
  {words \in SUBSET Places(n) :
     /\ Cardinality(Words) + Cardinality(words) <= MaxWords
     /\ \A a, b \in words : a < b => a + MagicLen <= b}

\* The underlying writer may take only the first units of a container.
Taken(n) == IF Faults < MaxFaults THEN 0 .. Size(n) ELSE {Size(n)}

Write(n, kind, words, units) ==
  /\ LET i == Len(containers) + 1
     IN  /\ containers' = Append(containers, [payload |-> n, kind |-> kind, words |-> words,
                                              hashed |-> Hashed(i), torn |-> units < Size(n)])
         /\ file' = file \o [k \in 1 .. units |-> [of |-> i, at |-> k]]
  /\ UNCHANGED <<reading, pos, results>>

\* Not in the reserved byte of a header, which nobody looks at, and never so
\* that it makes a magic word.
Damage(k) ==
  /\ Faults < MaxFaults
  /\ file[k].at # 0
  /\ file' = [file EXCEPT ![k].at = 0]
  /\ UNCHANGED <<containers, reading, pos, results>>

StartReading ==
  /\ reading' = TRUE
  /\ UNCHANGED <<containers, file, pos, results>>
-----------------------------------------------------------------------------
\* The n units from place q of the file on are those of container i from a on.
Holds(q, n, i, a) ==
  /\ q + n <= Len(file)
  /\ \A k \in 1 .. n : file[q + k] = [of |-> i, at |-> a + k]

\* read_exact takes all there is before it fails.
Within(q) == IF q > Len(file) THEN Len(file) ELSE q

Return(q, result) ==
  /\ reading
  /\ pos < Len(file)
  /\ pos' = Within(q)
  /\ results' = Append(results, result)
  /\ UNCHANGED <<containers, file, reading>>

\* What stands at the reader's place: the magic word at the start of container
\* i (a = 0) or another one in it.
HasMagic(i, a) == a \in {0} \cup containers[i].words /\ Holds(pos, MagicLen, i, a)
MagicHere == \E i \in DOMAIN containers : \E a \in {0} \cup containers[i].words : HasMagic(i, a)

\* A call that gets no value returns Nothing.
Got(i, a, n) == [of |-> i, at |-> a, payload |-> n]
Nothing == Got(0, 0, 0)

AfterBadMagicAndRest == pos + HeaderLen
AfterBadMagic == pos + MagicLen

ReadBadMagic ==
  /\ ~MagicHere
  /\ Return(AfterBadMagic, Nothing)

\* What follows a magic word is known only if it is a container's own and
\* nothing in between is lost or damaged; else it may be anything.
IsKind(len, i, a, kinds) == a = 0 /\ Holds(pos, len, i, 0) => containers[i].kind \in kinds
NotNewer(i, a) == IsKind(VersionEnd, i, a, Kinds \ {"newer"})

\* The version is looked at before the rest of the header is read.
RefuseVersion(i, a) ==
  /\ HasMagic(i, a)
  /\ IsKind(VersionEnd, i, a, {"newer"})
  /\ pos + VersionEnd <= Len(file)
  /\ Return(pos + VersionEnd, Nothing)

RefuseHeader(i, a) ==
  /\ HasMagic(i, a) /\ NotNewer(i, a)
  /\ IsKind(HeaderLen, i, a, {"refused"})
  /\ pos + HeaderLen <= Len(file)
  /\ Return(pos + HeaderLen, Nothing)

\* The header is accepted and says that n units of payload follow.
Declares(i, a, n) ==
  /\ HasMagic(i, a) /\ NotNewer(i, a)
  /\ IsKind(HeaderLen, i, a, Kinds \ {"refused"})
  /\ a = 0 /\ Holds(pos, HeaderLen, i, 0) => n = containers[i].payload

ReadShort(i, a, n) ==
  /\ Declares(i, a, n)
  /\ pos + Size(n) > Len(file)
  /\ Return(pos + Size(n), Nothing)

\* The checksum in the file is the hash of the header and payload just read:
\* those of a container, or of one that is part of the payload of another.
VerifiedLength(i, a, n) == Holds(pos, HeaderLen, i, a)
Verified(i, a, n) ==
  /\ Holds(pos, Size(n), i, a)
  /\ IF a = 0 THEN containers[i].hashed = <<i>> ELSE a + Size(n) <= HeaderLen + containers[i].payload

ReadValue(i, a, n) ==
  /\ Declares(i, a, n)
  /\ pos + Size(n) <= Len(file)
  /\ Verified(i, a, n)
  /\ a = 0 => containers[i].kind = "accepted"
  /\ Return(pos + Size(n), Got(i, a, n))

RefuseValue(i, a, n) ==
  /\ Declares(i, a, n)
  /\ pos + Size(n) <= Len(file)
  /\ a = 0 => ~(Verified(i, a, n) /\ containers[i].kind = "accepted")
  /\ Return(pos + Size(n), Nothing)
-----------------------------------------------------------------------------
Writing ==
  /\ ~reading
  /\ \/ /\ Len(containers) < MaxContainers
        /\ \E n \in PayloadLens : \E words \in WordSets(n), kind \in Kinds, units \in Taken(n) :
             Write(n, kind, words, units)
     \/ \E k \in DOMAIN file : Damage(k)
     \/ StartReading

\* One call of read_value_container.
Reading ==
  \/ ReadBadMagic
  \/ \E i \in DOMAIN containers : \E a \in {0} \cup containers[i].words :
       \/ RefuseVersion(i, a)
       \/ RefuseHeader(i, a)
       \/ \E n \in PayloadLens : ReadShort(i, a, n) \/ ReadValue(i, a, n) \/ RefuseValue(i, a, n)

ContainersNext == Writing \/ Reading

ContainersSpec == ContainersInit /\ [][ContainersNext]_containerVars
-----------------------------------------------------------------------------
\* The reader returns only what stands in the file in one piece and undamaged,
\* in the order in which it stands there, none twice, and never a container and
\* one in its payload: accepted containers, and containers that are part of a
\* payload.  Whatever was torn, damaged or refused before.
ReadsWhatWasWritten ==
  \A k \in DOMAIN results : results[k] # Nothing =>
    LET i == results[k].of
        a == results[k].at
        n == results[k].payload
    IN  /\ \E q \in 0 .. Len(file) - 1 : Holds(q, Size(n), i, a)
        /\ \/ a = 0 /\ containers[i].kind = "accepted" /\ n = containers[i].payload
           \/ a \in containers[i].words /\ a + Size(n) <= HeaderLen + containers[i].payload
        /\ \A j \in 1 .. k - 1 : results[j] # Nothing =>
             \/ results[j].of < i
             \/ results[j].of = i /\ results[j].at + Size(results[j].payload) <= a

\* The units of container i that a call consumes which starts with it, if
\* nothing is missing.
Consumed(i) ==
  CASE containers[i].kind = "newer"   -> VersionEnd
    [] containers[i].kind = "refused" -> HeaderLen
    [] OTHER                          -> Size(containers[i].payload)

\* The search for the next magic word, a word at a time, comes from there to
\* the end of the container and meets no magic word on the way.
WholeWords(x) == \E m \in 0 .. x : x = m * MagicLen
Harmless(i) ==
  /\ WholeWords(Size(containers[i].payload) - Consumed(i))
  /\ \A a \in containers[i].words : a >= Consumed(i) => ~WholeWords(a - Consumed(i))

\* If nothing was torn or damaged, an accepted container is returned whatever
\* the reader refused before it, as long as its search leads it there: behind
\* a header of an older or equal version if the payload is a multiple of the
\* magic word, but behind one of a newer version only if it is two bytes more.
Intact == Torn = {} /\ Damaged = {}
RefusalsCostNothingElse ==
  reading /\ pos = Len(file) /\ Intact =>
    \A i \in DOMAIN containers :
      containers[i].kind = "accepted" /\ (\A j \in 1 .. i : Harmless(j))
        => Got(i, 0, containers[i].payload) \in ToSet(results)

\* container.rs:15: the checksum covers the header and the payload.
ChecksumCoversContainer ==
  \A i \in DOMAIN containers : containers[i].hashed = <<i>>
=============================================================================
