---------------------------------- MODULE Lsdb ----------------------------------
(***************************************************************************)
(* Link-state advertisements (ospf/lsdb.go): which of two instances of an  *)
(* LSA is more recent, the age that changes while an LSA is kept, and the  *)
(* Fletcher checksum, which covers everything but the age.                 *)
(*                                                                         *)
(* An LSA is its header fields and its encoding.  Nothing in the           *)
(* repository encodes an LSA yet: Originate stores the check bytes in the  *)
(* order in which fletcher16GenerateChecksum returns them.  Of the header  *)
(* the fields that no function here looks at are part of the encoding.     *)
(***************************************************************************)
EXTENDS Integers, Sequences, SequencesExt

CONSTANTS Bodies,         \* encodings without the age, [octets, offset]: the
                          \* check bytes are at offset, counted from 0
          Ages,           \* ages of LSAs
          Seqs,           \* sequence numbers
          DamagedOctets   \* what an octet may be turned into on the way

Octet == 0 .. 255
Uint16 == 0 .. 2^16 - 1
maxAge == 3600
maxAgeDiff == 900
initialSequenceNumber == -2147483647
maxSequenceNumber == 2147483647

ASSUME BodiesAssumption ==
    \A d \in Bodies : /\ d.octets \in Seq(Octet)
                      /\ d.offset \in 0 .. Len(d.octets) - 2
ASSUME HeadersAssumption ==
    /\ Ages \subseteq Uint16 /\ 0 \in Ages
    /\ Seqs \subseteq initialSequenceNumber .. maxSequenceNumber
ASSUME DamageAssumption == DamagedOctets \subseteq Octet

--------------------------------------------------------------------------------
(* Compare                                                                   *)

\* 1 if x is more recent than y, -1 if it is less recent.
CompareInts(x, y) == IF x < y THEN -1 ELSE IF x > y THEN 1 ELSE 0

Distance(x, y) == IF x < y THEN y - x ELSE x - y

\* An LSA of maxAge is to be flushed and counts as the most recent; otherwise
\* the younger one is, if the ages are far enough apart.
CompareAges_NoDiff(a1, a2) ==
    CASE a1 # maxAge /\ a2 = maxAge -> -1
      [] a1 = maxAge /\ a2 # maxAge -> 1
      [] OTHER -> CompareInts(a1, a2)
CompareAges(a1, a2) ==
    CASE a1 # maxAge /\ a2 = maxAge -> -1
      [] a1 = maxAge /\ a2 # maxAge -> 1
      [] OTHER -> IF Distance(a1, a2) > maxAgeDiff THEN CompareInts(a2, a1) ELSE 0

Compare(h, other) ==
    IF h.seq # other.seq THEN CompareInts(h.seq, other.seq)
    ELSE IF h.checksum # other.checksum THEN CompareInts(h.checksum, other.checksum)
    ELSE CompareAges(h.age, other.age)

--------------------------------------------------------------------------------
(* The checksum                                                              *)

NoSums == [c0 |-> 0, c1 |-> 0]

\* The two sums, with one octet more.
AddOctet(s, octet) ==
    LET c0 == (s.c0 + octet) % 255
    IN  [c0 |-> c0, c1 |-> (s.c1 + c0) % 255]

\* The two sums over the first octets of data.
Sums(data) ==
    LET sums[i \in 0 .. Len(data)] ==
            IF i = 0 THEN NoSums ELSE AddOctet(sums[i - 1], data[i])
    IN  sums

Fletcher16(data) == Sums(data)[Len(data)]

\* The remainder of Go's division, which has the sign of x.
Rem(x, y) == IF x < 0 THEN -((-x) % y) ELSE x % y

\* The check bytes for the sums c0 and c1, if k octets follow the first of them.
CheckBytes_NoCarry(c0, c1, k) ==
    LET r == Rem(k * c0 - c1, 255)
        x == IF r <= 0 THEN r + 255 ELSE r
    IN  <<x, 510 - c0 - x>>
CheckBytes(c0, c1, k) ==
    LET r == Rem(k * c0 - c1, 255)
        x == IF r <= 0 THEN r + 255 ELSE r
        y == 510 - c0 - x
    IN  <<x, IF y > 255 THEN y - 255 ELSE y>>

\* fletcher16GenerateChecksum: data with zeros for the check bytes.
GenerateChecksum(data, offset) ==
    LET sums == Fletcher16([data EXCEPT ![offset + 1] = 0, ![offset + 2] = 0])
    IN  CheckBytes(sums.c0, sums.c1, Len(data) - offset - 1)

--------------------------------------------------------------------------------
(* An LSA from its origin to a receiver.                                     *)

VARIABLES lsa,      \* [seq, checksum, age, octets]
          origin    \* history: what followed the age when it was originated

lsaVars == <<lsa, origin>>

\* binary.BigEndian
Encode(n) == <<n \div 256, n % 256>>
Decode(octets) == 256 * octets[1] + octets[2]

\* What follows the age.
Body == SubSeq(lsa.octets, 3, Len(lsa.octets))

IsChecksumValid == Fletcher16(Body) = NoSums

LsaInit ==
    \E d \in Bodies, seq \in Seqs :
        LET check == GenerateChecksum(d.octets, d.offset)
        IN  /\ origin = [d.octets EXCEPT ![d.offset + 1] = check[1],
                                         ![d.offset + 2] = check[2]]
            /\ lsa = [seq |-> seq, checksum |-> Decode(check), age |-> 0,
                      octets |-> Encode(0) \o origin]

SetAge(age) ==
    /\ lsa' = [lsa EXCEPT !.age = age, !.octets = Encode(age) \o Body]
    /\ UNCHANGED origin

\* On the way, one octet is changed, or two neighbours are swapped (bound: once).
Damage ==
    /\ Body = origin
    /\ \E i \in 3 .. Len(lsa.octets) :
          \/ \E octet \in DamagedOctets : lsa' = [lsa EXCEPT !.octets[i] = octet]
          \/ /\ i < Len(lsa.octets)
             /\ lsa' = [lsa EXCEPT !.octets[i] = lsa.octets[i + 1],
                                   !.octets[i + 1] = lsa.octets[i]]
    /\ UNCHANGED origin

LsaNext == Damage \/ \E age \in Ages : SetAge(age)

LsaSpec == LsaInit /\ [][LsaNext]_lsaVars

--------------------------------------------------------------------------------
(* Properties                                                                *)

LsaTypeOK ==
    /\ lsa \in [seq : Seqs, checksum : Uint16, age : Ages, octets : Seq(Octet)]
    /\ origin \in Seq(Octet)

\* The checksum that is generated is the one that verifies, wherever the check
\* bytes are and whatever they come out as, and no change of the age disturbs
\* it: so an LSA that was not damaged is valid, its header agrees with its
\* encoding, and neither check byte is 0.  A change of one octet, or a swap of
\* two, is noticed, unless it only turns a 0 into a 255 or back.
ChecksumTellsDamage ==
    /\ Decode(lsa.octets) = lsa.age
    /\ Body = origin => IsChecksumValid /\ \A octet \in ToSet(Encode(lsa.checksum)) : octet # 0
    /\ IsChecksumValid => \A i \in 1 .. Len(origin) : Body[i] % 255 = origin[i] % 255

\* The instances that the LSA may meet in the database.
Others == [seq : Seqs, checksum : {lsa.checksum, lsa.checksum - 1}, age : Ages]

\* Compare can decide what to keep, whatever the order in which instances
\* arrive: two routers agree on which of two instances is more recent, what is
\* more recent than a more recent one is more recent, and an instance does not
\* get more recent by aging, until it reaches maxAge.
RecencyIsOrder ==
    Body = origin => \A x \in Others :
        /\ Compare(lsa, x) = -Compare(x, lsa)
        /\ \A y \in Others :
              Compare(lsa, x) = 1 /\ Compare(x, y) = 1 => Compare(lsa, y) = 1
        /\ \A age \in Ages : lsa.age <= age /\ age # maxAge =>
              Compare([lsa EXCEPT !.age = age], x) <= Compare(lsa, x)

================================================================================
