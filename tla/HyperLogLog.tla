----------------------------- MODULE HyperLogLog -----------------------------
(***************************************************************************)
(* The registers of include/Database/ConcreteValues/HyperLogLogValue.h, on *)
(* hashes of HashBits bits in place of 64.  B is the member b, IndexBits   *)
(* the width of the variable that takes the index (a uint8_t: for b = 14   *)
(* it is too small, and drops the upper bits of the index).                *)
(* Left out: estimate, a floating-point function of the registers.         *)
(***************************************************************************)
EXTENDS Naturals, Sequences

CONSTANTS HashBits, B, IndexBits

Hashes == 0..(2^HashBits - 1)
Index == 0..(2^B - 1)
NoElements == [i \in Index |-> 0]

Bit(x, i) == (x \div 2^i) % 2
IndexOf(hash) == (hash \div 2^(HashBits - B)) % 2^IndexBits

\* (hash << b) | (1 << (b - 1)): bit b - 1 of the shifted hash is not set.
Remaining(hash) == ((hash * 2^B) % 2^HashBits) + 2^(B - 1)

\* From bit bits - 1 downwards; for remaining, bit b - 1 ends the count.
CountLeadingZeros(x, bits) ==
    CHOOSE n \in 0..bits :
        /\ n = bits \/ Bit(x, bits - 1 - n) = 1
        /\ \A i \in 0..(n - 1) : Bit(x, bits - 1 - i) = 0

LeadingZeros(hash) == CountLeadingZeros(Remaining(hash), HashBits - B) + 1

\* Mutant of Add: the register takes the count of the newest element.
AddNewest(registers, hash) ==
    [registers EXCEPT ![IndexOf(hash)] = LeadingZeros(hash)]

Add(registers, hash) ==
    [registers EXCEPT ![IndexOf(hash)] =
        IF LeadingZeros(hash) > @ THEN LeadingZeros(hash) ELSE @]

AddAll(registers, hashes) ==
    LET after[n \in 0..Len(hashes)] ==
            IF n = 0 THEN registers ELSE Add(after[n - 1], hashes[n])
    IN  after[Len(hashes)]

\* The registers are a function of the set of hashes, whatever the order and
\* the number of times they came: each has the highest count of its hashes.
AreOfTheSet(registers, hashes) ==
    \A i \in Index :
        /\ \A h \in hashes : IndexOf(h) = i => LeadingZeros(h) <= registers[i]
        /\ \/ registers[i] = 0
           \/ \E h \in hashes : IndexOf(h) = i /\ LeadingZeros(h) = registers[i]
=============================================================================
