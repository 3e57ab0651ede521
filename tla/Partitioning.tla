---------------------------- MODULE Partitioning ----------------------------
(***************************************************************************)
(* HashPartitionStrategy of es/projection: which worker of how many owns   *)
(* an aggregate.  The FNV-1a hash of an aggregate ID is any uint32; what   *)
(* matters is how it is turned into a partition, so the width of the hash  *)
(* is a constant (2^32 in the code, small for TLC), and so is whether a Go *)
(* int is as narrow as the hash (GOARCH=386, arm) and wraps.               *)
(***************************************************************************)
EXTENDS Integers

CONSTANTS
    HashRange,      \* the number of hash values
    IntWraps        \* TRUE: int has the bits of the hash and a sign

ASSUME HashAssumption ==
    /\ HashRange \in Nat \ {0}
    /\ IntWraps \in BOOLEAN

Hashes == 0..(HashRange - 1)

(* Variant: the hash as a signed integer of its own width.                 *)
Int32(h) == IF 2 * h >= HashRange THEN h - HashRange ELSE h

(* int(h.Sum32())                                                          *)
ToInt(h) == IF IntWraps /\ 2 * h >= HashRange THEN h - HashRange ELSE h

(* The % of Go truncates toward zero.                                      *)
Rem(x, n) == IF x >= 0 THEN x % n ELSE -((-x) % n)

ShouldProcess(h, key, total) == total <= 1 \/ Rem(ToInt(h), total) = key

(* Each aggregate belongs to exactly one of the workers 0 .. total-1.      *)
HasOneOwner(h, total) ==
    \E owner \in 0..(total - 1) : \A key \in 0..(total - 1) :
        ShouldProcess(h, key, total) <=> key = owner

=============================================================================
