------------------------------ MODULE Counters ------------------------------
(***************************************************************************)
(* What the components of cctop that sample the kernel share: unsigned     *)
(* counters, and maps from a name to a struct that holds some.             *)
(*                                                                         *)
(* Network and Disk keep three such maps, last, current and delta, and     *)
(* handle them with a copy() and a diff() of the same shape.               *)
(***************************************************************************)
EXTENDS Naturals

CONSTANT Word   \* modulus of the unsigned counters: 2^64 in the code

ASSUME WordAssumption == Word \in Nat \ {0}

Unsigned == 0..(Word - 1)

\* Mutant of Minus: signed.
MinusSigned(a, b) == a - b

\* a - b on unsigned integers
Minus(a, b) == (a + (Word - b)) % Word

\* The map f with v under the key k, whether or not k was a key.
Put(f, k, v) == [x \in DOMAIN f \cup {k} |-> IF x = k THEN v ELSE f[x]]

\* Mutant of Copy: dst becomes src.
CopyReplaces(dst, src) == src

\* copy(dst, src): the entries of src overwrite or extend those of dst; the
\* other entries of dst stay.
Copy(dst, src) ==
    [k \in DOMAIN dst \cup DOMAIN src |-> IF k \in DOMAIN src THEN src[k] ELSE dst[k]]

=============================================================================
