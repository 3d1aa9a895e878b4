------------------------------ MODULE MCRegistry ------------------------------
EXTENDS Registry, TLC

CONSTANTS s1, s2, s3

MCSlots == {s1, s2, s3}

(* Slots are interchangeable: the allocator may hand out any of them. *)
MCSymmetry == Permutations(MCSlots)

=============================================================================
