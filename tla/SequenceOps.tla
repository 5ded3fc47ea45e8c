----------------------------- MODULE SequenceOps -----------------------------
(***************************************************************************)
(* Leaving elements out of a sequence, as a comprehension or deletions     *)
(* from a dict do.  It is a recursive function, over the beginnings of the *)
(* sequence, so that modules with theorems can use it.                     *)
(***************************************************************************)
EXTENDS Naturals, Sequences

Without(s, X) ==
    LET kept[i \in 0 .. Len(s)] ==
            IF i = 0 THEN << >>
            ELSE IF s[i] \in X THEN kept[i - 1] ELSE Append(kept[i - 1], s[i])
    IN kept[Len(s)]
=============================================================================
