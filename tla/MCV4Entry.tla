------------------------------ MODULE MCV4Entry ------------------------------
(***************************************************************************)
(* V4Entry for TLC: device keys, captcha pages and code submissions are    *)
(* interchangeable.                                                        *)
(***************************************************************************)
EXTENDS V4Entry, TLC

Symmetry == Permutations(Keys) \cup Permutations(Posts) \cup Permutations(Submits)

=============================================================================
