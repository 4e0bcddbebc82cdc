--------------------------- MODULE SemanticVersion --------------------------
(***************************************************************************)
(* Versions of packages (registry/version.go).  The text of a version is   *)
(* the sequence of its numbers here; the numbers are only compared, so     *)
(* their width of 64 bits does not matter.                                 *)
(***************************************************************************)
EXTENDS Integers, Sequences

Version == [Major : Nat, Minor : Nat, Patch : Nat]

\* Missing components are zero.
ParseVersion(parts) ==
    [Major |-> parts[1],
     Minor |-> IF Len(parts) > 1 THEN parts[2] ELSE 0,
     Patch |-> IF Len(parts) > 2 THEN parts[3] ELSE 0]

CompareNumbers(a, b) == IF a < b THEN -1 ELSE IF a = b THEN 0 ELSE 1

Compare(v, other) ==
    IF v.Major # other.Major THEN CompareNumbers(v.Major, other.Major)
    ELSE IF v.Minor # other.Minor THEN CompareNumbers(v.Minor, other.Minor)
    ELSE CompareNumbers(v.Patch, other.Patch)

GreaterThan(v, other) == Compare(v, other) > 0

=============================================================================
