-------------------------------- MODULE Words --------------------------------
(***************************************************************************)
(* The machine arithmetic that src/vfs.rs and src/device.rs do on u64 and  *)
(* i64, for words of any width: Half stands for 2^63.  A sum or product    *)
(* that leaves the type wraps in a build without overflow checks; in one   *)
(* with them it panics.                                                    *)
(***************************************************************************)
EXTENDS Integers

CONSTANT Half       \* 2^63: i64 is -Half..Half-1, u64 is 0..2*Half-1

ASSUME HalfAssumption == Half \in Nat \ {0}

Word == 2 * Half

U64 == 0..(Word - 1)

I64 == -Half..(Half - 1)

(* A u64 cast to i64. *)
AsSigned(u) == IF u < Half THEN u ELSE u - Word

(* The sum of two i64 that wraps. *)
AddSigned(a, b) ==
  CASE a + b >= Half  -> a + b - Word
    [] a + b < -Half  -> a + b + Word
    [] OTHER          -> a + b

(* A u64 result that wraps. *)
Wrapped(n) == n % Word
=============================================================================
