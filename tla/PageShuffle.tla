---------------------------- MODULE PageShuffle ----------------------------
(***************************************************************************)
(* ae_page of benchmarks/io/io_workload.h: the order in which a random     *)
(* workload visits its pages.  Both products are masked to the page count, *)
(* so the 64-bit multipliers count only modulo 2^16 while there are fewer  *)
(* than 2^16 pages.                                                        *)
(***************************************************************************)
EXTENDS Integers, Bitwise

Multiplier1 == 31765   \* 0x9e3779b97f4a7c15 modulo 2^16
Multiplier2 == 58809   \* 0xbf58476d1ce4e5b9 modulo 2^16

\* Mutant: the first multiplier is even.
ae_page_even(index, pages, seed, random) ==
  IF ~random THEN index
  ELSE LET x1 == index ^^ (index \div 128)
           x2 == (x1 * (Multiplier1 - 1) + seed) & (pages - 1)
           x3 == x2 ^^ (x2 \div 8192)
           x4 == (x3 * Multiplier2 + seed) & (pages - 1)
       IN  x4 ^^ (x4 \div 2048)

ae_page(index, pages, seed, random) ==
  IF ~random THEN index
  ELSE LET x1 == index ^^ (index \div 128)
           x2 == (x1 * Multiplier1 + seed) & (pages - 1)
           x3 == x2 ^^ (x2 \div 8192)
           x4 == (x3 * Multiplier2 + seed) & (pages - 1)
       IN  x4 ^^ (x4 \div 2048)

=============================================================================
