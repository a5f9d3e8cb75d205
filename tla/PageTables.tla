----------------------------- MODULE PageTables ---------------------------
(***************************************************************************)
(* The addresses a cache gives the controller: the PRP entries that the    *)
(* constructor of page_cache_t (include/page_cache.h) prepares per cache   *)
(* entry, its page_ioaddrs and page_vaddrs, the same tables of the victim  *)
(* buffer (victim_create in include/io_scheduler.cuh), and the packing of  *)
(* a range and a page into one global address.  Addresses are counted in   *)
(* blocks.                                                                 *)
(***************************************************************************)
EXTENDS Integers, Sequences, Bitwise

CONSTANTS
  CtrlPage,   \* blocks in a page of the controller
  GpuPage,    \* blocks in a page of GPU memory: the unit the driver maps
  UintsPerPage, \* entries of a PRP list page
  SizeMod     \* blocks that the 32 bits of prp_list_size can count

ASSUME TableAssumption ==
  /\ {CtrlPage, GpuPage, UintsPerPage, SizeMod} \subseteq Nat \ {0}
  /\ GpuPage % CtrlPage = 0 /\ SizeMod % CtrlPage = 0

Align(n, a) == ((n + a - 1) \div a) * a

\* Bus addresses of a buffer whose i-th GPU page the driver placed at place[i].
Buffer(place, size) == [place |-> place, n_ioaddrs |-> Align(size, GpuPage) \div CtrlPage]
\* Past the end of the array an index reads whatever is there.
Wild == -1
ioaddrs(dma, i) ==
  IF i < dma.n_ioaddrs
  THEN dma.place[(i * CtrlPage) \div GpuPage] + ((i * CtrlPage) % GpuPage)
  ELSE Wild

\* Where the controller finds byte v of a mapped buffer.
BusAddress(dma, v) == ioaddrs(dma, v \div CtrlPage) + (v % CtrlPage)

\* A page smaller than a block, which is refused too, is not a number of blocks.
BadGeometry(ps, np) == ps > CtrlPage * UintsPerPage \/ np = 0

\* how_many_in_one cache entries per controller page.
prp1_small(dma, ps, np) ==
  LET many == CtrlPage \div ps
      temp == [k \in 0 .. many * dma.n_ioaddrs - 1 |->
                 ioaddrs(dma, k \div many) + (k % many) * ps]
  IN  [e \in 0 .. np - 1 |-> temp[e]]

prp_pair(dma, np) ==
  [e \in 0 .. np - 1 |-> <<ioaddrs(dma, e * 2), ioaddrs(dma, e * 2 + 1)>>]

\* The size of the list pages, kept in 32 bits, and how many entries it makes room for.
prp_list_size(np) == (CtrlPage * np) % SizeMod
ListEntries(np) == (prp_list_size(np) \div CtrlPage) * UintsPerPage

\* Mutant: the list repeats the first page.
prp_list_from_first(dma, list, ps, np) ==
  LET many == ps \div CtrlPage IN
  [prp |-> [e \in 0 .. np - 1 |-> <<ioaddrs(dma, e * many), ioaddrs(list, e)>>],
   mem |-> [i \in 0 .. ListEntries(np) - 1 |->
              LET e == i \div UintsPerPage
                  j == i % UintsPerPage
              IN  IF j < many - 1 THEN ioaddrs(dma, e * many + j) ELSE 0]]

\* First page, list page, and the contents of the list pages.
prp_list(dma, list, ps, np) ==
  LET many == ps \div CtrlPage IN
  [prp |-> [e \in 0 .. np - 1 |-> <<ioaddrs(dma, e * many), ioaddrs(list, e)>>],
   mem |-> [i \in 0 .. ListEntries(np) - 1 |->
              LET e == i \div UintsPerPage
                  j == i % UintsPerPage
              IN  IF j < many - 1 THEN ioaddrs(dma, e * many + j + 1) ELSE 0]]

\* The pages that a command built from the tables of entry e reads or writes.
Reached(dma, list, ps, np, e) ==
  IF ps <= CtrlPage THEN <<prp1_small(dma, ps, np)[e]>>
  ELSE IF ps <= 2 * CtrlPage THEN prp_pair(dma, np)[e]
  ELSE LET t == prp_list(dma, list, ps, np)
           l == CHOOSE l \in 0 .. np - 1 : ioaddrs(list, l) = t.prp[e][2]
           listed(i) == IF i \in DOMAIN t.mem THEN t.mem[i] ELSE Wild
       IN  [j \in 1 .. ps \div CtrlPage |->
              IF j = 1 THEN t.prp[e][1] ELSE listed(l * UintsPerPage + j - 2)]

pages_per_entry(ps) == IF ps <= CtrlPage THEN 1 ELSE ps \div CtrlPage

page_ioaddrs(dma, ps, np) ==
  [k \in 0 .. np * pages_per_entry(ps) - 1 |->
     IF ps <= CtrlPage
     THEN LET many == CtrlPage \div ps IN ioaddrs(dma, k \div many) + (k % many) * ps
     ELSE ioaddrs(dma, k)]

page_vaddrs(ps, np) == [e \in 0 .. np - 1 |-> e * ps]

\* victim_create; pages past the mapping are taken to be contiguous.
data_ioaddrs(dma, n, ppe) ==
  [k \in 0 .. n * ppe - 1 |->
     IF k < dma.n_ioaddrs THEN ioaddrs(dma, k) ELSE ioaddrs(dma, 0) + k * CtrlPage]

---------------------------------------------------------------------------
log2[n \in Nat \ {0}] == IF n = 1 THEN 0 ELSE 1 + log2[n \div 2]

n_ranges_bits(max_range) == IF max_range = 1 THEN 1 ELSE log2[max_range]

\* get_global_address, and its inverse in find_slot and __flush: n_ranges_mask is
\* max_range - 1, the shift the rounded-down logarithm.
Pack(max_range, page, range) == (page * 2^n_ranges_bits(max_range)) | range
Unpack(max_range, gaddr) ==
  <<gaddr \div 2^n_ranges_bits(max_range), gaddr & (max_range - 1)>>
=============================================================================
