-------------------------------- MODULE Pow2 --------------------------------
(***************************************************************************)
(* The power-of-two allocator of the kernel (mem/pow2.c).  For every power *)
(* between POW2_MIN_POW and POW2_MAX_POW a chain of headers holds the free *)
(* blocks of that size; a table holds the blocks in use with their power.  *)
(* Blocks are split when there is no smaller one and are never joined.     *)
(***************************************************************************)
EXTENDS Naturals, Sequences, SequencesExt, FiniteSets

CONSTANTS
  POW2_MIN_POW, POW2_MAX_POW,
  POW2_MAX_COUNT,  \* pointers in a header
  TablePage,       \* descriptors in a page of the table of used blocks
  MaxUsed,         \* bound: blocks in use
  MaxGrabs         \* bound: blocks of the largest size taken from the system

ASSUME Pow2Assumption ==
  /\ POW2_MIN_POW \in Nat /\ POW2_MAX_POW \in Nat /\ POW2_MIN_POW <= POW2_MAX_POW
  /\ POW2_MAX_COUNT \in Nat \ {0} /\ TablePage \in Nat \ {0} /\ MaxGrabs \in Nat

Power == POW2_MIN_POW .. POW2_MAX_POW
Size == 0 .. 2^POW2_MAX_POW

VARIABLES
  table,  \* pow2_table: for every power a chain of headers, each a stack of addresses
  used,   \* pow2_used_table: descriptors [ptr, index]
  pages,  \* pow2_used_table_pages
  grabs   \* largest blocks taken from the system, at addresses 0, 2^POW2_MAX_POW, ...

pvars == <<table, used, pages, grabs>>

\* pow2_init: one empty header for every power, one page of descriptors.
PInit ==
  /\ table = [i \in Power |-> << <<>> >>]
  /\ used = <<>> /\ pages = 1 /\ grabs = 0

-----------------------------------------------------------------------------
\* The last header reached by chasing next from full headers.
Reached(chain) ==
  CHOOSE h \in DOMAIN chain :
    /\ Len(chain[h]) < POW2_MAX_COUNT \/ h = Len(chain)
    /\ \A g \in 1 .. h - 1 : Len(chain[g]) = POW2_MAX_COUNT

\* pow2_add_free_block: the first header with room, or a new one at the end.
AddBlock(chain, ptr) ==
  LET h == Reached(chain)
  IN  IF Len(chain[h]) < POW2_MAX_COUNT THEN [chain EXCEPT ![h] = Append(@, ptr)]
      ELSE Append(chain, <<ptr>>)

TakeKeepsHeader(chain) ==
  [chain EXCEPT ![Reached(chain)] = Front(@)]

\* Pops a block; a header that was chased and is now empty is given back.
TakeBlock(chain) ==
  LET h == Reached(chain)
  IN  IF h > 1 /\ Len(chain[h]) = 1 THEN SubSeq(chain, 1, h - 1)
      ELSE [chain EXCEPT ![h] = Front(@)]

HasBlock(chain) == chain[Reached(chain)] # <<>>

\* pow2_get_free_block finds the smallest power from i on that has a block, or
\* grabs a largest one, and splits it down to i: the lower halves become free
\* and the upper half is split on.
Source(i) ==
  LET avail == {k \in i .. POW2_MAX_POW : HasBlock(table[k])}
  IN  IF avail = {} THEN POW2_MAX_POW ELSE CHOOSE k \in avail : \A l \in avail : k <= l

SplitsUpper(b, k, i) == [j \in i .. k - 1 |-> b + 2^k - 2^j]

LowerHalves(b, k, i) == [j \in i .. k - 1 |-> b + 2^k - 2^(j + 1)]

\* pow2_compute_index, with the bit scan of size - 1.
BitScanReverse(x) == CHOOSE i \in 0 .. x : 2^i <= x /\ x < 2^(i + 1)

IndexOf(size) ==
  IF size <= 2^POW2_MIN_POW THEN POW2_MIN_POW
  ELSE IF size >= 2^POW2_MAX_POW THEN POW2_MAX_POW
  ELSE BitScanReverse(size - 1) + 1

\* pow2_alloc: find a block and enter it into the table of used blocks, which
\* grows by a page when it is full.
PAlloc(size) ==
  LET i == IndexOf(size)
      k == Source(i)
      found == HasBlock(table[k])
      b == IF found THEN Last(table[k][Reached(table[k])]) ELSE grabs * 2^POW2_MAX_POW
      lower == LowerHalves(b, k, i)
  IN  /\ Len(used) < MaxUsed /\ (found \/ grabs < MaxGrabs)
      /\ grabs' = IF found THEN grabs ELSE grabs + 1
      /\ table' = [j \in Power |-> IF j = k /\ found THEN TakeBlock(table[j])
                                   ELSE IF j \in DOMAIN lower THEN AddBlock(table[j], lower[j])
                                   ELSE table[j]]
      /\ used' = Append(used, [ptr |-> b + 2^k - 2^i, index |-> i])
      /\ pages' = IF Len(used) >= pages * TablePage THEN pages + 1 ELSE pages

\* pow2_remove_used_table: the last descriptor takes the place of the n-th.
RemoveUsed(n) ==
  [m \in 1 .. Len(used) - 1 |-> IF m = n THEN Last(used) ELSE used[m]]

\* pow2_free
PFree(n) ==
  LET u == used[n]
  IN  /\ used' = RemoveUsed(n)
      /\ table' = [table EXCEPT ![u.index] = AddBlock(@, u.ptr)]
      /\ UNCHANGED <<pages, grabs>>

PNext ==
  \/ \E size \in Size : PAlloc(size)
  \/ \E n \in DOMAIN used : PFree(n)

PSpec == PInit /\ [][PNext]_pvars

-----------------------------------------------------------------------------
\* The blocks, free and in use, that contain address a.
UsedAt(a) == {n \in DOMAIN used : a \in used[n].ptr .. used[n].ptr + 2^used[n].index - 1}
FreeAt(a) ==
  {b \in Power \X (1 .. 2^POW2_MAX_POW * MaxGrabs) \X (1 .. POW2_MAX_COUNT) :
     /\ b[2] \in DOMAIN table[b[1]] /\ b[3] \in DOMAIN table[b[1]][b[2]]
     /\ LET ptr == table[b[1]][b[2]][b[3]] IN a \in ptr .. ptr + 2^b[1] - 1}

\* Only the first header may be empty, and all but the last are full.
ChainPacked ==
  \A j \in Power : \A h \in DOMAIN table[j] :
    /\ h > 1 => table[j][h] # <<>>
    /\ h < Len(table[j]) => Len(table[j][h]) = POW2_MAX_COUNT

\* Blocks are handed out, split, freed and kept in chains so that every byte
\* taken from the system is in exactly one block, free or in use, and a block is
\* as large as was asked for: no two callers of kmalloc ever share memory,
\* and none is lost.  And "hdr->count can only be 0 for first in chain"
\* (pow2_get_free_block): all headers but the last are full, so chasing next
\* pointers finds a free block whenever there is one, and no header is leaked.
BlocksPartition ==
  /\ ChainPacked
  /\ \A a \in 0 .. grabs * 2^POW2_MAX_POW - 1 :
       Cardinality(UsedAt(a)) + Cardinality(FreeAt(a)) = 1
  /\ \A size \in Size : size <= 2^IndexOf(size)

\* Type invariant.
PTypeOK ==
  /\ \A j \in Power : table[j] \in Seq(Seq(Nat)) /\ table[j] # <<>>
  /\ Len(used) <= pages * TablePage
  /\ grabs \in 0 .. MaxGrabs
=============================================================================
