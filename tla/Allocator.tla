------------------------------- MODULE Allocator ------------------------------
(***************************************************************************)
(* The allocator of the kernel heap, of the user stacks and of user        *)
(* programs (malloc.c.h): chunks with boundary tags, fast bins, the        *)
(* unsorted list, small and large bins, the bin map, the top chunk and     *)
(* sbrk.  Addresses and sizes are in units of MALLOC_ALIGNMENT; the sizes  *)
(* at which behaviour changes are constants.  A call runs with interrupts  *)
(* masked; each pass of its loops is a step.  op is where the call stands, *)
(* or the last place it jumped to: Sorting ... InSysmalloc say how it falls*)
(* through from there.                                                     *)
(*                                                                         *)
(* Only what the system calls is modelled: mem_alloc and mem_free, on      *)
(* malloc and free.  mmap is compiled out and nobody else calls sbrk.      *)
(***************************************************************************)
EXTENDS Integers, Sequences, FiniteSets, SequencesExt

CONSTANTS HeapStart, HeapEnd,       \* mem_heap and mem_heap_end
          PageSize,
          MaxFast,                  \* largest size of a fast bin
          MinLarge,                 \* MIN_LARGE_SIZE
          LargeSizes,               \* where the large bins but the first begin
          Threshold,                \* FASTBIN_CONSOLIDATION_THRESHOLD
          Lengths,                  \* lengths asked for, in words
          MaxLive                   \* bound: blocks not freed

ASSUME AllocatorConstants ==
  /\ {HeapStart, HeapEnd} \subseteq Nat /\ HeapStart < HeapEnd
  /\ {PageSize, MaxFast, MinLarge, Threshold} \subseteq Nat \ {0}
  /\ LargeSizes \subseteq Nat /\ IsFiniteSet(LargeSizes)
  /\ MaxLive \in Nat
  /\ MaxFast < MinLarge /\ MinLarge <= Threshold
  /\ Lengths \subseteq Nat \ {0}

MinSize == 2

None == -1

Max2(a, b) == IF a > b THEN a ELSE b

RoundUp(n) == ((n + PageSize - 1) \div PageSize) * PageSize

(***************************************************************************)
(* The chunk for a block of n words: mem_alloc adds two words before and   *)
(* two after, malloc the word of the head, and two words are one unit.     *)
(***************************************************************************)
GuardWords == 4

request2size(words) == Max2(MinSize, (words + 1 + 1) \div 2)

ChunkFor(n) == request2size(n + GuardWords)

in_smallbin_range(size) == size < MinLarge

\* The last bin takes all the sizes that are larger still.
LargeIndex(size) == MinLarge + Cardinality({s \in LargeSizes : s <= size})

BinIndex(size) == IF in_smallbin_range(size) THEN size ELSE LargeIndex(size)

Bins == MinSize .. MinLarge + Cardinality(LargeSizes)

FastBins == MinSize .. MaxFast
-------------------------------------------------------------------------------
VARIABLES heap,             \* address of a chunk -> its head and the word before
          top,
          unsorted, bins, fastbins, binmap, last_remainder,
          anychunks, fastchunks,
          curptr,           \* the end of the memory obtained by sbrk
          op,               \* the call in progress
          live              \* the blocks handed out: address -> size asked for

lists == <<unsorted, bins, fastbins, binmap>>

flags == <<last_remainder, anychunks, fastchunks>>

vars == <<heap, top, lists, flags, curptr, op, live>>

Idle == [at |-> "idle", nb |-> 0, idx |-> 0, then |-> "idle"]

At(where) == op.at = where

Goto(where) == op' = [op EXCEPT !.at = where]

nb == op.nb

size(a) == heap[a].size

NextChunk(a) == a + size(a)

inuse(a) == heap[NextChunk(a)].prev_inuse

TopSize == IF top = None THEN 0 ELSE size(top)

(* set_head: a new head, with the word before it kept.                       *)
WithHead(h, a, s) ==
  [b \in DOMAIN h \cup {a} |->
     IF b # a THEN h[b]
     ELSE [size |-> s, prev_inuse |-> TRUE,
           prev_size |-> IF a \in DOMAIN h THEN h[a].prev_size ELSE 0]]

WithoutHeads(h, as) == [a \in DOMAIN h \ as |-> h[a]]

(* set_inuse_bit_at_offset and set_foot, on the chunk that follows.          *)
InUseBefore(h, a) ==
  [h EXCEPT ![a] = [size |-> @.size, prev_inuse |-> TRUE, prev_size |-> 0]]

FreeBefore(h, a, s) ==
  [h EXCEPT ![a] = [size |-> @.size, prev_inuse |-> FALSE, prev_size |-> s]]

(* Chunk a cut in two: nb units taken, the rest a free chunk or the top.     *)
CutForUse(a) == WithHead(WithHead(heap, a, nb), a + nb, size(a) - nb)

Cut(a) == FreeBefore(CutForUse(a), NextChunk(a), size(a) - nb)

(* The block at a goes to the caller.                                        *)
Return(a) ==
  /\ live' = [b \in DOMAIN live \cup {a} |-> IF b = a THEN nb ELSE live[b]]
  /\ op' = Idle
-------------------------------------------------------------------------------
(* unlink: out of whichever list the chunk is in.                            *)
Unlinked(s, a) ==
  IF Contains(s, a) THEN RemoveAt(s, CHOOSE i \in DOMAIN s : s[i] = a) ELSE s

(***************************************************************************)
(* The part of free() that malloc_consolidate() repeats: a chunk is merged *)
(* with its free neighbours and put first in the unsorted list, or merged  *)
(* into the top.                                                           *)
(***************************************************************************)
MergedBack(a) == IF heap[a].prev_inuse THEN None ELSE a - heap[a].prev_size

MergedForwardNever(a) == None       \* faulty variant: no consolidation forward

MergedForward(a) ==
  IF NextChunk(a) # top /\ ~inuse(NextChunk(a)) THEN NextChunk(a) ELSE None

Merged(a) ==                        \* address and size of the result
  LET start == IF MergedBack(a) = None THEN a ELSE MergedBack(a)
      next == NextChunk(a)
      end == IF next \in {top, MergedForward(a)} THEN NextChunk(next) ELSE next
  IN  [addr |-> start, size |-> end - start]

Coalesce(a) ==
  LET m == Merged(a)
      kept == WithHead(WithoutHeads(heap, m.addr + 1 .. m.addr + m.size - 1), m.addr, m.size)
      Rest(s) == Unlinked(Unlinked(s, MergedBack(a)), MergedForward(a))
  IN  /\ bins' = [i \in Bins |-> Rest(bins[i])]
      /\ IF NextChunk(a) = top
           THEN /\ heap' = kept /\ top' = m.addr
                /\ unsorted' = Rest(unsorted)
           ELSE /\ heap' = FreeBefore(kept, m.addr + m.size, m.size)
                /\ unsorted' = <<m.addr>> \o Rest(unsorted)
                /\ UNCHANGED top

(* One chunk of the loops of malloc_consolidate().                           *)
FirstFast == CHOOSE i \in FastBins : /\ fastbins[i] # <<>>
                                     /\ \A j \in FastBins : j < i => fastbins[j] = <<>>

NoFast == \A i \in FastBins : fastbins[i] = <<>>

ConsolidateChunk ==
  /\ At("consolidate") /\ ~NoFast
  /\ fastbins' = [fastbins EXCEPT ![FirstFast] = Tail(@)]
  /\ Coalesce(Head(fastbins[FirstFast]))
  /\ fastchunks' = FALSE
  /\ UNCHANGED <<binmap, last_remainder, anychunks, curptr, op, live>>

ConsolidateEnd ==
  /\ At("consolidate") /\ NoFast
  /\ Goto(op.then) /\ fastchunks' = FALSE
  /\ UNCHANGED <<heap, top, lists, last_remainder, anychunks, curptr, live>>

Consolidate(then) == op' = [op EXCEPT !.at = "consolidate", !.then = then]
-------------------------------------------------------------------------------
(* mALLOc: the entry, with the exits that need no search.                    *)
MemAlloc(n) ==
  /\ op = Idle /\ Cardinality(DOMAIN live) < MaxLive
  /\ op' = [Idle EXCEPT !.at = "malloc", !.nb = ChunkFor(n),
                        !.idx = BinIndex(ChunkFor(n))]
  /\ UNCHANGED <<heap, top, lists, flags, curptr, live>>

Exact == /\ nb \in FastBins /\ fastbins[nb] # <<>>

ExactSmall == in_smallbin_range(nb) /\ bins[nb] # <<>>

MallocFast ==
  /\ At("malloc") /\ anychunks /\ Exact
  /\ fastbins' = [fastbins EXCEPT ![nb] = Tail(@)]
  /\ Return(Head(fastbins[nb]))
  /\ UNCHANGED <<heap, top, unsorted, bins, binmap, flags, curptr>>

MallocSmall ==
  /\ At("malloc") /\ anychunks /\ ~Exact /\ ExactSmall
  /\ bins' = [bins EXCEPT ![nb] = Front(@)]
  /\ heap' = InUseBefore(heap, NextChunk(Last(bins[nb])))
  /\ Return(Last(bins[nb]))
  /\ UNCHANGED <<top, unsorted, fastbins, binmap, flags, curptr>>

MustSearch == At("malloc") /\ anychunks /\ ~Exact /\ ~ExactSmall

MustConsolidate == MustSearch /\ ~in_smallbin_range(nb) /\ fastchunks

MallocConsolidates ==
  /\ MustConsolidate
  /\ Consolidate("sort")
  /\ UNCHANGED <<heap, top, lists, flags, curptr, live>>

(* The loop over the unsorted chunks, from the oldest.                       *)
Sorting == At("sort") \/ (MustSearch /\ ~MustConsolidate)

Victim == Last(unsorted)

UsesRemainder ==
  /\ in_smallbin_range(nb) /\ Len(unsorted) = 1 /\ Victim = last_remainder
  /\ size(Victim) > nb + MinSize

SortRemainder ==
  /\ Sorting /\ unsorted # <<>> /\ UsesRemainder
  /\ unsorted' = <<Victim + nb>> /\ last_remainder' = Victim + nb
  /\ heap' = Cut(Victim)
  /\ Return(Victim)
  /\ UNCHANGED <<top, bins, fastbins, binmap, anychunks, fastchunks, curptr>>

SortExact ==
  /\ Sorting /\ unsorted # <<>> /\ ~UsesRemainder /\ size(Victim) = nb
  /\ unsorted' = Front(unsorted)
  /\ heap' = InUseBefore(heap, NextChunk(Victim))
  /\ Return(Victim)
  /\ UNCHANGED <<top, bins, fastbins, binmap, flags, curptr>>

\* Where a chunk goes in its bin: first, or, in a large bin, before the first
\* chunk that is not larger; but a chunk as small as the last one goes behind it,
\* as the sizes compared then are its own without and the other's with PREV_INUSE.
PlaceFirst(s, bin) == 1             \* faulty variant: large bins not sorted

Place(s, bin) ==
  IF in_smallbin_range(s) \/ bin = <<>> THEN 1
  ELSE IF s <= size(Last(bin)) THEN Len(bin) + 1
  ELSE CHOOSE i \in DOMAIN bin : /\ size(bin[i]) <= s
                                 /\ \A j \in 1 .. i - 1 : size(bin[j]) > s

SortPlace ==
  /\ Sorting /\ unsorted # <<>> /\ ~UsesRemainder /\ size(Victim) # nb
  /\ LET s == size(Victim)
         i == BinIndex(s)
     IN  /\ bins' = [bins EXCEPT ![i] = InsertAt(@, Place(s, @), Victim)]
         /\ binmap' = binmap \cup {i}
  /\ unsorted' = Front(unsorted)
  /\ Goto("sort")
  /\ UNCHANGED <<heap, top, fastbins, flags, curptr, live>>

(* The chunk chosen is used whole if the rest would be too small to be one.  *)
ExhaustsMore(a) == size(a) - nb <= MinSize      \* faulty variant

Exhausts(a) == size(a) - nb < MinSize

Use(a, remembered) ==
  /\ heap' = IF Exhausts(a) THEN InUseBefore(heap, NextChunk(a)) ELSE Cut(a)
  /\ unsorted' = IF Exhausts(a) THEN unsorted ELSE <<a + nb>>
  /\ last_remainder' = IF remembered /\ ~Exhausts(a) THEN a + nb ELSE last_remainder
  /\ Return(a)

(* A large request looks at the chunks of its own bin, from the smallest.    *)
Sorted == Sorting /\ unsorted = <<>>

OwnBin == bins[op.idx]

Fitting == {i \in DOMAIN OwnBin : size(OwnBin[i]) >= nb}

Scanning == Sorted /\ ~in_smallbin_range(nb) /\ Fitting # {}

Smallest == CHOOSE i \in Fitting : \A j \in Fitting : j <= i

ScanTakes ==
  /\ Scanning
  /\ bins' = [bins EXCEPT ![op.idx] = RemoveAt(@, Smallest)]
  /\ Use(OwnBin[Smallest], FALSE)
  /\ UNCHANGED <<top, fastbins, binmap, anychunks, fastchunks, curptr>>

(* Then the bins of larger chunks, as the bin map shows them.                *)
Mapping == At("map") \/ (Sorted /\ ~Scanning)

MarkedFromSame == {i \in binmap : i >= op.idx}  \* faulty variant: idx not advanced

Marked == {i \in binmap : i > op.idx}

FirstMarked == CHOOSE i \in Marked : \A j \in Marked : i <= j

MapClears ==                        \* false alarm
  /\ Mapping /\ Marked # {} /\ bins[FirstMarked] = <<>>
  /\ binmap' = binmap \ {FirstMarked}
  /\ op' = [op EXCEPT !.at = "map", !.idx = FirstMarked]
  /\ UNCHANGED <<heap, top, unsorted, bins, fastbins, flags, curptr, live>>

MapTakes ==
  /\ Mapping /\ Marked # {} /\ bins[FirstMarked] # <<>>
  /\ bins' = [bins EXCEPT ![FirstMarked] = Front(@)]
  /\ Use(Last(bins[FirstMarked]), in_smallbin_range(nb))
  /\ UNCHANGED <<top, fastbins, binmap, anychunks, fastchunks, curptr>>

(* use_top, where a call that finds nothing ends, as does one made before    *)
(* anything was ever freed.                                                  *)
UsingTop == \/ At("top") \/ (Mapping /\ Marked = {})
            \/ (At("malloc") /\ ~anychunks)

TopTakes ==
  /\ UsingTop /\ TopSize >= nb + MinSize
  /\ heap' = CutForUse(top) /\ top' = top + nb
  /\ Return(top)
  /\ UNCHANGED <<lists, flags, curptr>>

InSysmalloc == UsingTop /\ TopSize < nb + MinSize
-------------------------------------------------------------------------------
(* sYSMALLOc: consolidate and start again, or extend the top.                *)
SysRetry ==
  /\ InSysmalloc /\ fastchunks
  /\ op' = [op EXCEPT !.at = "consolidate", !.then = "malloc", !.idx = BinIndex(nb)]
  /\ UNCHANGED <<heap, top, lists, flags, curptr, live>>

Needed == RoundUp(nb + MinSize - TopSize)

sbrk(n) == n >= 0 /\ curptr + n <= HeapEnd      \* whether it succeeds

SysFails ==
  /\ InSysmalloc /\ ~fastchunks /\ ~sbrk(Needed)
  /\ op' = Idle
  /\ UNCHANGED <<heap, top, lists, flags, curptr, live>>

SysExtends ==
  /\ InSysmalloc /\ ~fastchunks /\ sbrk(Needed) /\ top # None
  /\ curptr' = curptr + Needed
  /\ heap' = WithHead(heap, top, TopSize + Needed)
  /\ Goto("top")
  /\ UNCHANGED <<top, lists, flags, live>>

(* The first time: the end is moved to the end of a page if it can be.       *)
SysFirst ==
  /\ InSysmalloc /\ ~fastchunks /\ sbrk(Needed) /\ top = None
  /\ LET end == curptr + Needed
         aligned == RoundUp(end)
     IN  curptr' = IF aligned <= HeapEnd THEN aligned ELSE end
  /\ top' = curptr
  /\ heap' = WithHead(heap, curptr, curptr' - curptr)
  /\ Goto("top")
  /\ UNCHANGED <<lists, flags, live>>
-------------------------------------------------------------------------------
(* fREe, from mem_free.                                                      *)
MemFreeFast(a) ==
  /\ op = Idle /\ size(a) <= MaxFast
  /\ fastbins' = [fastbins EXCEPT ![size(a)] = <<a>> \o @]
  /\ fastchunks' = TRUE /\ anychunks' = TRUE
  /\ live' = [b \in DOMAIN live \ {a} |-> live[b]]
  /\ UNCHANGED <<heap, top, unsorted, bins, binmap, last_remainder, curptr, op>>

MemFree(a) ==
  /\ op = Idle /\ size(a) > MaxFast
  /\ anychunks' = TRUE
  /\ Coalesce(a)
  /\ live' = [b \in DOMAIN live \ {a} |-> live[b]]
  /\ op' = CASE Merged(a).size < Threshold -> Idle
             [] fastchunks                 -> [Idle EXCEPT !.at = "consolidate",
                                                           !.then = "systrim"]
             [] OTHER                      -> [Idle EXCEPT !.at = "systrim"]
  /\ UNCHANGED <<fastbins, binmap, last_remainder, fastchunks, curptr>>

(* sYSTRIm asks for a negative amount, which sbrk always refuses: whatever   *)
(* the size of the top nothing is given back.                                *)
SysTrim ==
  /\ At("systrim")
  /\ op' = Idle
  /\ UNCHANGED <<heap, top, lists, flags, curptr, live>>

Init ==
  /\ heap = <<>> /\ top = None
  /\ unsorted = <<>> /\ bins = [i \in Bins |-> <<>>]
  /\ fastbins = [i \in FastBins |-> <<>>] /\ binmap = {}
  /\ last_remainder = None /\ anychunks = FALSE /\ fastchunks = FALSE
  /\ curptr = HeapStart
  /\ op = Idle /\ live = <<>>

Malloc == \/ MallocFast \/ MallocSmall \/ MallocConsolidates
          \/ SortRemainder \/ SortExact \/ SortPlace
          \/ ScanTakes \/ MapClears \/ MapTakes \/ TopTakes
          \/ SysRetry \/ SysFails \/ SysExtends \/ SysFirst

Next == \/ \E n \in Lengths : MemAlloc(n)
        \/ \E a \in DOMAIN live : MemFreeFast(a) \/ MemFree(a)
        \/ Malloc \/ ConsolidateChunk \/ ConsolidateEnd \/ SysTrim

Spec == Init /\ [][Next]_vars
-------------------------------------------------------------------------------
Chunks == DOMAIN heap \ {top}

Free == {a \in Chunks : ~inuse(a)}

InFast(a) == \E i \in FastBins : Contains(fastbins[i], a)

(***************************************************************************)
(* The chunks tile the memory from mem_heap to the top, which ends where   *)
(* sbrk does; every head tells whether the chunk before is free, and then  *)
(* its size; two free chunks are never neighbours, and the top always has  *)
(* room for the fence of sYSMALLOc.                                        *)
(***************************************************************************)
TagsAgree ==
  top # None =>
    /\ HeapStart \in DOMAIN heap /\ heap[HeapStart].prev_inuse
    /\ NextChunk(top) = curptr /\ size(top) >= MinSize /\ heap[top].prev_inuse
    /\ \A a \in Chunks : /\ NextChunk(a) \in DOMAIN heap
                         /\ size(a) >= MinSize
                         /\ \A b \in DOMAIN heap : b <= a \/ b >= NextChunk(a)
    /\ \A a \in Free : /\ heap[NextChunk(a)].prev_size = size(a)
                       /\ heap[a].prev_inuse

InBins == UNION {ToSet(bins[i]) : i \in Bins}

(***************************************************************************)
(* Every free chunk is once in one list, the one of its size or the        *)
(* unsorted one; large bins are sorted; a bin without its bit in the map   *)
(* is empty; the flags that let malloc skip a search are clear only if     *)
(* there is nothing to find; chunks of fast bins look in use.              *)
(***************************************************************************)
BinsAgree ==
  /\ Free = ToSet(unsorted) \cup InBins /\ ToSet(unsorted) \cap InBins = {}
  /\ IsInjective(unsorted) /\ \A i \in Bins : IsInjective(bins[i])
  /\ \A i \in Bins :
       /\ \A k \in DOMAIN bins[i] : BinIndex(size(bins[i][k])) = i
       /\ \A k, l \in DOMAIN bins[i] : k < l => size(bins[i][k]) >= size(bins[i][l])
       /\ i \notin binmap => bins[i] = <<>>
  /\ \A i \in FastBins : \A k \in DOMAIN fastbins[i] : size(fastbins[i][k]) = i
  /\ fastchunks \/ NoFast \/ At("consolidate")
  /\ anychunks \/ (Free = {} /\ NoFast)

(***************************************************************************)
(* A block handed out stays as it was until it is freed: a chunk of its    *)
(* own, with the room asked for and less than a chunk too much, that no    *)
(* list holds and in whose last word, where mem_alloc has put its mark, no *)
(* foot was written; and every chunk in use is a block or in a fast bin.   *)
(***************************************************************************)
BlocksIntact ==
  /\ DOMAIN live \subseteq Chunks \ Free
  /\ \A a \in DOMAIN live : /\ size(a) >= live[a] /\ size(a) - live[a] < MinSize
                            /\ heap[NextChunk(a)].prev_size = 0
                            /\ ~InFast(a)
  /\ \A a \in Chunks \ Free : a \in DOMAIN live \/ InFast(a)

(***************************************************************************)
(* Best fit: a chunk found by searching the bins is the smallest that is   *)
(* large enough, the top is only used when there is none, and malloc fails *)
(* only when no free chunk, those of the fast bins included, would do.     *)
(***************************************************************************)
BestFit ==
  /\ Scanning => \A a \in Free : size(a) >= nb => size(a) >= size(OwnBin[Smallest])
  /\ Mapping /\ Marked # {} /\ bins[FirstMarked] # <<>> =>
       /\ size(Last(bins[FirstMarked])) >= nb
       /\ \A a \in Free : size(a) >= nb => size(a) >= size(Last(bins[FirstMarked]))
  /\ UsingTop => \A a \in Free : size(a) < nb
  /\ InSysmalloc /\ ~fastchunks => NoFast
===============================================================================
