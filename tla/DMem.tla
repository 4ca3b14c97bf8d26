-------------------------------- MODULE DMem --------------------------------
(***************************************************************************)
(* The heap of DING OS (d_mem.c): first fit from the lowest free block,    *)
(* blocks split when the rest is large enough and joined with their free   *)
(* neighbours when they are released.  TheHeap is memory that holds        *)
(* headers where blocks begin and, in a free block, may still hold the     *)
(* headers of blocks that were joined to it.                               *)
(*                                                                         *)
(* DMem_Malloc is one step per iteration of its loops, for callers that    *)
(* interleave (Preemptive) or run one after the other.                     *)
(***************************************************************************)
EXTENDS Naturals

CONSTANTS
  MEM_HEAP,         \* bytes of the heap
  MEM_HEADER_SIZE,
  LenRange,         \* 2^15: Len of a header has 15 bits
  SizeRange,        \* 2^16: sizes are u16
  Size,             \* the sizes applications ask for, aligned
  Caller,           \* the threads that call DMem_Malloc
  Preemptive        \* they interleave

ASSUME MemAssumption ==
  /\ MEM_HEAP \in Nat /\ MEM_HEADER_SIZE \in Nat \ {0}
  /\ LenRange \in Nat \ {0} /\ SizeRange \in Nat \ {0}
  /\ Size \subseteq 1 .. SizeRange - 1
  /\ MEM_HEAP >= 2 * MEM_HEADER_SIZE
  /\ Preemptive \in BOOLEAN

MEM_MIN_BLOCK_SIZE == 2 * MEM_HEADER_SIZE

Addr == 0 .. MEM_HEAP

EndHeader == MEM_HEAP

Header == [len : 0 .. LenRange - 1, inUse : BOOLEAN, preLen : Nat]

Blank == [len |-> 0, inUse |-> FALSE, preLen |-> 0]

VARIABLES
  TheHeap,     \* TheHeap[a]: what is read as a header at address a
  FreeHeader,
  MemSem,      \* the caller that has it, or none
  call,        \* call[c]: where DMem_Malloc is, its hdr and its size
  held         \* history: held[a], the bytes handed out at a (a block handed out
               \* twice counts twice), or 0

vars == <<TheHeap, FreeHeader, MemSem, call, held>>

Nobody == "nobody"

Out == [at |-> "out", hdr |-> 0, size |-> 0]

TypeOK ==
  /\ TheHeap \in [Addr -> Header]
  /\ FreeHeader \in Addr
  /\ MemSem \in Caller \cup {Nobody}
  /\ call \in [Caller -> [at : {"out", "enter", "search", "update", "return"}, hdr : Addr, size : Nat]]
  /\ held \in [Addr -> Nat]

(* DMem_Init. *)
Init ==
  /\ TheHeap =
       [a \in Addr |->
          IF a = 0 THEN [len |-> MEM_HEAP % LenRange, inUse |-> FALSE, preLen |-> 0]
          ELSE IF a = EndHeader THEN [len |-> 0, inUse |-> TRUE, preLen |-> MEM_HEAP % SizeRange]
          ELSE Blank]
  /\ FreeHeader = 0
  /\ MemSem = Nobody
  /\ call = [c \in Caller |-> Out]
  /\ held = [a \in Addr |-> 0]

-----------------------------------------------------------------------------
(* DMem_Malloc. *)

MayRun(c) == Preemptive \/ \A d \in Caller \ {c} : call[d].at = "out"

(* blockSize is computed in 16 bits. *)
BlockSize(size) == (size + MEM_HEADER_SIZE) % SizeRange

(* hdr is read before the semaphore is taken. *)
Enter(c, size) ==
  /\ call[c].at = "out"
  /\ MayRun(c)
  /\ call' = [call EXCEPT ![c] = [at |-> "enter", hdr |-> FreeHeader, size |-> size]]
  /\ UNCHANGED <<TheHeap, FreeHeader, MemSem, held>>

Lock(c) ==
  /\ call[c].at = "enter"
  /\ MemSem = Nobody
  /\ MemSem' = c
  /\ call' = [call EXCEPT ![c].at = "search"]
  /\ UNCHANGED <<TheHeap, FreeHeader, held>>

Fits(h, size) == ~ TheHeap[h].inUse /\ TheHeap[h].len >= BlockSize(size)

Searching(c) == call[c].at = "search" /\ call[c].hdr # EndHeader

(* Mutant of Search: it steps by the size it looks for. *)
Search_ByRequest(c) ==
  /\ Searching(c)
  /\ ~ Fits(call[c].hdr, call[c].size)
  /\ call' = [call EXCEPT ![c].hdr = @ + BlockSize(call[c].size)]
  /\ UNCHANGED <<TheHeap, FreeHeader, MemSem, held>>

Search(c) ==
  /\ Searching(c)
  /\ ~ Fits(call[c].hdr, call[c].size)
  /\ call' = [call EXCEPT ![c].hdr = @ + TheHeap[@].len]
  /\ UNCHANGED <<TheHeap, FreeHeader, MemSem, held>>

NotFound(c) ==
  /\ call[c].at = "search" /\ call[c].hdr = EndHeader
  /\ MemSem' = Nobody
  /\ call' = [call EXCEPT ![c] = Out]
  /\ UNCHANGED <<TheHeap, FreeHeader, held>>

(* Mutant of DMem_SplitBlock: the block after the two keeps its PreLen. *)
DMem_SplitBlock_NoPreLen(heap, h, blockSize) ==
  LET rest == heap[h].len - blockSize
  IN IF rest >= MEM_MIN_BLOCK_SIZE
     THEN [heap EXCEPT
             ![h].len = blockSize, ![h].inUse = TRUE,
             ![h + blockSize] = [len |-> rest, inUse |-> FALSE, preLen |-> blockSize]]
     ELSE [heap EXCEPT ![h].inUse = TRUE]

DMem_SplitBlock(heap, h, blockSize) ==
  LET rest == heap[h].len - blockSize
  IN IF rest >= MEM_MIN_BLOCK_SIZE
     THEN [heap EXCEPT
             ![h].len = blockSize, ![h].inUse = TRUE,
             ![h + blockSize] = [len |-> rest, inUse |-> FALSE, preLen |-> blockSize],
             ![h + heap[h].len].preLen = rest]
     ELSE [heap EXCEPT ![h].inUse = TRUE]

Found(c) ==
  LET h == call[c].hdr IN
  /\ Searching(c)
  /\ Fits(h, call[c].size)
  /\ TheHeap' = DMem_SplitBlock(TheHeap, h, BlockSize(call[c].size))
  /\ held' = [held EXCEPT ![h] = @ + TheHeap'[h].len]
  /\ call' = [call EXCEPT ![c].at = IF FreeHeader = h THEN "update" ELSE "return"]
  /\ UNCHANGED <<FreeHeader, MemSem>>

(***************************************************************************)
(* The loop of UpdateFreeHeader: FreeHeader was the block just taken.      *)
(* Mutant: the end of the heap is not told from a block in use.            *)
(***************************************************************************)
Passed_NoEnd == TheHeap[FreeHeader].inUse

Passed == TheHeap[FreeHeader].inUse /\ FreeHeader # EndHeader

UpdateFreeHeader(c) ==
  /\ call[c].at = "update" /\ Passed
  /\ FreeHeader' = FreeHeader + TheHeap[FreeHeader].len
  /\ UNCHANGED <<TheHeap, MemSem, call, held>>

(***************************************************************************)
(* memset of the block.  What its user writes after that is left out: it   *)
(* is read as a header only when a caller that interleaves holds a hdr     *)
(* that is out of date.                                                    *)
(***************************************************************************)
Cleared(heap, h) ==
  [a \in Addr |-> IF h < a /\ a < h + heap[h].len THEN Blank ELSE heap[a]]

Return(c) ==
  /\ \/ call[c].at = "update" /\ ~ Passed
     \/ call[c].at = "return"
  /\ TheHeap' = Cleared(TheHeap, call[c].hdr)
  /\ MemSem' = Nobody
  /\ call' = [call EXCEPT ![c] = Out]
  /\ UNCHANGED <<FreeHeader, held>>

DMem_Malloc(c) ==
  \/ Lock(c) \/ Search(c) \/ NotFound(c) \/ Found(c) \/ UpdateFreeHeader(c) \/ Return(c)

-----------------------------------------------------------------------------
(* DMem_Free; nothing of it but a test of constants is outside the semaphore. *)

JoinNext(heap, h) ==
  LET next == h + heap[h].len
      len == (heap[h].len + heap[next].len) % LenRange
  IN IF next # h /\ ~ heap[next].inUse
     THEN [heap EXCEPT ![h].len = len, ![h + len].preLen = len]
     ELSE heap

(* Mutant of JoinPrevious: the block before is joined though it is in use. *)
JoinPrevious_InUse(heap, h) ==
  LET pre == h - heap[h].preLen
      len == (heap[pre].len + heap[h].len) % LenRange
  IN IF pre # h
     THEN [heap EXCEPT ![pre].len = len, ![h + heap[h].len].preLen = len]
     ELSE heap

JoinPrevious(heap, h) ==
  LET pre == h - heap[h].preLen
      len == (heap[pre].len + heap[h].len) % LenRange
  IN IF pre # h /\ ~ heap[pre].inUse
     THEN [heap EXCEPT ![pre].len = len, ![h + heap[h].len].preLen = len]
     ELSE heap

(* Mutant of DMem_CoalesceBlock: the block before is not joined. *)
DMem_CoalesceBlock_NextOnly(heap, h) == JoinNext(heap, h)

DMem_CoalesceBlock(heap, h) == JoinPrevious(JoinNext(heap, h), h)

(* Mutant of Lowest: FreeHeader stays where it is. *)
Lowest_Kept(h) == FreeHeader

Lowest(h) == IF FreeHeader > h THEN h ELSE FreeHeader

DMem_Free(h) ==
  /\ held[h] > 0
  /\ MemSem = Nobody
  /\ Preemptive \/ \A c \in Caller : call[c].at = "out"
  /\ TheHeap' = DMem_CoalesceBlock([TheHeap EXCEPT ![h].inUse = FALSE], h)
  /\ FreeHeader' = Lowest(h)
  /\ held' = [held EXCEPT ![h] = 0]
  /\ UNCHANGED <<MemSem, call>>

Next ==
  \/ \E c \in Caller : DMem_Malloc(c) \/ \E size \in Size : Enter(c, size)
  \/ \E h \in Addr : DMem_Free(h)

Spec == Init /\ [][Next]_vars

(* A call that has begun goes on. *)
FairSpec == Spec /\ \A c \in Caller : WF_vars(DMem_Malloc(c))
-----------------------------------------------------------------------------
(* Properties. *)

Held == {a \in Addr : held[a] > 0}

(* Where blocks must begin, given the blocks that are handed out: what lies *)
(* between two of them is one block.                                        *)
Blocks == Held \cup {a + held[a] : a \in Held} \cup {0, EndHeader}

Free == {b \in Blocks \ {EndHeader} : held[b] = 0}

(* No byte belongs to two blocks that are handed out. *)
HeldDisjoint ==
  \A a, b \in Held : a < b => a + held[a] <= b

(***************************************************************************)
(* The headers tile the heap: from each block Len leads to the next one    *)
(* and PreLen back, InUse says whether it is handed out, and two free      *)
(* blocks never touch, whatever was split and joined before.               *)
(***************************************************************************)
HeapTiled ==
  /\ TheHeap[EndHeader].inUse
  /\ TheHeap[0].preLen = 0
  /\ \A b \in Blocks \ {EndHeader} :
       LET next == b + TheHeap[b].len IN
       /\ b < next /\ next \in Blocks
       /\ \A a \in Blocks : a <= b \/ a >= next
       /\ TheHeap[next].preLen = TheHeap[b].len
       /\ TheHeap[b].inUse <=> b \in Held
       /\ b \in Held => held[b] = TheHeap[b].len

(***************************************************************************)
(* FreeHeader is the "pointer to the lowest free block" (d_mem.c), or the  *)
(* end when there is none, whenever no call is about to move it.           *)
(***************************************************************************)
FreeHeaderIsLowest ==
  (\A c \in Caller : call[c].at # "update") =>
    /\ FreeHeader \in Free \cup {EndHeader}
    /\ \A b \in Free : FreeHeader <= b

(***************************************************************************)
(* DMem_Malloc gives up only if no gap between blocks handed out is large  *)
(* enough: neither the search nor the joining of free blocks misses one.   *)
(***************************************************************************)
FailsOnlyIfNoneFits ==
  \A c \in Caller :
    call[c].at = "search" /\ call[c].hdr = EndHeader =>
      \A b \in Free, n \in Blocks :
        b < n /\ (\A a \in Blocks : a <= b \/ a >= n) => n - b < BlockSize(call[c].size)

(* Every call of DMem_Malloc returns: its walks over the headers end. *)
MallocReturns == \A c \in Caller : call[c].at # "out" ~> call[c].at = "out"
-----------------------------------------------------------------------------
(* The invariant of callers that run one after the other.                   *)

(* What a heap must satisfy so that no length is cut off. *)
HeapFits ==
  /\ MEM_HEAP < LenRange /\ MEM_HEAP < SizeRange
  /\ \A size \in Size : size + MEM_HEADER_SIZE < SizeRange

(* Every block but the first follows another one. *)
EachFollows ==
  \A b \in Blocks \ {0} : \E a \in Blocks \ {EndHeader} : a + TheHeap[a].len = b

OneAtATime ==
  \A c, d \in Caller : c = d \/ call[c].at = "out" \/ call[d].at = "out"

(* FreeHeader on its way up: nothing free is below it. *)
NoneFreeBelow == FreeHeader \in Blocks /\ \A b \in Free : FreeHeader <= b

(* What a call knows of its hdr. *)
CallKnows(c) ==
  LET k == call[c] IN
  /\ k.at \in {"enter", "search"} => k.size \in Size
  /\ k.at = "enter" => k.hdr = FreeHeader
  /\ k.at = "search" =>
       /\ k.hdr \in Blocks
       /\ \A b \in Free : b < k.hdr => TheHeap[b].len < BlockSize(k.size)
  /\ k.at \in {"update", "return"} => k.hdr \in Held
  /\ k.at = "update" => NoneFreeBelow

IInv ==
  /\ TypeOK
  /\ held[EndHeader] = 0
  /\ HeapTiled
  /\ EachFollows
  /\ OneAtATime
  /\ \A c \in Caller : CallKnows(c)
  /\ FreeHeaderIsLowest
=============================================================================
