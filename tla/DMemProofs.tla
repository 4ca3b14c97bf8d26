----------------------------- MODULE DMemProofs -----------------------------
(***************************************************************************)
(* The heap is sound for callers that run one after the other, whatever    *)
(* its size and the sizes they ask for, if no length is cut off.           *)
(***************************************************************************)
EXTENDS DMem, TLAPS

(* The assumptions on the constants that the lemmas use. *)
LEMMA Constants ==
  /\ MEM_HEAP \in Nat /\ MEM_HEADER_SIZE \in Nat /\ MEM_HEADER_SIZE > 0
  /\ MEM_HEAP > 0 /\ EndHeader = MEM_HEAP /\ EndHeader \in Addr /\ 0 \in Addr
  /\ MEM_MIN_BLOCK_SIZE \in Nat /\ MEM_MIN_BLOCK_SIZE > 0
  /\ LenRange \in Nat /\ SizeRange \in Nat /\ Size \subseteq Nat \ {0}
BY MemAssumption DEF EndHeader, Addr, MEM_MIN_BLOCK_SIZE

(* A remainder that cuts nothing off. *)
LEMMA NoWrap ==
  ASSUME NEW a \in Nat, NEW n \in Nat, a < n
  PROVE  a % n = a
OBVIOUS

(* The block that a size takes. *)
LEMMA BlockSizeFacts ==
  ASSUME HeapFits, NEW size \in Size
  PROVE  BlockSize(size) = size + MEM_HEADER_SIZE /\ BlockSize(size) \in Nat /\ BlockSize(size) > 0
<1>1. size \in Nat /\ size > 0 /\ size + MEM_HEADER_SIZE < SizeRange
  BY Constants DEF HeapFits
<1>2. (size + MEM_HEADER_SIZE) % SizeRange = size + MEM_HEADER_SIZE
  BY <1>1, Constants, NoWrap
<1> QED BY <1>1, <1>2, Constants DEF BlockSize

-----------------------------------------------------------------------------
(* The tiling. *)

Tiled == TypeOK /\ HeapTiled /\ held[EndHeader] = 0

LEMMA BlocksInHeap ==
  ASSUME Tiled
  PROVE  Held \subseteq Addr \ {EndHeader} /\ Blocks \subseteq Addr
<1>1. Held \subseteq Addr \ {EndHeader}
  BY Constants DEF Tiled, Held, TypeOK
<1>2. ASSUME NEW a \in Held
      PROVE  a + held[a] \in Addr
  <2>1. a \in Blocks \ {EndHeader} /\ EndHeader \in Blocks
    BY <1>1 DEF Blocks
  <2>4. a \in Nat /\ a <= MEM_HEAP
    BY <1>1, Constants DEF Addr
  <2>2. held[a] = TheHeap[a].len /\ (EndHeader <= a \/ EndHeader >= a + TheHeap[a].len)
    BY <2>1 DEF Tiled, HeapTiled
  <2>3. held[a] \in Nat
    BY <1>1 DEF Tiled, TypeOK
  <2> QED BY <1>1, <2>1, <2>2, <2>3, <2>4, Constants DEF Addr
<1>3. {a + held[a] : a \in Held} \subseteq Addr
  BY <1>2
<1> QED BY <1>1, <1>3, Constants DEF Blocks

(* What the headers say of a block that is not the end. *)
LEMMA BlockFacts ==
  ASSUME Tiled, NEW b \in Blocks, b # EndHeader
  PROVE  /\ b \in Addr /\ b \in Nat /\ b < EndHeader
         /\ TheHeap[b].len \in Nat /\ TheHeap[b].len > 0
         /\ b + TheHeap[b].len \in Blocks /\ b + TheHeap[b].len \in Addr
         /\ \A a \in Blocks : a <= b \/ a >= b + TheHeap[b].len
         /\ TheHeap[b + TheHeap[b].len].preLen = TheHeap[b].len
         /\ TheHeap[b].inUse <=> b \in Held
         /\ b \in Held => held[b] = TheHeap[b].len
<1>1. b \in Addr /\ b \in Nat /\ b < EndHeader
  BY BlocksInHeap, Constants DEF Addr
<1>2. TheHeap[b] \in Header
  BY <1>1 DEF Tiled, TypeOK
<1>3. TheHeap[b].len \in Nat
  BY <1>2, Constants DEF Header
<1>4. /\ b < b + TheHeap[b].len /\ b + TheHeap[b].len \in Blocks
      /\ \A a \in Blocks : a <= b \/ a >= b + TheHeap[b].len
      /\ TheHeap[b + TheHeap[b].len].preLen = TheHeap[b].len
      /\ TheHeap[b].inUse <=> b \in Held
      /\ b \in Held => held[b] = TheHeap[b].len
  BY DEF Tiled, HeapTiled
<1>5. TheHeap[b].len > 0
  BY <1>1, <1>3, <1>4
<1> QED BY <1>1, <1>3, <1>4, <1>5, BlocksInHeap

(* A block that is not handed out and not the end is free, and its header *)
(* says so.                                                               *)
LEMMA FreeFacts ==
  ASSUME Tiled
  PROVE  /\ \A b \in Free : b \in Blocks /\ b # EndHeader /\ ~ TheHeap[b].inUse /\ b \notin Held
         /\ \A b \in Blocks \ {EndHeader} : b \notin Held => b \in Free
<1>1. \A b \in Blocks : b \in Addr /\ held[b] \in Nat
  BY BlocksInHeap DEF Tiled, TypeOK
<1>2. \A b \in Blocks : held[b] = 0 <=> b \notin Held
  BY <1>1 DEF Held
<1> QED BY <1>2, BlockFacts DEF Free

(* Two blocks do not end at the same place. *)
LEMMA BlockEndsDiffer ==
  ASSUME Tiled, NEW b \in Blocks \ {EndHeader}, NEW c \in Blocks \ {EndHeader},
         b + TheHeap[b].len = c + TheHeap[c].len
  PROVE  b = c
<1>1. b \in Nat /\ TheHeap[b].len \in Nat /\ TheHeap[b].len > 0
      /\ (c <= b \/ c >= b + TheHeap[b].len)
  BY BlockFacts
<1>2. c \in Nat /\ TheHeap[c].len \in Nat /\ TheHeap[c].len > 0
      /\ (b <= c \/ b >= c + TheHeap[c].len)
  BY BlockFacts
<1> QED BY <1>1, <1>2

(* A block that does not begin the heap follows one, to which PreLen leads. *)
LEMMA BlockBefore ==
  ASSUME Tiled, EachFollows, NEW h \in Blocks, h # 0
  PROVE  LET pre == h - TheHeap[h].preLen IN
         /\ pre \in Blocks /\ pre # EndHeader /\ pre \in Nat /\ pre < h
         /\ pre + TheHeap[pre].len = h
<1>1. PICK b \in Blocks \ {EndHeader} : b + TheHeap[b].len = h
  BY DEF EachFollows
<1>2. /\ b \in Nat /\ TheHeap[b].len \in Nat /\ TheHeap[b].len > 0
      /\ TheHeap[b + TheHeap[b].len].preLen = TheHeap[b].len
  BY BlockFacts
<1>3. h - TheHeap[h].preLen = b
  BY <1>1, <1>2
<1> QED BY <1>1, <1>2, <1>3

-----------------------------------------------------------------------------
(* The initial states. *)

LEMMA InitIInv ==
  ASSUME HeapFits, Init
  PROVE  IInv
<1>1. MEM_HEAP % LenRange = MEM_HEAP /\ MEM_HEAP % SizeRange = MEM_HEAP
  BY NoWrap, Constants DEF HeapFits
<1> DEFINE first == [len |-> MEM_HEAP, inUse |-> FALSE, preLen |-> 0]
           last  == [len |-> 0, inUse |-> TRUE, preLen |-> MEM_HEAP]
<1>2. TheHeap = [a \in Addr |-> IF a = 0 THEN first ELSE IF a = EndHeader THEN last ELSE Blank]
  BY <1>1 DEF Init
<1>3. first \in Header /\ last \in Header /\ Blank \in Header
  BY Constants DEF Header, Blank, HeapFits
<1>4. TheHeap[0] = first /\ TheHeap[EndHeader] = last
  <2> HIDE DEF first, last
  <2> QED BY <1>2, Constants
<1>5. TheHeap \in [Addr -> Header]
  <2> HIDE DEF first, last
  <2> QED BY <1>2, <1>3
<1>6. TypeOK
  BY <1>5, Constants DEF Init, TypeOK, Out
<1>7. Held = {} /\ Blocks = {0, EndHeader} /\ Free = {0}
  BY Constants DEF Init, Held, Blocks, Free, Addr
<1>8. HeapTiled
  BY <1>4, <1>7, Constants DEF HeapTiled
<1>9. EachFollows
  BY <1>4, <1>7, Constants DEF EachFollows
<1>10. OneAtATime /\ \A c \in Caller : CallKnows(c)
  BY DEF Init, OneAtATime, CallKnows, Out
<1>11. FreeHeaderIsLowest
  BY <1>7, Constants DEF Init, FreeHeaderIsLowest
<1> QED BY <1>6, <1>8, <1>9, <1>10, <1>11, Constants DEF IInv, Init

-----------------------------------------------------------------------------
(* The steps that leave the blocks alone. *)

LEMMA BlocksSame ==
  ASSUME held' = held
  PROVE  Held' = Held /\ Blocks' = Blocks /\ Free' = Free
BY DEF Held, Blocks, Free

(* Where a call may be. *)
Calls == [at : {"out", "enter", "search", "update", "return"}, hdr : Addr, size : Nat]

(* A step of the one caller that is in a call, and that changes nothing else. *)
LEMMA CallOnly ==
  ASSUME IInv, NEW c \in Caller, NEW k \in Calls,
         \A d \in Caller \ {c} : call[d].at = "out",
         call' = [call EXCEPT ![c] = k], MemSem' \in Caller \cup {Nobody},
         TheHeap' = TheHeap, FreeHeader' = FreeHeader, held' = held,
         call[c].at # "update", k.at # "update",
         CallKnows(c)'
  PROVE  IInv'
<1>1. Held' = Held /\ Blocks' = Blocks /\ Free' = Free
  BY BlocksSame
<1>2. /\ call' \in [Caller -> Calls]
      /\ call'[c] = k
      /\ \A d \in Caller \ {c} : call'[d] = call[d]
  BY DEF IInv, TypeOK, Calls
<1>3. TypeOK'
  BY <1>2 DEF IInv, TypeOK, Calls
<1>4. (held[EndHeader] = 0)' /\ HeapTiled' /\ EachFollows'
  BY <1>1 DEF IInv, HeapTiled, EachFollows, EndHeader
<1>5. OneAtATime'
  BY <1>2 DEF OneAtATime
<1>6. ASSUME NEW d \in Caller PROVE CallKnows(d)'
  BY <1>2 DEF CallKnows
<1>7. FreeHeaderIsLowest'
  BY <1>1, <1>2 DEF IInv, FreeHeaderIsLowest
<1> QED BY <1>3, <1>4, <1>5, <1>6, <1>7 DEF IInv

(* The others are out while one is in a call. *)
LEMMA OthersOut ==
  ASSUME IInv, NEW c \in Caller, call[c].at # "out"
  PROVE  \A d \in Caller \ {c} : call[d].at = "out"
BY DEF IInv, OneAtATime

LEMMA EnterStep ==
  ASSUME IInv, ~ Preemptive, NEW c \in Caller, NEW size \in Size, Enter(c, size)
  PROVE  IInv'
<1> DEFINE k == [at |-> "enter", hdr |-> FreeHeader, size |-> size]
<1>1. k \in Calls
  BY Constants DEF Calls, IInv, TypeOK
<1>2. call' = [call EXCEPT ![c] = k] /\ call'[c] = k
  BY DEF Enter, IInv, TypeOK
<1>3. CallKnows(c)'
  BY <1>2 DEF CallKnows, Enter
<1> QED BY <1>1, <1>2, <1>3, CallOnly DEF Enter, MayRun, IInv, TypeOK

LEMMA LockStep ==
  ASSUME IInv, NEW c \in Caller, Lock(c)
  PROVE  IInv'
<1> DEFINE k == [call[c] EXCEPT !.at = "search"]
<1>1. call[c] \in Calls /\ k \in Calls
  BY DEF Calls, IInv, TypeOK
<1>2. call' = [call EXCEPT ![c] = k] /\ call'[c] = k
  BY DEF Lock, IInv, TypeOK
<1>3. k.hdr = FreeHeader /\ k.size \in Size /\ k.at = "search"
  BY <1>1 DEF IInv, CallKnows, Lock, Calls
<1>4. FreeHeader \in Blocks /\ \A b \in Free : ~ b < FreeHeader
  <2>1. FreeHeader \in Free \cup {EndHeader} /\ \A b \in Free : FreeHeader <= b
    BY OthersOut DEF IInv, FreeHeaderIsLowest, Lock
  <2>2. Free \subseteq Nat /\ FreeHeader \in Nat
    BY <2>1, FreeFacts, BlockFacts, Constants DEF IInv, Tiled
  <2>3. Free \cup {EndHeader} \subseteq Blocks
    BY DEF Free, Blocks
  <2> QED BY <2>1, <2>2, <2>3
<1>5. CallKnows(c)'
  BY <1>2, <1>3, <1>4, BlocksSame DEF CallKnows, Lock
<1> QED BY <1>1, <1>2, <1>3, <1>5, OthersOut, CallOnly DEF Lock

LEMMA SearchStep ==
  ASSUME IInv, HeapFits, NEW c \in Caller, Search(c)
  PROVE  IInv'
<1> DEFINE h == call[c].hdr
           k == [call[c] EXCEPT !.hdr = h + TheHeap[h].len]
<1>1. call[c] \in Calls /\ call[c].at = "search" /\ h # EndHeader
  BY DEF Calls, IInv, TypeOK, Search, Searching
<1>2. /\ h \in Blocks /\ call[c].size \in Size
      /\ \A b \in Free : b < h => TheHeap[b].len < BlockSize(call[c].size)
  BY <1>1 DEF IInv, CallKnows
<1>3. /\ h \in Nat /\ h + TheHeap[h].len \in Blocks /\ h + TheHeap[h].len \in Addr
      /\ \A b \in Blocks : b <= h \/ b >= h + TheHeap[h].len
      /\ TheHeap[h].len \in Nat
  BY <1>1, <1>2, BlockFacts DEF IInv, Tiled
<1>4. k \in Calls /\ k.hdr = h + TheHeap[h].len /\ k.at = "search" /\ k.size = call[c].size
  BY <1>1, <1>3 DEF Calls
<1>5. call' = [call EXCEPT ![c] = k] /\ call'[c] = k
  BY DEF Search, IInv, TypeOK
<1>6. ASSUME NEW b \in Free, b < h + TheHeap[h].len
      PROVE  TheHeap[b].len < BlockSize(call[c].size)
  <2>1. b \in Blocks /\ b \in Nat /\ ~ TheHeap[b].inUse /\ TheHeap[b].len \in Nat
    BY FreeFacts, BlockFacts DEF IInv, Tiled
  <2>2. b < h \/ b = h
    BY <1>3, <1>6, <2>1
  <2>3. BlockSize(call[c].size) \in Nat
    BY <1>2, BlockSizeFacts
  <2>4. ~ (~ TheHeap[h].inUse /\ TheHeap[h].len >= BlockSize(call[c].size))
    BY DEF Search, Fits
  <2> QED BY <1>2, <2>1, <2>2, <2>3, <2>4
<1>7. CallKnows(c)'
  BY <1>2, <1>3, <1>4, <1>5, <1>6, BlocksSame DEF CallKnows, Search
<1> QED BY <1>1, <1>4, <1>5, <1>7, OthersOut, CallOnly DEF Search, IInv, TypeOK

LEMMA NotFoundStep ==
  ASSUME IInv, NEW c \in Caller, NotFound(c)
  PROVE  IInv'
<1>1. Out \in Calls /\ call' = [call EXCEPT ![c] = Out] /\ call'[c] = Out
  BY Constants DEF Out, Calls, NotFound, IInv, TypeOK
<1>2. CallKnows(c)'
  BY <1>1 DEF CallKnows, Out
<1> QED BY <1>1, <1>2, OthersOut, CallOnly DEF NotFound, Out

-----------------------------------------------------------------------------
(* FreeHeader moves up, and the call returns. *)

LEMMA UpdateStep ==
  ASSUME IInv, NEW c \in Caller, UpdateFreeHeader(c)
  PROVE  IInv'
<1>1. /\ TheHeap' = TheHeap /\ MemSem' = MemSem /\ call' = call /\ held' = held
      /\ FreeHeader' = FreeHeader + TheHeap[FreeHeader].len
      /\ TheHeap[FreeHeader].inUse /\ FreeHeader # EndHeader /\ call[c].at = "update"
  BY DEF UpdateFreeHeader, Passed
<1>2. Held' = Held /\ Blocks' = Blocks /\ Free' = Free
  BY <1>1, BlocksSame
<1>3. FreeHeader \in Blocks /\ \A b \in Free : FreeHeader <= b
  BY <1>1 DEF IInv, CallKnows, NoneFreeBelow
<1>4. /\ FreeHeader \in Nat /\ FreeHeader' \in Blocks /\ FreeHeader' \in Addr
      /\ \A b \in Blocks : b <= FreeHeader \/ b >= FreeHeader'
  BY <1>1, <1>3, BlockFacts DEF IInv, Tiled
<1>5. ASSUME NEW b \in Free PROVE FreeHeader' <= b
  <2>1. b \in Blocks /\ b \in Nat /\ ~ TheHeap[b].inUse
    BY FreeFacts, BlockFacts DEF IInv, Tiled
  <2>2. FreeHeader <= b /\ b # FreeHeader
    BY <1>1, <1>3, <2>1
  <2>3. FreeHeader' \in Nat
    BY <1>4, Constants DEF Addr
  <2> QED BY <1>4, <2>1, <2>2, <2>3
<1>6. NoneFreeBelow'
  BY <1>2, <1>4, <1>5 DEF NoneFreeBelow
<1>7. TypeOK'
  BY <1>1, <1>4 DEF IInv, TypeOK
<1>8. (held[EndHeader] = 0)' /\ HeapTiled' /\ EachFollows' /\ OneAtATime'
  BY <1>1, <1>2 DEF IInv, HeapTiled, EachFollows, EndHeader, OneAtATime
<1>9. ASSUME NEW d \in Caller PROVE CallKnows(d)'
  <2>1. d # c => call[d].at = "out"
    BY <1>1, OthersOut
  <2>2. call[c].hdr \in Held
    BY <1>1 DEF IInv, CallKnows
  <2> QED BY <1>1, <1>2, <1>6, <2>1, <2>2 DEF CallKnows
<1>10. FreeHeaderIsLowest'
  BY <1>1 DEF FreeHeaderIsLowest
<1> QED BY <1>7, <1>8, <1>9, <1>10 DEF IInv

LEMMA ReturnStep ==
  ASSUME IInv, NEW c \in Caller, Return(c)
  PROVE  IInv'
<1> DEFINE h == call[c].hdr
<1>1. /\ (call[c].at = "update" /\ ~ Passed) \/ call[c].at = "return"
      /\ TheHeap' = Cleared(TheHeap, h) /\ MemSem' = Nobody
      /\ call' = [call EXCEPT ![c] = Out] /\ FreeHeader' = FreeHeader /\ held' = held
  BY DEF Return
<1>2. Held' = Held /\ Blocks' = Blocks /\ Free' = Free
  BY <1>1, BlocksSame
<1>3. h \in Held /\ h \in Blocks /\ h # EndHeader /\ Blocks \subseteq Addr
  BY <1>1, BlocksInHeap DEF IInv, Tiled, CallKnows, Blocks
<1>4. \A b \in Blocks : TheHeap'[b] = TheHeap[b]
  <2>1. \A b \in Blocks : b <= h \/ b >= h + TheHeap[h].len
    BY <1>3, BlockFacts DEF IInv, Tiled
  <2>2. h \in Nat /\ TheHeap[h].len \in Nat /\ Blocks \subseteq Nat
    BY <1>3, BlockFacts, Constants DEF IInv, Tiled, Addr
  <2>3. \A b \in Blocks : ~ (h < b /\ b < h + TheHeap[h].len)
    BY <2>1, <2>2
  <2> QED BY <1>1, <1>3, <2>3 DEF Cleared
<1>5. TheHeap' \in [Addr -> Header]
  BY <1>1, Constants DEF Cleared, IInv, TypeOK, Header, Blank
<1>6. /\ Out \in Calls /\ call' \in [Caller -> Calls] /\ call'[c] = Out
      /\ \A d \in Caller \ {c} : call'[d] = call[d] /\ call[d].at = "out"
  BY <1>1, OthersOut, Constants DEF Out, Calls, IInv, TypeOK
<1>7. TypeOK'
  BY <1>1, <1>5, <1>6 DEF IInv, TypeOK, Calls
<1>8. (held[EndHeader] = 0)' /\ EachFollows'
  BY <1>1, <1>2, <1>4 DEF IInv, EachFollows, EndHeader
<1>9. HeapTiled'
  <2>1. 0 \in Blocks /\ EndHeader \in Blocks /\ EndHeader' = EndHeader
    BY DEF Blocks, EndHeader
  <2>2. \A b \in Blocks \ {EndHeader} : b + TheHeap[b].len \in Blocks
    BY BlockFacts DEF IInv, Tiled
  <2> QED BY <1>1, <1>2, <1>4, <2>1, <2>2 DEF IInv, HeapTiled
<1>10. OneAtATime' /\ \A d \in Caller : CallKnows(d)'
  BY <1>6 DEF OneAtATime, CallKnows, Out
<1>11. FreeHeaderIsLowest'
  <2>1. CASE call[c].at = "return"
    BY <1>1, <1>2, <1>6, <2>1 DEF IInv, FreeHeaderIsLowest
  <2>2. CASE call[c].at = "update" /\ ~ Passed
    <3>1. FreeHeader \in Blocks /\ \A b \in Free : FreeHeader <= b
      BY <2>2 DEF IInv, CallKnows, NoneFreeBelow
    <3>2. FreeHeader # EndHeader => FreeHeader \notin Held
      BY <2>2, <3>1, BlockFacts DEF Passed, IInv, Tiled
    <3>3. FreeHeader \in Free \cup {EndHeader}
      BY <3>1, <3>2, FreeFacts DEF IInv, Tiled
    <3> QED BY <1>1, <1>2, <3>1, <3>3 DEF FreeHeaderIsLowest, EndHeader
  <2> QED BY <1>1, <2>1, <2>2
<1> QED BY <1>7, <1>8, <1>9, <1>10, <1>11 DEF IInv

-----------------------------------------------------------------------------
(* A block is taken. *)

(* Where blocks begin and end when m bytes at h are handed out. *)
LEMMA TakenBlocks ==
  ASSUME TypeOK, NEW h \in Blocks, h \in Addr, held[h] = 0, NEW m \in Nat, m > 0,
         held' = [held EXCEPT ![h] = m]
  PROVE  /\ Held' = Held \cup {h}
         /\ Blocks' = Blocks \cup {h + m}
         /\ \A b \in Held : held'[b] = held[b]
         /\ held'[h] = m /\ held' \in [Addr -> Nat]
<1>1. held \in [Addr -> Nat] /\ held' \in [Addr -> Nat] /\ held'[h] = m
      /\ \A a \in Addr \ {h} : held'[a] = held[a]
  BY DEF TypeOK
<1>2. Held' = Held \cup {h} /\ h \notin Held /\ Held \subseteq Addr
  BY <1>1 DEF Held
<1>3. \A b \in Held : held'[b] = held[b]
  BY <1>1, <1>2
<1>4. {a + held'[a] : a \in Held'} = {a + held[a] : a \in Held} \cup {h + m}
  BY <1>1, <1>2, <1>3
<1> QED BY <1>1, <1>2, <1>3, <1>4 DEF Blocks, EndHeader

(* What DMem_SplitBlock does when the rest is large enough. *)
LEMMA SplitFacts ==
  ASSUME NEW heap \in [Addr -> Header], NEW h \in Addr, NEW blockSize \in Nat, blockSize > 0,
         h + heap[h].len \in Addr, blockSize <= heap[h].len,
         heap[h].len - blockSize >= MEM_MIN_BLOCK_SIZE
  PROVE  LET g == DMem_SplitBlock(heap, h, blockSize)
             mid == h + blockSize
             next == h + heap[h].len
         IN /\ g \in [Addr -> Header]
            /\ h < mid /\ mid < next /\ mid \in Addr
            /\ g[h].len = blockSize /\ g[h].inUse /\ g[h].preLen = heap[h].preLen
            /\ g[mid].len = heap[h].len - blockSize /\ ~ g[mid].inUse /\ g[mid].preLen = blockSize
            /\ g[next].len = heap[next].len /\ g[next].inUse = heap[next].inUse
            /\ g[next].preLen = heap[h].len - blockSize
            /\ \A a \in Addr \ {h, mid, next} : g[a] = heap[a]
<1> DEFINE rest == heap[h].len - blockSize
           mid  == h + blockSize
           next == h + heap[h].len
           left == [len |-> rest, inUse |-> FALSE, preLen |-> blockSize]
<1>1. heap[h] \in Header /\ h \in Nat /\ heap[h].len \in Nat /\ heap[h].len < LenRange
  BY Constants DEF Addr, Header
<1>2. rest \in Nat /\ rest > 0 /\ rest < LenRange /\ blockSize < LenRange
  BY <1>1, Constants
<1>3. h < mid /\ mid < next /\ mid \in Addr /\ next \in Addr /\ h # mid
  BY <1>1, <1>2, Constants DEF Addr
<1>4. left \in Header /\ left.len = rest /\ ~ left.inUse /\ left.preLen = blockSize
  BY <1>2, Constants DEF Header
<1> DEFINE g1 == [heap EXCEPT ![h].len = blockSize]
           g2 == [g1 EXCEPT ![h].inUse = TRUE]
           g3 == [g2 EXCEPT ![mid] = left]
           g4 == [g3 EXCEPT ![next].preLen = rest]
<1>5. DMem_SplitBlock(heap, h, blockSize) = g4
  BY DEF DMem_SplitBlock
<1>6. /\ g1 \in [Addr -> Header]
      /\ g1[h].len = blockSize /\ g1[h].preLen = heap[h].preLen
      /\ \A a \in Addr \ {h} : g1[a] = heap[a]
  BY <1>1, <1>2, Constants DEF Header
<1> HIDE DEF g1
<1>7. /\ g2 \in [Addr -> Header]
      /\ g2[h].len = blockSize /\ g2[h].inUse /\ g2[h].preLen = heap[h].preLen
      /\ \A a \in Addr \ {h} : g2[a] = heap[a]
  BY <1>6 DEF Header
<1> HIDE DEF g2, left
<1>8. /\ g3 \in [Addr -> Header]
      /\ g3[h] = g2[h] /\ g3[mid] = left
      /\ \A a \in Addr \ {h, mid} : g3[a] = heap[a]
  <2> HIDE DEF mid
  <2> QED BY <1>3, <1>4, <1>7
<1> HIDE DEF g3
<1>9. /\ g4 \in [Addr -> Header]
      /\ g4[h] = g3[h] /\ g4[mid] = g3[mid]
      /\ g4[next].len = heap[next].len /\ g4[next].inUse = heap[next].inUse
      /\ g4[next].preLen = rest
      /\ \A a \in Addr \ {h, mid, next} : g4[a] = heap[a]
  BY <1>1, <1>2, <1>3, <1>8 DEF Header
<1> HIDE DEF g4
<1> QED BY <1>3, <1>4, <1>5, <1>7, <1>8, <1>9

(* A free block h is handed out, whole or its first m bytes. *)
Taking(h, m) ==
  /\ Tiled /\ EachFollows
  /\ h \in Free
  /\ m \in Nat /\ m > 0 /\ m <= TheHeap[h].len
  /\ held' = [held EXCEPT ![h] = m]

(* What the taking of a block leaves. *)
Taken(h) ==
  /\ TheHeap' \in [Addr -> Header] /\ held' \in [Addr -> Nat]
  /\ (held[EndHeader] = 0)' /\ HeapTiled' /\ EachFollows'
  /\ Held' = Held \cup {h}
  /\ Blocks \subseteq Blocks' /\ Blocks' \subseteq Addr
  /\ Free \ {h} \subseteq Free'
  /\ \A b \in Free' : b \in Free \ {h} \/ b > h

(* The block h, and what taking does to the set of blocks. *)
LEMMA TakingFacts ==
  ASSUME NEW h, NEW m, Taking(h, m)
  PROVE  /\ h \in Blocks /\ h # EndHeader /\ h \in Addr /\ h \in Nat /\ h \notin Held
         /\ held' \in [Addr -> Nat] /\ held'[h] = m /\ held'[EndHeader] = 0
         /\ \A b \in Held : held'[b] = held[b]
         /\ Held' = Held \cup {h}
         /\ Blocks' = Blocks \cup {h + m}
         /\ Free' = (Blocks' \ {EndHeader}) \ Held'
<1>1. h \in Blocks /\ h # EndHeader /\ h \in Addr /\ h \in Nat /\ h \notin Held /\ held[h] = 0
  BY FreeFacts, BlockFacts DEF Taking, Free
<1>2. /\ Held' = Held \cup {h}
      /\ Blocks' = Blocks \cup {h + m}
      /\ \A b \in Held : held'[b] = held[b]
      /\ held'[h] = m /\ held' \in [Addr -> Nat]
  BY <1>1, TakenBlocks DEF Taking, Tiled
<1>3. held'[EndHeader] = 0
  BY <1>1, Constants DEF Taking, Tiled, TypeOK
<1>4. h + m \in Addr
  <2>1. TheHeap[h].len \in Nat /\ h + TheHeap[h].len \in Addr
    BY <1>1, BlockFacts DEF Taking
  <2> QED BY <1>1, <2>1, Constants DEF Taking, Addr
<1>5. Blocks' \subseteq Addr
  BY <1>2, <1>4, BlocksInHeap DEF Taking
<1>6. \A b \in Blocks' : held'[b] = 0 <=> b \notin Held'
  <2>1. Held' = {a \in Addr : held'[a] > 0}
    BY DEF Held, Addr
  <2> QED BY <1>2, <1>5, <2>1
<1>7. Free' = {b \in Blocks' \ {EndHeader} : held'[b] = 0}
  BY DEF Free, EndHeader
<1>8. Free' = (Blocks' \ {EndHeader}) \ Held'
  BY <1>6, <1>7
<1> QED BY <1>1, <1>2, <1>3, <1>8

LEMMA TakeWhole ==
  ASSUME NEW h, Taking(h, TheHeap[h].len), TheHeap' = [TheHeap EXCEPT ![h].inUse = TRUE]
  PROVE  Taken(h)
<1> DEFINE n == h + TheHeap[h].len
<1>1. /\ h \in Blocks /\ h # EndHeader /\ h \in Addr /\ h \in Nat /\ h \notin Held
      /\ held' \in [Addr -> Nat] /\ held'[h] = TheHeap[h].len /\ held'[EndHeader] = 0
      /\ \A b \in Held : held'[b] = held[b]
      /\ Held' = Held \cup {h}
      /\ Blocks' = Blocks \cup {n}
      /\ Free' = (Blocks' \ {EndHeader}) \ Held'
  BY TakingFacts
<1>2. Blocks' = Blocks /\ Blocks \subseteq Addr
  BY <1>1, BlockFacts, BlocksInHeap DEF Taking
<1>3. /\ TheHeap' \in [Addr -> Header] /\ TheHeap'[h].inUse
      /\ \A a \in Addr : TheHeap'[a].len = TheHeap[a].len /\ TheHeap'[a].preLen = TheHeap[a].preLen
      /\ \A a \in Addr \ {h} : TheHeap'[a].inUse = TheHeap[a].inUse
  <2>1. TheHeap \in [Addr -> Header] /\ TheHeap' = [TheHeap EXCEPT ![h].inUse = TRUE]
    BY DEF Taking, Tiled, TypeOK
  <2>2. TheHeap[h] \in Header /\ [TheHeap[h] EXCEPT !.inUse = TRUE] \in Header
    BY <1>1, <2>1 DEF Header
  <2>3. /\ TheHeap' \in [Addr -> Header]
        /\ TheHeap'[h] = [TheHeap[h] EXCEPT !.inUse = TRUE]
        /\ \A a \in Addr \ {h} : TheHeap'[a] = TheHeap[a]
    BY <1>1, <2>1, <2>2
  <2>4. TheHeap'[h].inUse /\ TheHeap'[h].len = TheHeap[h].len /\ TheHeap'[h].preLen = TheHeap[h].preLen
    BY <2>2, <2>3 DEF Header
  <2> QED BY <2>3, <2>4
<1>4. 0 \in Blocks /\ EndHeader \in Blocks /\ EndHeader' = EndHeader
  BY DEF Blocks, EndHeader
<1>5. HeapTiled'
  <2>1. TheHeap'[EndHeader].inUse /\ TheHeap'[0].preLen = 0
    BY <1>1, <1>3, Constants DEF Taking, Tiled, HeapTiled
  <2>2. ASSUME NEW b \in Blocks \ {EndHeader}
        PROVE  LET next == b + TheHeap'[b].len IN
               /\ b < next /\ next \in Blocks
               /\ \A a \in Blocks : a <= b \/ a >= next
               /\ TheHeap'[next].preLen = TheHeap'[b].len
               /\ TheHeap'[b].inUse <=> b \in Held'
               /\ b \in Held' => held'[b] = TheHeap'[b].len
    <3>1. /\ b \in Addr /\ b \in Nat
          /\ TheHeap[b].len \in Nat /\ TheHeap[b].len > 0
          /\ b + TheHeap[b].len \in Blocks /\ b + TheHeap[b].len \in Addr
          /\ \A a \in Blocks : a <= b \/ a >= b + TheHeap[b].len
          /\ TheHeap[b + TheHeap[b].len].preLen = TheHeap[b].len
          /\ TheHeap[b].inUse <=> b \in Held
          /\ b \in Held => held[b] = TheHeap[b].len
      BY BlockFacts DEF Taking
    <3>2. TheHeap'[b].len = TheHeap[b].len
      BY <1>3, <3>1
    <3>3. b < b + TheHeap[b].len
      BY <3>1
    <3>4. TheHeap'[b + TheHeap[b].len].preLen = TheHeap[b].len
      BY <1>3, <3>1
    <3>5. TheHeap'[b].inUse <=> b \in Held'
      BY <1>1, <1>3, <3>1
    <3>6. b \in Held' => held'[b] = TheHeap[b].len
      BY <1>1, <3>1
    <3> QED BY <3>1, <3>2, <3>3, <3>4, <3>5, <3>6
  <2> QED BY <1>2, <1>4, <2>1, <2>2 DEF HeapTiled
<1>6. EachFollows'
  <2>1. \A a \in Blocks : TheHeap'[a].len = TheHeap[a].len
    BY <1>2, <1>3
  <2> QED BY <1>2, <1>4, <2>1 DEF EachFollows, Taking
<1>7. Free = (Blocks \ {EndHeader}) \ Held
  BY FreeFacts DEF Taking
<1> QED BY <1>1, <1>2, <1>3, <1>4, <1>5, <1>6, <1>7 DEF Taken

LEMMA TakePart ==
  ASSUME NEW h, NEW m, Taking(h, m), TheHeap[h].len - m >= MEM_MIN_BLOCK_SIZE,
         TheHeap' = DMem_SplitBlock(TheHeap, h, m)
  PROVE  Taken(h)
<1> DEFINE mid == h + m
           n   == h + TheHeap[h].len
<1>1. /\ h \in Blocks /\ h # EndHeader /\ h \in Addr /\ h \in Nat /\ h \notin Held
      /\ held' \in [Addr -> Nat] /\ held'[h] = m /\ held'[EndHeader] = 0
      /\ \A b \in Held : held'[b] = held[b]
      /\ Held' = Held \cup {h}
      /\ Blocks' = Blocks \cup {mid}
      /\ Free' = (Blocks' \ {EndHeader}) \ Held'
  BY TakingFacts
<1>2. /\ n \in Blocks /\ n \in Addr /\ Blocks \subseteq Addr /\ Blocks \subseteq Nat /\ n \in Nat
      /\ \A a \in Blocks : a <= h \/ a >= n
      /\ TheHeap[n].preLen = TheHeap[h].len
      /\ TheHeap[h].len \in Nat
  BY <1>1, BlockFacts, BlocksInHeap, Constants DEF Taking, Addr
<1>3. TheHeap \in [Addr -> Header] /\ m \in Nat /\ m > 0 /\ m <= TheHeap[h].len
  BY DEF Taking, Tiled, TypeOK
<1>4. /\ TheHeap' \in [Addr -> Header]
      /\ h < mid /\ mid < n /\ mid \in Addr
      /\ TheHeap'[h].len = m /\ TheHeap'[h].inUse /\ TheHeap'[h].preLen = TheHeap[h].preLen
      /\ TheHeap'[mid].len = TheHeap[h].len - m /\ ~ TheHeap'[mid].inUse /\ TheHeap'[mid].preLen = m
      /\ TheHeap'[n].len = TheHeap[n].len /\ TheHeap'[n].inUse = TheHeap[n].inUse
      /\ TheHeap'[n].preLen = TheHeap[h].len - m
      /\ \A a \in Addr \ {h, mid, n} : TheHeap'[a] = TheHeap[a]
  BY <1>1, <1>2, <1>3, SplitFacts
<1>5. 0 \in Blocks /\ EndHeader \in Blocks /\ EndHeader' = EndHeader
  BY DEF Blocks, EndHeader
<1>6. mid \notin Blocks /\ mid \notin Held /\ mid \in Nat
  <2>1. mid \in Nat /\ n \in Nat
    BY <1>1, <1>2, <1>3
  <2>2. mid \notin Blocks
    BY <1>1, <1>2, <1>4, <2>1
  <2> QED BY <2>1, <2>2 DEF Blocks
<1>7. mid + TheHeap'[mid].len = n /\ h + TheHeap'[h].len = mid
  BY <1>1, <1>2, <1>3, <1>4
<1>8. ASSUME NEW b \in Blocks \ {EndHeader}, b # h
      PROVE  /\ b \in Nat /\ b \in Addr
             /\ TheHeap'[b].len = TheHeap[b].len /\ TheHeap[b].len \in Nat /\ TheHeap[b].len > 0
             /\ b + TheHeap[b].len \in Blocks
             /\ \A a \in Blocks' : a <= b \/ a >= b + TheHeap[b].len
             /\ TheHeap'[b + TheHeap[b].len].preLen = TheHeap[b].len
             /\ TheHeap'[b].inUse <=> b \in Held
             /\ b \in Held => held[b] = TheHeap[b].len
  <2> DEFINE next == b + TheHeap[b].len
  <2>1. /\ b \in Addr /\ b \in Nat
        /\ TheHeap[b].len \in Nat /\ TheHeap[b].len > 0
        /\ next \in Blocks /\ next \in Addr /\ next \in Nat
        /\ \A a \in Blocks : a <= b \/ a >= next
        /\ TheHeap[next].preLen = TheHeap[b].len
        /\ TheHeap[b].inUse <=> b \in Held
        /\ b \in Held => held[b] = TheHeap[b].len
    BY <1>2, BlockFacts DEF Taking
  <2>2. b # mid /\ next # mid
    BY <1>6, <2>1
  <2>3. next # n
    BY <1>1, <1>8, BlockEndsDiffer DEF Taking
  <2>4. TheHeap'[b].len = TheHeap[b].len /\ TheHeap'[b].inUse = TheHeap[b].inUse
    BY <1>4, <1>8, <2>1, <2>2
  <2>5. TheHeap'[next].preLen = TheHeap[next].preLen
    BY <1>4, <2>1, <2>2, <2>3
  <2>6. mid <= b \/ mid >= next
    <3>1. b <= h \/ b >= n
      BY <1>2
    <3>2. CASE b >= n
      BY <1>2, <1>4, <1>6, <2>1, <3>2
    <3>3. CASE b <= h
      <4>1. h >= next
        BY <1>1, <1>8, <2>1, <3>3
      <4> QED BY <1>1, <1>4, <1>6, <2>1, <4>1
    <3> QED BY <3>1, <3>2, <3>3
  <2> QED BY <1>1, <2>1, <2>4, <2>5, <2>6
<1>9. HeapTiled'
  <2>1. TheHeap'[EndHeader].inUse /\ TheHeap'[0].preLen = 0
    <3>1. TheHeap[EndHeader].inUse /\ TheHeap[0].preLen = 0
      BY DEF Taking, Tiled, HeapTiled
    <3>2. EndHeader # h /\ EndHeader # mid /\ 0 # mid /\ 0 # n
      BY <1>1, <1>2, <1>4, <1>5, <1>6
    <3> QED BY <1>4, <3>1, <3>2, Constants
  <2>2. ASSUME NEW b \in Blocks' \ {EndHeader}
        PROVE  LET next == b + TheHeap'[b].len IN
               /\ b < next /\ next \in Blocks'
               /\ \A a \in Blocks' : a <= b \/ a >= next
               /\ TheHeap'[next].preLen = TheHeap'[b].len
               /\ TheHeap'[b].inUse <=> b \in Held'
               /\ b \in Held' => held'[b] = TheHeap'[b].len
    <3>1. CASE b = h
      <4>1. \A a \in Blocks' : a <= h \/ a >= mid
        <5>1. ASSUME NEW a \in Blocks PROVE a <= h \/ a >= mid
          <6>1. a \in Nat /\ (a <= h \/ a >= n) /\ h \in Nat /\ n \in Nat
            BY <1>1, <1>2
          <6>2. h < mid /\ mid < n /\ mid \in Nat
            BY <1>4, <1>6
          <6> HIDE DEF mid, n
          <6> QED BY <6>1, <6>2
        <5> QED BY <1>1, <1>6, <5>1
      <4> QED BY <1>1, <1>4, <1>7, <3>1, <4>1
    <3>2. CASE b = mid
      <4>1. \A a \in Blocks' : a <= mid \/ a >= n
        <5>1. ASSUME NEW a \in Blocks PROVE a <= mid \/ a >= n
          <6>1. a \in Nat /\ (a <= h \/ a >= n) /\ h \in Nat /\ n \in Nat
            BY <1>1, <1>2
          <6>2. h < mid /\ mid < n /\ mid \in Nat
            BY <1>4, <1>6
          <6> HIDE DEF mid, n
          <6> QED BY <6>1, <6>2
        <5> QED BY <1>1, <1>6, <5>1
      <4>2. mid \notin Held'
        BY <1>1, <1>4, <1>6
      <4> QED BY <1>1, <1>2, <1>4, <1>7, <3>2, <4>1, <4>2
    <3>3. CASE b \in Blocks /\ b # h
      <4>1. b < b + TheHeap[b].len
        BY <1>8, <3>3
      <4>2. (b \in Held <=> b \in Held') /\ (b \in Held => held'[b] = held[b])
        BY <1>1, <3>3
      <4> QED BY <1>1, <1>8, <3>3, <4>1, <4>2
    <3> QED BY <1>1, <3>1, <3>2, <3>3
  <2> QED BY <1>5, <2>1, <2>2 DEF HeapTiled
<1>10. EachFollows'
  <2>1. ASSUME NEW b \in Blocks' \ {0}
        PROVE  \E a \in Blocks' \ {EndHeader} : a + TheHeap'[a].len = b
    <3>1. CASE b = mid
      BY <1>1, <1>7, <3>1
    <3>2. CASE b = n
      <4>1. mid \in Blocks' \ {EndHeader}
        BY <1>1, <1>5, <1>6
      <4> QED BY <1>7, <3>2, <4>1
    <3>3. CASE b \in Blocks /\ b # n
      <4>1. PICK a \in Blocks \ {EndHeader} : a + TheHeap[a].len = b
        BY <3>3 DEF Taking, EachFollows
      <4>2. a # h
        BY <3>3, <4>1
      <4> QED BY <1>1, <1>8, <4>1, <4>2
    <3> QED BY <1>1, <3>1, <3>2, <3>3
  <2> QED BY <1>5, <2>1 DEF EachFollows
<1>11. Free = (Blocks \ {EndHeader}) \ Held
  BY FreeFacts DEF Taking
<1>12. Blocks' \subseteq Addr
  BY <1>1, <1>2, <1>4
<1> QED BY <1>1, <1>4, <1>5, <1>6, <1>9, <1>10, <1>11, <1>12 DEF Taken

(* The block found is free, large enough and taken. *)
LEMMA FoundStep ==
  ASSUME IInv, HeapFits, NEW c \in Caller, Found(c)
  PROVE  IInv'
<1> DEFINE h == call[c].hdr
           size == BlockSize(call[c].size)
           k == [call[c] EXCEPT !.at = IF FreeHeader = h THEN "update" ELSE "return"]
<1>1. /\ call[c].at = "search" /\ h # EndHeader /\ Fits(h, call[c].size)
      /\ TheHeap' = DMem_SplitBlock(TheHeap, h, size)
      /\ held' = [held EXCEPT ![h] = held[h] + TheHeap'[h].len]
      /\ call' = [call EXCEPT ![c].at = IF FreeHeader = h THEN "update" ELSE "return"]
      /\ FreeHeader' = FreeHeader /\ MemSem' = MemSem
  BY DEF Found, Searching
<1>2. Tiled /\ EachFollows /\ h \in Blocks /\ call[c].size \in Size
  BY <1>1 DEF IInv, Tiled, CallKnows
<1>3. /\ h \in Addr /\ h \in Nat /\ TheHeap[h].len \in Nat /\ TheHeap[h].len > 0
      /\ h + TheHeap[h].len \in Addr /\ ~ TheHeap[h].inUse /\ h \notin Held
      /\ size \in Nat /\ size > 0 /\ size <= TheHeap[h].len
  <2>1. size \in Nat /\ size > 0
    BY <1>2, BlockSizeFacts
  <2>2. ~ TheHeap[h].inUse /\ TheHeap[h].len >= size
    BY <1>1 DEF Fits
  <2> QED BY <1>1, <1>2, <2>1, <2>2, BlockFacts
<1>4. h \in Free /\ held[h] = 0
  BY <1>1, <1>2, <1>3, FreeFacts DEF Free
<1>5. TheHeap \in [Addr -> Header]
  BY DEF IInv, TypeOK
<1>6. Taken(h)
  <2>1. CASE TheHeap[h].len - size >= MEM_MIN_BLOCK_SIZE
    <3>1. TheHeap'[h].len = size
      BY <1>1, <1>3, <1>5, <2>1, SplitFacts
    <3>2. held[h] + TheHeap'[h].len = size
      BY <1>3, <1>4, <3>1
    <3>3. held' = [held EXCEPT ![h] = size]
      BY <1>1, <3>2
    <3>4. Taking(h, size)
      BY <1>2, <1>3, <1>4, <3>3 DEF Taking
    <3> QED BY <1>1, <2>1, <3>4, TakePart
  <2>2. CASE ~ (TheHeap[h].len - size >= MEM_MIN_BLOCK_SIZE)
    <3>1. TheHeap' = [TheHeap EXCEPT ![h].inUse = TRUE]
      BY <1>1, <2>2 DEF DMem_SplitBlock
    <3>2. TheHeap[h] \in Header
      BY <1>3, <1>5
    <3>3. TheHeap'[h].len = TheHeap[h].len
      BY <1>3, <1>5, <3>1, <3>2 DEF Header
    <3>4. held[h] + TheHeap'[h].len = TheHeap[h].len
      BY <1>3, <1>4, <3>3
    <3>5. held' = [held EXCEPT ![h] = TheHeap[h].len]
      BY <1>1, <3>4
    <3>6. Taking(h, TheHeap[h].len)
      BY <1>2, <1>3, <1>4, <3>5 DEF Taking
    <3> QED BY <3>1, <3>6, TakeWhole
  <2> QED BY <2>1, <2>2
<1>7. /\ call' \in [Caller -> Calls]
      /\ call'[c].at = (IF FreeHeader = h THEN "update" ELSE "return") /\ call'[c].hdr = h
      /\ \A d \in Caller \ {c} : call'[d] = call[d] /\ call[d].at = "out"
  BY <1>1, OthersOut DEF IInv, TypeOK, Calls
<1>8. TypeOK'
  BY <1>1, <1>6, <1>7 DEF IInv, TypeOK, Calls, Taken
<1>9. OneAtATime'
  BY <1>7 DEF OneAtATime
<1>10. FreeHeader \in Free \cup {EndHeader} /\ \A b \in Free : FreeHeader <= b
  BY <1>1, <1>7 DEF IInv, FreeHeaderIsLowest
<1>11. FreeHeader <= h /\ FreeHeader \in Nat
  BY <1>4, <1>10, Constants DEF IInv, TypeOK, Addr
<1>12. \A b \in Free' : FreeHeader' <= b
  <2> SUFFICES ASSUME NEW b \in Free' PROVE FreeHeader <= b
    BY <1>1
  <2>1. b \in Free \ {h} \/ b > h
    BY <1>6 DEF Taken
  <2>2. b \in Nat
    <3>1. b \in Blocks'
      BY DEF Free
    <3> QED BY <1>6, <3>1, Constants DEF Taken, Addr
  <2> QED BY <1>3, <1>10, <1>11, <2>1, <2>2
<1>13. ASSUME NEW d \in Caller PROVE CallKnows(d)'
  <2>1. h \in Held'
    BY <1>6 DEF Taken
  <2>2. FreeHeader' \in Blocks'
    BY <1>1, <1>6, <1>10 DEF Taken, Free, Blocks
  <2>3. NoneFreeBelow'
    BY <1>12, <2>2 DEF NoneFreeBelow
  <2> QED BY <1>7, <2>1, <2>3 DEF CallKnows
<1>14. FreeHeaderIsLowest'
  <2>1. CASE FreeHeader = h
    BY <1>7, <2>1 DEF FreeHeaderIsLowest
  <2>2. CASE FreeHeader # h
    <3>1. FreeHeader' \in Free' \cup {EndHeader'}
      BY <1>1, <1>6, <1>10, <2>2 DEF Taken, EndHeader
    <3> QED BY <1>12, <3>1 DEF FreeHeaderIsLowest
  <2> QED BY <2>1, <2>2
<1> QED BY <1>6, <1>8, <1>9, <1>13, <1>14 DEF IInv, Taken

-----------------------------------------------------------------------------
(* A block is released. *)

(* The headers of heap make the blocks B, of which those of H are in use: *)
(* Tiled for a heap between two statements of DMem_Free.                  *)
Tiling(heap, B, H) ==
  /\ heap \in [Addr -> Header]
  /\ B \subseteq Addr /\ 0 \in B /\ EndHeader \in B /\ H \subseteq B \ {EndHeader}
  /\ heap[EndHeader].inUse /\ heap[0].preLen = 0
  /\ \A b \in B \ {EndHeader} :
       /\ heap[b].len \in Nat /\ heap[b].len > 0
       /\ b + heap[b].len \in B
       /\ \A a \in B : a <= b \/ a >= b + heap[b].len
       /\ heap[b + heap[b].len].preLen = heap[b].len
       /\ heap[b].inUse <=> b \in H
  /\ \A b \in B \ {0} : \E a \in B \ {EndHeader} : a + heap[a].len = b

LEMMA TiledIsTiling ==
  ASSUME Tiled, EachFollows
  PROVE  Tiling(TheHeap, Blocks, Held)
<1>1. /\ TheHeap \in [Addr -> Header] /\ Blocks \subseteq Addr /\ Held \subseteq Addr \ {EndHeader}
      /\ TheHeap[EndHeader].inUse /\ TheHeap[0].preLen = 0
  BY BlocksInHeap DEF Tiled, TypeOK, HeapTiled
<1>2. 0 \in Blocks /\ EndHeader \in Blocks /\ Held \subseteq Blocks
  BY DEF Blocks
<1> QED BY <1>1, <1>2, BlockFacts DEF Tiling, EachFollows

(* The two lengths that a join writes, and nothing else. *)
Joined(heap, a, s) == [heap EXCEPT ![a].len = s, ![a + s].preLen = s]

LEMMA JoinedFacts ==
  ASSUME NEW heap \in [Addr -> Header], NEW a \in Addr, NEW s \in Nat, s > 0, s < LenRange,
         a + s \in Addr
  PROVE  LET g == Joined(heap, a, s) IN
         /\ g \in [Addr -> Header]
         /\ g[a].len = s /\ g[a].preLen = heap[a].preLen /\ g[a].inUse = heap[a].inUse
         /\ g[a + s].preLen = s /\ g[a + s].len = heap[a + s].len
         /\ g[a + s].inUse = heap[a + s].inUse
         /\ \A b \in Addr \ {a, a + s} : g[b] = heap[b]
<1> DEFINE g1 == [heap EXCEPT ![a].len = s]
           g2 == [g1 EXCEPT ![a + s].preLen = s]
<1>1. Joined(heap, a, s) = g2
  BY DEF Joined
<1>2. a # a + s
  BY DEF Addr
<1>3. /\ g1 \in [Addr -> Header]
      /\ g1[a].len = s /\ g1[a].preLen = heap[a].preLen /\ g1[a].inUse = heap[a].inUse
      /\ \A b \in Addr \ {a} : g1[b] = heap[b]
  BY Constants DEF Header
<1> HIDE DEF g1
<1>4. /\ g2 \in [Addr -> Header]
      /\ g2[a] = g1[a]
      /\ g2[a + s].preLen = s /\ g2[a + s].len = heap[a + s].len
      /\ g2[a + s].inUse = heap[a + s].inUse
      /\ \A b \in Addr \ {a, a + s} : g2[b] = heap[b]
  BY <1>2, <1>3 DEF Header
<1> HIDE DEF g2
<1> QED BY <1>1, <1>3, <1>4

(* A block is joined with the free block n after it. *)
LEMMA Join ==
  ASSUME MEM_HEAP < LenRange, NEW heap, NEW B, NEW H, Tiling(heap, B, H),
         NEW a \in B \ {EndHeader}, NEW n, n = a + heap[a].len, n # EndHeader, n \notin H
  PROVE  LET s == heap[a].len + heap[n].len
             g == Joined(heap, a, s)
         IN /\ s \in Nat /\ s < LenRange
            /\ Tiling(g, B \ {n}, H)
            /\ g[a].len = s
            /\ \A b \in B \ {a} : g[b].len = heap[b].len
<1> DEFINE s == heap[a].len + heap[n].len
           g == Joined(heap, a, s)
           C == B \ {n}
<1>1. /\ heap \in [Addr -> Header] /\ B \subseteq Addr /\ B \subseteq Nat /\ 0 \in B /\ EndHeader \in B
      /\ H \subseteq B \ {EndHeader} /\ heap[EndHeader].inUse /\ heap[0].preLen = 0
  BY Constants DEF Tiling, Addr
<1>2. /\ a \in Nat /\ heap[a].len \in Nat /\ heap[a].len > 0 /\ n \in B /\ n \in Nat
      /\ \A c \in B : c <= a \/ c >= n
  BY <1>1 DEF Tiling
<1>3. /\ heap[n].len \in Nat /\ heap[n].len > 0 /\ n + heap[n].len \in B
      /\ \A c \in B : c <= n \/ c >= n + heap[n].len
  BY <1>2 DEF Tiling
<1>4. s \in Nat /\ s > 0 /\ a + s = n + heap[n].len /\ a + s \in Nat /\ n < a + s /\ a < n
  BY <1>2, <1>3
<1>5. a + s \in B /\ a + s \in Addr /\ a \in Addr
  BY <1>1, <1>3, <1>4
<1>6. s < LenRange
  BY <1>2, <1>4, <1>5, Constants DEF Addr
<1> HIDE DEF s
<1>7. /\ g \in [Addr -> Header]
      /\ g[a].len = s /\ g[a].preLen = heap[a].preLen /\ g[a].inUse = heap[a].inUse
      /\ g[a + s].preLen = s /\ g[a + s].len = heap[a + s].len
      /\ g[a + s].inUse = heap[a + s].inUse
      /\ \A b \in Addr \ {a, a + s} : g[b] = heap[b]
  BY <1>1, <1>4, <1>5, <1>6, JoinedFacts
<1> HIDE DEF g
<1>8. \A b \in B \ {a} : g[b].len = heap[b].len /\ g[b].inUse = heap[b].inUse
  BY <1>1, <1>7
<1>9. C \subseteq Addr /\ 0 \in C /\ EndHeader \in C /\ H \subseteq C \ {EndHeader}
  <2>1. n # 0
    BY <1>2, <1>4
  <2> QED BY <1>1, <2>1
<1>10. g[EndHeader].inUse /\ g[0].preLen = 0
  BY <1>1, <1>4, <1>5, <1>7, <1>8, Constants
<1>11. ASSUME NEW b \in C \ {EndHeader}
       PROVE  /\ g[b].len \in Nat /\ g[b].len > 0
              /\ b + g[b].len \in C
              /\ \A c \in C : c <= b \/ c >= b + g[b].len
              /\ g[b + g[b].len].preLen = g[b].len
              /\ g[b].inUse <=> b \in H
  <2>1. CASE b = a
    <3>1. \A c \in C : c <= a \/ c >= a + s
      <4> SUFFICES ASSUME NEW c \in C PROVE c <= a \/ c >= a + s
        OBVIOUS
      <4>1. c \in B /\ c # n /\ c \in Nat
        BY <1>1
      <4> QED BY <1>2, <1>3, <1>4, <4>1
    <3>2. a + s \in C
      BY <1>2, <1>4, <1>5
    <3>3. g[a].inUse <=> a \in H
      BY <1>7 DEF Tiling
    <3> QED BY <1>4, <1>7, <2>1, <3>1, <3>2, <3>3
  <2>2. CASE b # a
    <3> DEFINE next == b + heap[b].len
    <3>1. /\ b \in B /\ b # n /\ b \in Nat /\ heap[b].len \in Nat /\ heap[b].len > 0
          /\ next \in B /\ next \in Nat /\ next \in Addr
          /\ \A c \in B : c <= b \/ c >= next
          /\ heap[next].preLen = heap[b].len
          /\ heap[b].inUse <=> b \in H
      BY <1>1 DEF Tiling
    <3>2. g[b].len = heap[b].len /\ g[b].inUse = heap[b].inUse
      BY <1>8, <2>2, <3>1
    <3>3. (b <= a \/ b >= n) /\ (b <= n \/ b >= a + s) /\ (a <= b \/ a >= next)
          /\ (n <= b \/ n >= next)
      BY <1>2, <1>3, <1>4, <3>1
    <3>4. next # n /\ next # a + s
      BY <1>2, <1>4, <2>2, <3>1, <3>3
    <3>5. g[next].preLen = heap[next].preLen
      BY <1>7, <3>1, <3>4
    <3> QED BY <3>1, <3>2, <3>4, <3>5
  <2> QED BY <2>1, <2>2
<1>12. ASSUME NEW b \in C \ {0}
       PROVE  \E c \in C \ {EndHeader} : c + g[c].len = b
  <2>1. PICK c \in B \ {EndHeader} : c + heap[c].len = b
    BY DEF Tiling
  <2>2. CASE c = n
    <3>1. a + g[a].len = b
      BY <1>4, <1>7, <2>1, <2>2
    <3>2. a \in C \ {EndHeader}
      BY <1>2, <1>4
    <3> QED BY <3>1, <3>2
  <2>3. CASE c # n
    <3>1. c # a
      BY <2>1
    <3> QED BY <1>8, <2>1, <2>3, <3>1
  <2> QED BY <2>2, <2>3
<1>13. Tiling(g, C, H)
  BY <1>7, <1>9, <1>10, <1>11, <1>12 DEF Tiling
<1>14. /\ s \in Nat /\ s < LenRange
       /\ Tiling(g, C, H)
       /\ g[a].len = s
       /\ \A b \in B \ {a} : g[b].len = heap[b].len
  BY <1>4, <1>6, <1>7, <1>8, <1>13
<1> QED BY <1>14 DEF s, g

(* The block h joins the one after it, if that is free. *)
LEMMA JoinNextFacts ==
  ASSUME MEM_HEAP < LenRange, NEW heap, NEW B, NEW H, Tiling(heap, B, H),
         NEW h \in B \ {EndHeader}
  PROVE  LET g == JoinNext(heap, h)
             n == h + heap[h].len
         IN /\ n # EndHeader /\ n \notin H => Tiling(g, B \ {n}, H)
            /\ ~ (n # EndHeader /\ n \notin H) => Tiling(g, B, H)
            /\ h # n
            /\ \A b \in B \ {h} : g[b].len = heap[b].len
<1> DEFINE n == h + heap[h].len
           s == heap[h].len + heap[n].len
<1>1. /\ h \in Nat /\ heap[h].len \in Nat /\ heap[h].len > 0 /\ n \in B /\ n # h
      /\ heap[EndHeader].inUse
      /\ n # EndHeader => (heap[n].inUse <=> n \in H)
  <2>1. B \subseteq Nat /\ heap[h].len \in Nat /\ heap[h].len > 0 /\ n \in B
    BY Constants DEF Tiling, Addr
  <2>2. heap[EndHeader].inUse /\ (n # EndHeader => (heap[n].inUse <=> n \in H))
    BY <2>1 DEF Tiling
  <2> QED BY <2>1, <2>2
<1>2. CASE n # EndHeader /\ n \notin H
  <2>1. /\ s \in Nat /\ s < LenRange
        /\ Tiling(Joined(heap, h, s), B \ {n}, H)
        /\ \A b \in B \ {h} : Joined(heap, h, s)[b].len = heap[b].len
    BY <1>2, Join
  <2>2. s % LenRange = s
    BY <2>1, NoWrap, Constants
  <2>3. JoinNext(heap, h) = Joined(heap, h, s)
    BY <1>1, <1>2, <2>2 DEF JoinNext, Joined
  <2> QED BY <1>1, <1>2, <2>1, <2>3
<1>3. CASE ~ (n # EndHeader /\ n \notin H)
  <2>1. JoinNext(heap, h) = heap
    BY <1>1, <1>3 DEF JoinNext
  <2> QED BY <1>1, <1>3, <2>1
<1> QED BY <1>2, <1>3

(* The block h is joined to the one before it, if that is free. *)
LEMMA JoinPreviousFacts ==
  ASSUME MEM_HEAP < LenRange, NEW heap, NEW B, NEW H, Tiling(heap, B, H),
         NEW h \in B \ {EndHeader}, h \notin H
  PROVE  LET g == JoinPrevious(heap, h) IN
         \/ /\ Tiling(g, B, H)
            /\ \A b \in B : g[b].len = heap[b].len
            /\ h = 0 \/ \E pre \in H : pre + heap[pre].len = h
         \/ \E pre \in B \ {EndHeader} :
               /\ pre < h /\ pre \notin H
               /\ Tiling(g, B \ {h}, H)
               /\ \A b \in B \ {h, pre} : g[b].len = heap[b].len
<1> DEFINE pre == h - heap[h].preLen
           s == heap[pre].len + heap[h].len
           g == JoinPrevious(heap, h)
<1>1. B \subseteq Nat /\ heap[h].len \in Nat /\ heap[h].len > 0 /\ heap[0].preLen = 0
  BY Constants DEF Tiling, Addr
<1>2. CASE h = 0
  <2>1. pre = h
    BY <1>1, <1>2
  <2>2. g = heap
    BY <2>1 DEF JoinPrevious
  <2> QED BY <1>2, <2>2
<1>3. CASE h # 0
  <2>1. PICK p \in B \ {EndHeader} : p + heap[p].len = h
    BY <1>3 DEF Tiling
  <2>2. /\ p \in Nat /\ heap[p].len \in Nat /\ heap[p].len > 0
        /\ heap[p + heap[p].len].preLen = heap[p].len
        /\ heap[p].inUse <=> p \in H
    BY <1>1, <2>1 DEF Tiling
  <2>3. pre = p /\ pre < h /\ pre # h
    BY <2>1, <2>2
  <2>4. CASE p \in H
    <3>1. g = heap
      BY <2>2, <2>3, <2>4 DEF JoinPrevious
    <3> QED BY <2>1, <2>4, <3>1
  <2>5. CASE p \notin H
    <3>1. /\ s \in Nat /\ s < LenRange
          /\ Tiling(Joined(heap, p, s), B \ {h}, H)
          /\ \A b \in B \ {p} : Joined(heap, p, s)[b].len = heap[b].len
      BY <2>1, <2>3, Join
    <3>2. s % LenRange = s
      BY <3>1, NoWrap, Constants
    <3>3. p + s = h + heap[h].len
      BY <1>1, <2>1, <2>2, <2>3
    <3>4. g = Joined(heap, p, s)
      BY <2>2, <2>3, <2>5, <3>2, <3>3 DEF JoinPrevious, Joined
    <3> QED BY <2>3, <2>5, <3>1, <3>4
  <2> QED BY <2>4, <2>5
<1> QED BY <1>2, <1>3

LEMMA FreeStep ==
  ASSUME IInv, HeapFits, ~ Preemptive, NEW h \in Addr, DMem_Free(h)
  PROVE  IInv'
<1> DEFINE heap1 == [TheHeap EXCEPT ![h].inUse = FALSE]
           heap2 == JoinNext(heap1, h)
           n == h + TheHeap[h].len
           H == Held \ {h}
           C == IF n # EndHeader /\ n \notin H THEN Blocks \ {n} ELSE Blocks
<1>1. /\ held[h] > 0 /\ MemSem' = MemSem /\ call' = call
      /\ \A c \in Caller : call[c].at = "out"
      /\ TheHeap' = JoinPrevious(heap2, h)
      /\ FreeHeader' = (IF FreeHeader > h THEN h ELSE FreeHeader)
      /\ held' = [held EXCEPT ![h] = 0]
  BY DEF DMem_Free, DMem_CoalesceBlock, Lowest
<1>2. Tiled /\ EachFollows /\ MEM_HEAP < LenRange
  BY DEF IInv, Tiled, HeapFits
<1>3. h \in Held /\ h \in Blocks \ {EndHeader} /\ h \in Nat
  <2>1. h \in Held
    BY <1>1 DEF Held
  <2>2. h \in Blocks
    BY <2>1 DEF Blocks
  <2> QED BY <1>2, <2>1, <2>2, BlocksInHeap, Constants DEF Addr
<1>4. /\ TheHeap[h].len \in Nat /\ TheHeap[h].len > 0 /\ n \in Blocks /\ n \in Nat
      /\ Blocks \subseteq Addr /\ Blocks \subseteq Nat
  BY <1>2, <1>3, BlockFacts, BlocksInHeap, Constants DEF Addr

(* The headers after the two joins. *)
<1>5. /\ Tiling(heap1, Blocks, H)
      /\ \A b \in Blocks : heap1[b].len = TheHeap[b].len
  <2>1. Tiling(TheHeap, Blocks, Held)
    BY <1>2, TiledIsTiling
  <2>2. /\ heap1 \in [Addr -> Header] /\ ~ heap1[h].inUse
        /\ \A a \in Addr : heap1[a].len = TheHeap[a].len /\ heap1[a].preLen = TheHeap[a].preLen
        /\ \A a \in Addr \ {h} : heap1[a].inUse = TheHeap[a].inUse
    <3>1. TheHeap \in [Addr -> Header] /\ TheHeap[h] \in Header
      BY DEF IInv, TypeOK
    <3>2. [TheHeap[h] EXCEPT !.inUse = FALSE] \in Header
      BY <3>1 DEF Header
    <3>3. /\ heap1 \in [Addr -> Header] /\ heap1[h] = [TheHeap[h] EXCEPT !.inUse = FALSE]
          /\ \A a \in Addr \ {h} : heap1[a] = TheHeap[a]
      BY <3>1, <3>2
    <3>4. /\ ~ heap1[h].inUse /\ heap1[h].len = TheHeap[h].len
          /\ heap1[h].preLen = TheHeap[h].preLen
      BY <3>1, <3>3 DEF Header
    <3> QED BY <3>3, <3>4
  <2> HIDE DEF heap1
  <2>3. /\ 0 \in Blocks /\ EndHeader \in Blocks /\ H \subseteq Blocks \ {EndHeader}
        /\ heap1[EndHeader].inUse /\ heap1[0].preLen = 0
    BY <1>3, <1>4, <2>1, <2>2 DEF Tiling
  <2>4. ASSUME NEW b \in Blocks \ {EndHeader}
        PROVE  /\ heap1[b].len \in Nat /\ heap1[b].len > 0
               /\ b + heap1[b].len \in Blocks
               /\ \A a \in Blocks : a <= b \/ a >= b + heap1[b].len
               /\ heap1[b + heap1[b].len].preLen = heap1[b].len
               /\ heap1[b].inUse <=> b \in H
    <3>1. /\ TheHeap[b].len \in Nat /\ TheHeap[b].len > 0
          /\ b + TheHeap[b].len \in Blocks
          /\ \A a \in Blocks : a <= b \/ a >= b + TheHeap[b].len
          /\ TheHeap[b + TheHeap[b].len].preLen = TheHeap[b].len
          /\ TheHeap[b].inUse <=> b \in Held
      BY <2>1 DEF Tiling
    <3>2. b \in Addr /\ b + TheHeap[b].len \in Addr
      BY <1>4, <3>1
    <3>3. heap1[b].inUse <=> b \in H
      BY <2>2, <3>1, <3>2
    <3> QED BY <2>2, <3>1, <3>2, <3>3
  <2>5. \A b \in Blocks \ {0} : \E a \in Blocks \ {EndHeader} : a + heap1[a].len = b
    <3>1. \A a \in Blocks : heap1[a].len = TheHeap[a].len
      BY <1>4, <2>2
    <3>2. \A b \in Blocks \ {0} : \E a \in Blocks \ {EndHeader} : a + TheHeap[a].len = b
      BY <2>1 DEF Tiling
    <3> QED BY <3>1, <3>2
  <2>6. Tiling(heap1, Blocks, H)
    BY <1>4, <2>2, <2>3, <2>4, <2>5 DEF Tiling
  <2> QED BY <1>4, <2>2, <2>6
<1> HIDE DEF heap1
<1>6. /\ Tiling(heap2, C, H)
      /\ h \in C
      /\ \A b \in C \ {h} : heap2[b].len = TheHeap[b].len
  <2>1. n = h + heap1[h].len
    BY <1>3, <1>5
  <2>2. /\ n # EndHeader /\ n \notin H => Tiling(heap2, Blocks \ {n}, H)
        /\ ~ (n # EndHeader /\ n \notin H) => Tiling(heap2, Blocks, H)
        /\ h # n
        /\ \A b \in Blocks \ {h} : heap2[b].len = heap1[b].len
    <3> HIDE DEF n, H
    <3> QED BY <1>2, <1>3, <1>5, <2>1, JoinNextFacts
  <2>3. C \subseteq Blocks /\ h \in C
    BY <1>3, <2>2
  <2>4. Tiling(heap2, C, H)
    BY <2>2
  <2> HIDE DEF heap2, C
  <2> QED BY <1>5, <2>2, <2>3, <2>4
<1> HIDE DEF heap2
<1>7. \/ /\ Tiling(TheHeap', C, H)
         /\ \A b \in C \ {h} : TheHeap'[b].len = TheHeap[b].len
         /\ h = 0 \/ \E pre \in H : pre + TheHeap[pre].len = h
      \/ \E pre \in C \ {EndHeader} :
            /\ pre < h /\ pre \notin H
            /\ Tiling(TheHeap', C \ {h}, H)
            /\ \A b \in C \ {h, pre} : TheHeap'[b].len = TheHeap[b].len
  <2>1. H \subseteq C /\ h \notin H
    BY <1>6 DEF Tiling
  <2>2. h \in C \ {EndHeader} /\ h \notin H /\ MEM_HEAP < LenRange /\ Tiling(heap2, C, H)
    BY <1>2, <1>3, <1>6
  <2> HIDE DEF C, H
  <2> DEFINE g == JoinPrevious(heap2, h)
  <2>3. \/ /\ Tiling(g, C, H)
           /\ \A b \in C : g[b].len = heap2[b].len
           /\ h = 0 \/ \E pre \in H : pre + heap2[pre].len = h
        \/ \E pre \in C \ {EndHeader} :
              /\ pre < h /\ pre \notin H
              /\ Tiling(g, C \ {h}, H)
              /\ \A b \in C \ {h, pre} : g[b].len = heap2[b].len
    BY <2>2, JoinPreviousFacts, SMTT(30)
  <2>4. TheHeap' = g
    BY <1>1
  <2> HIDE DEF g
  <2>5. \A pre \in H : heap2[pre].len = TheHeap[pre].len
    BY <1>6, <2>1
  <2> QED BY <1>6, <2>3, <2>4, <2>5
<1>8. PICK D \in SUBSET Blocks :
        /\ Tiling(TheHeap', D, H)
        /\ \A b \in H : TheHeap'[b].len = TheHeap[b].len
        /\ \A b \in Blocks \ D : b = h \/ b = n
        /\ n \in D => n = EndHeader \/ n \in H
        /\ h \in D => h = 0 \/ \E pre \in H : pre + TheHeap[pre].len = h
        /\ h \notin D => \E pre \in Free : pre < h
  <2>1. H \subseteq C /\ h \notin H /\ C \subseteq Blocks /\ n # h
    BY <1>3, <1>4, <1>6 DEF Tiling
  <2>2. \A b \in Blocks \ C : b = n
    OBVIOUS
  <2>3. n \in C => n = EndHeader \/ n \in H
    OBVIOUS
  <2>4. CASE /\ Tiling(TheHeap', C, H)
             /\ \A b \in C \ {h} : TheHeap'[b].len = TheHeap[b].len
             /\ h = 0 \/ \E pre \in H : pre + TheHeap[pre].len = h
    <3>1. \A b \in H : TheHeap'[b].len = TheHeap[b].len
      BY <2>1, <2>4
    <3> HIDE DEF C, H
    <3> QED BY <1>6, <2>1, <2>2, <2>3, <2>4, <3>1
  <2>5. CASE \E pre \in C \ {EndHeader} :
               /\ pre < h /\ pre \notin H
               /\ Tiling(TheHeap', C \ {h}, H)
               /\ \A b \in C \ {h, pre} : TheHeap'[b].len = TheHeap[b].len
    <3>1. PICK pre \in C \ {EndHeader} :
               /\ pre < h /\ pre \notin H
               /\ Tiling(TheHeap', C \ {h}, H)
               /\ \A b \in C \ {h, pre} : TheHeap'[b].len = TheHeap[b].len
      BY <2>5
    <3>2. \A b \in H : TheHeap'[b].len = TheHeap[b].len
      BY <2>1, <3>1
    <3>3. pre \in Blocks \ {EndHeader} /\ pre \notin Held
      BY <1>3, <2>1, <3>1
    <3>4. pre \in Free
      BY <1>2, <3>3, FreeFacts
    <3>5. /\ \A b \in Blocks \ (C \ {h}) : b = h \/ b = n
          /\ n \in C \ {h} => n = EndHeader \/ n \in H
          /\ C \ {h} \in SUBSET Blocks
      BY <2>1, <2>2, <2>3
    <3> HIDE DEF C, H
    <3> QED BY <3>1, <3>2, <3>4, <3>5
  <2> QED BY <1>7, <2>4, <2>5
<1> HIDE DEF C

(* The blocks are those that the blocks handed out leave. *)
<1>9. /\ held' \in [Addr -> Nat] /\ held'[EndHeader] = 0 /\ Held' = H
      /\ \A b \in H : held'[b] = TheHeap'[b].len /\ held'[b] = held[b]
  <2>1. held \in [Addr -> Nat] /\ held[EndHeader] = 0
    BY DEF IInv, TypeOK
  <2>2. /\ held' \in [Addr -> Nat] /\ held'[h] = 0
        /\ \A a \in Addr \ {h} : held'[a] = held[a]
    BY <1>1, <2>1
  <2>3. held'[EndHeader] = 0
    BY <1>3, <2>1, <2>2, Constants
  <2>4. Held' = H
    BY <2>1, <2>2 DEF Held, Addr
  <2>5. \A b \in H : b \in Blocks \ {EndHeader} /\ b \in Held /\ b \in Addr \ {h}
    BY <1>2, BlocksInHeap DEF Blocks
  <2> QED BY <1>2, <1>8, <2>2, <2>3, <2>4, <2>5, BlockFacts
<1>10. Blocks' = D
  <2>1. /\ 0 \in D /\ EndHeader \in D /\ H \subseteq D \ {EndHeader}
        /\ \A b \in D \ {EndHeader} : b + TheHeap'[b].len \in D
    BY <1>8 DEF Tiling
  <2>2. Blocks' = Held' \cup {a + held'[a] : a \in Held'} \cup {0, EndHeader}
    BY DEF Blocks, EndHeader
  <2>3. Blocks' \subseteq D
    <3>1. \A a \in Held' : a + held'[a] \in D
      BY <1>9, <2>1
    <3> QED BY <1>9, <2>1, <2>2, <3>1
  <2>4. ASSUME NEW b \in D PROVE b \in Blocks'
    <3>1. CASE b \in Held /\ b # h
      BY <1>9, <2>2, <3>1
    <3>2. CASE b = h
      <4>1. CASE h = 0
        BY <2>2, <3>2, <4>1
      <4>2. CASE \E pre \in H : pre + TheHeap[pre].len = h
        BY <1>8, <1>9, <2>2, <3>2, <4>2
      <4> QED BY <1>8, <3>2, <4>1, <4>2
    <3>3. CASE b = n
      BY <1>8, <1>9, <2>2, <3>3
    <3>4. CASE \E a \in Held : a # h /\ b = a + held[a]
      BY <1>9, <2>2, <3>4
    <3>5. CASE b \in {0, EndHeader}
      BY <2>2, <3>5
    <3>6. held[h] = TheHeap[h].len
      BY <1>2, <1>3, BlockFacts
    <3>7. b \in Held \/ (\E a \in Held : b = a + held[a]) \/ b \in {0, EndHeader}
      BY <1>8 DEF Blocks
    <3> QED BY <3>1, <3>2, <3>3, <3>4, <3>5, <3>6, <3>7
  <2> QED BY <2>3, <2>4
<1>11. HeapTiled'
  <2>1. D \subseteq Nat
    BY <1>4
  <2> QED BY <1>8, <1>9, <1>10, <2>1 DEF HeapTiled, Tiling, EndHeader
<1>12. EachFollows'
  BY <1>8, <1>10 DEF EachFollows, Tiling, EndHeader

(* The rest. *)
<1>13. FreeHeader \in Free \cup {EndHeader} /\ FreeHeader \in Nat /\ \A b \in Free : FreeHeader <= b
  <2>1. FreeHeader \in Nat
    BY Constants DEF IInv, TypeOK, Addr
  <2> QED BY <1>1, <2>1 DEF IInv, FreeHeaderIsLowest
<1>14. Free' = (D \ {EndHeader}) \ H /\ Free = (Blocks \ {EndHeader}) \ Held
  <2>1. Free = (Blocks \ {EndHeader}) \ Held
    BY <1>2, FreeFacts
  <2>2. Free' = {b \in Blocks' \ {EndHeader} : held'[b] = 0} /\ Held' = {b \in Addr : held'[b] > 0}
    BY DEF Free, Held, EndHeader, Addr
  <2>3. \A b \in D : b \in Addr /\ held'[b] \in Nat
    BY <1>4, <1>8, <1>9
  <2>4. \A b \in D : held'[b] = 0 <=> b \notin H
    BY <1>9, <2>2, <2>3
  <2> QED BY <1>10, <2>1, <2>2, <2>4
<1>15. FreeHeaderIsLowest'
  <2>1. ASSUME NEW b \in Free' PROVE FreeHeader' <= b
    <3>1. b \in Nat /\ (b \in Free \/ b = h)
      BY <1>4, <1>8, <1>14
    <3> QED BY <1>1, <1>3, <1>13, <3>1
  <2>2. FreeHeader' \in Free' \cup {EndHeader}
    <3>1. CASE FreeHeader > h
      <4>1. \A pre \in Free : ~ pre < h
        BY <1>3, <1>4, <1>13, <1>14, <3>1
      <4>2. h \in D
        BY <1>8, <4>1
      <4> QED BY <1>1, <1>3, <1>14, <3>1, <4>2
    <3>2. CASE ~ FreeHeader > h
      <4>1. FreeHeader <= h /\ FreeHeader < n
        BY <1>3, <1>4, <1>13, <3>2
      <4>2. FreeHeader # EndHeader => FreeHeader # h /\ FreeHeader # n
        BY <1>3, <1>4, <1>13, <1>14, <4>1
      <4> QED BY <1>1, <1>8, <1>13, <1>14, <3>2, <4>2
    <3> QED BY <3>1, <3>2
  <2> QED BY <2>1, <2>2 DEF FreeHeaderIsLowest, EndHeader
<1>16. TypeOK'
  <2>1. TheHeap' \in [Addr -> Header]
    BY <1>8 DEF Tiling
  <2>2. FreeHeader' \in Addr
    BY <1>1 DEF IInv, TypeOK
  <2> QED BY <1>1, <1>9, <2>1, <2>2 DEF IInv, TypeOK
<1>17. OneAtATime' /\ \A c \in Caller : CallKnows(c)'
  BY <1>1 DEF OneAtATime, CallKnows
<1> QED BY <1>9, <1>11, <1>12, <1>15, <1>16, <1>17 DEF IInv, EndHeader

-----------------------------------------------------------------------------
(* The theorems. *)

LEMMA StutterStep ==
  ASSUME IInv, UNCHANGED vars
  PROVE  IInv'
BY DEF IInv, vars, TypeOK, HeapTiled, EachFollows, OneAtATime, CallKnows, NoneFreeBelow,
       FreeHeaderIsLowest, Blocks, Held, Free, EndHeader

(***************************************************************************)
(* IInv, the tiling of the heap with what the call in progress knows of    *)
(* it, holds in every state of DMem_Malloc and DMem_Free.                  *)
(***************************************************************************)
THEOREM HeapInvariance ==
  ASSUME HeapFits, ~ Preemptive
  PROVE  Spec => []IInv
<1>1. Init => IInv
  BY InitIInv
<1>2. IInv /\ [Next]_vars => IInv'
  <2> SUFFICES ASSUME IInv, [Next]_vars PROVE IInv'
    OBVIOUS
  <2>1. ASSUME NEW c \in Caller, DMem_Malloc(c) PROVE IInv'
    BY <2>1, LockStep, SearchStep, NotFoundStep, FoundStep, UpdateStep, ReturnStep DEF DMem_Malloc
  <2>2. ASSUME NEW c \in Caller, NEW size \in Size, Enter(c, size) PROVE IInv'
    BY <2>2, EnterStep
  <2>3. ASSUME NEW h \in Addr, DMem_Free(h) PROVE IInv'
    BY <2>3, FreeStep
  <2>4. CASE UNCHANGED vars
    BY <2>4, StutterStep
  <2> QED BY <2>1, <2>2, <2>3, <2>4 DEF Next
<1> QED BY <1>1, <1>2, PTL DEF Spec

(* Every variable keeps its type; lengths stay in the bits of a header. *)
THEOREM HeapTypeCorrect ==
  ASSUME HeapFits, ~ Preemptive
  PROVE  Spec => []TypeOK
<1>1. IInv => TypeOK
  BY DEF IInv
<1> QED BY <1>1, HeapInvariance, PTL

(* Split and joined in any order, the headers tile the heap. *)
THEOREM HeapStaysTiled ==
  ASSUME HeapFits, ~ Preemptive
  PROVE  Spec => []HeapTiled
<1>1. IInv => HeapTiled
  BY DEF IInv
<1> QED BY <1>1, HeapInvariance, PTL

(* No byte is handed out twice. *)
THEOREM BlocksDisjoint ==
  ASSUME HeapFits, ~ Preemptive
  PROVE  Spec => []HeldDisjoint
<1>1. IInv => HeldDisjoint
  <2> SUFFICES ASSUME IInv, NEW a \in Held, NEW b \in Held, a < b PROVE a + held[a] <= b
    BY DEF HeldDisjoint
  <2>1. Tiled
    BY DEF IInv, Tiled
  <2>2. a \in Blocks \ {EndHeader} /\ b \in Blocks /\ a \in Nat /\ b \in Nat
    <3>1. a \in Blocks /\ b \in Blocks
      BY DEF Blocks
    <3> QED BY <2>1, <3>1, BlocksInHeap, Constants DEF Addr
  <2>3. held[a] = TheHeap[a].len /\ (b <= a \/ b >= a + TheHeap[a].len) /\ TheHeap[a].len \in Nat
    BY <2>1, <2>2, BlockFacts
  <2> QED BY <2>2, <2>3
<1> QED BY <1>1, HeapInvariance, PTL

(* FreeHeader is the lowest free block, as its comment says. *)
THEOREM LowestFreeKnown ==
  ASSUME HeapFits, ~ Preemptive
  PROVE  Spec => []FreeHeaderIsLowest
<1>1. IInv => FreeHeaderIsLowest
  BY DEF IInv
<1> QED BY <1>1, HeapInvariance, PTL

(* A call gives up only when no gap between blocks handed out is large enough. *)
THEOREM NoFalseFailure ==
  ASSUME HeapFits, ~ Preemptive
  PROVE  Spec => []FailsOnlyIfNoneFits
<1>1. IInv => FailsOnlyIfNoneFits
  <2> SUFFICES ASSUME IInv, NEW c \in Caller, call[c].at = "search", call[c].hdr = EndHeader,
                      NEW b \in Free, NEW n \in Blocks, b < n,
                      \A a \in Blocks : a <= b \/ a >= n
               PROVE  n - b < BlockSize(call[c].size)
    BY DEF FailsOnlyIfNoneFits
  <2>1. Tiled /\ call[c].size \in Size
    BY DEF IInv, Tiled, CallKnows
  <2>2. /\ b \in Nat /\ b < EndHeader /\ TheHeap[b].len \in Nat /\ TheHeap[b].len > 0
        /\ b + TheHeap[b].len \in Blocks
    BY <2>1, FreeFacts, BlockFacts
  <2>3. TheHeap[b].len < BlockSize(call[c].size)
    BY <2>2 DEF IInv, CallKnows
  <2>4. BlockSize(call[c].size) \in Nat
    BY <2>1, BlockSizeFacts
  <2>5. n \in Nat
    BY <2>1, BlocksInHeap, Constants DEF Addr
  <2>6. n <= b + TheHeap[b].len
    BY <2>2, <2>5
  <2> QED BY <2>2, <2>3, <2>4, <2>5, <2>6
<1> QED BY <1>1, HeapInvariance, PTL
=============================================================================
