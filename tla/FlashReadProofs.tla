-------------------------- MODULE FlashReadProofs --------------------------
(***************************************************************************)
(* Proofs about FlashRead, for every address, length and alignment, every  *)
(* size of page and bounce buffer, and every error of the driver.          *)
(***************************************************************************)
EXTENDS FlashRead, TLAPS

-----------------------------------------------------------------------------
(* Arithmetic of words and pages                                           *)

LEMMA FourTimes == ASSUME NEW k \in Nat PROVE (4 * k) % 4 = 0
  OBVIOUS

LEMMA Exchange ==
    ASSUME NEW a \in Nat, NEW b \in Nat, NEW c \in Nat
    PROVE  a * (b * c) = b * (a * c) /\ a * b \in Nat
  OBVIOUS

LEMMA OneMore ==
    ASSUME NEW n \in Nat, NEW t \in Nat
    PROVE  (1 + n) * t = t + (n * t) /\ (n + 1) * t = t + (n * t) /\ n * t \in Nat
  OBVIOUS

(* A multiple of something made of words is made of words.                 *)
LEMMA WordsTimes ==
    ASSUME NEW t \in Nat, t % 4 = 0, NEW n \in Nat
    PROVE  (n * t) % 4 = 0
<1>1. t = 4 * (t \div 4) /\ t \div 4 \in Nat
  OBVIOUS
<1>2. n * t = 4 * (n * (t \div 4)) /\ n * (t \div 4) \in Nat
  BY <1>1, Exchange
<1> QED
  BY <1>2, FourTimes

LEMMA Difference ==
    ASSUME NEW a \in Nat, NEW b \in Nat, a % 4 = 0, (a + b) % 4 = 0
    PROVE  b % 4 = 0
  OBVIOUS

LEMMA Divided ==
    ASSUME NEW a \in Nat, NEW p \in Nat \ {0}
    PROVE  /\ a % p \in 0..(p - 1) /\ a \div p \in Nat
           /\ a = (p * (a \div p)) + (a % p)
  OBVIOUS

LEMMA Remainder ==
    ASSUME NEW p \in Nat \ {0}, NEW q \in Nat, NEW r \in 0..(p - 1)
    PROVE  ((p * q) + r) % p = r
  OBVIOUS

USE TmpAssumption, PageAssumption, BoundAssumption DEF Word

LEMMA Quotient ==
    ASSUME NEW a \in Nat
    PROVE  /\ a % PageSize \in 0..(PageSize - 1) /\ a \div PageSize \in Nat
           /\ a = (PageSize * (a \div PageSize)) + (a % PageSize)
           /\ a = ((a \div PageSize) * PageSize) + (a % PageSize)
<1>1. PageSize \in Nat \ {0}
  OBVIOUS
<1>2. /\ a % PageSize \in 0..(PageSize - 1) /\ a \div PageSize \in Nat
      /\ a = (PageSize * (a \div PageSize)) + (a % PageSize)
  BY <1>1, Divided
<1> QED
  BY <1>2

(* As long as it stays in the page, an address moves with its place in it. *)
LEMMA InPage ==
    ASSUME NEW a \in Nat, NEW d \in Nat, (a % PageSize) + d < PageSize
    PROVE  (a + d) % PageSize = (a % PageSize) + d
<1> DEFINE q == a \div PageSize
           r == a % PageSize
           b == PageSize * q
<1>1. a = b + r /\ q \in Nat /\ r \in 0..(PageSize - 1)
  BY Quotient
<1>2. b \in Nat
  BY <1>1, Exchange
<1> HIDE DEF b, q, r
<1>3. a + d = b + (r + d) /\ r + d \in 0..(PageSize - 1)
  BY <1>1, <1>2 DEF r
<1>4. (b + (r + d)) % PageSize = r + d
  BY <1>1, <1>3, Remainder, PageSize \in Nat \ {0} DEF b
<1> QED
  BY <1>3, <1>4 DEF r

(* A word's place in its page leaves room for the word.                    *)
LEMMA WordInPage ==
    ASSUME NEW a \in Nat, a % 4 = 0
    PROVE  (a % PageSize) + 4 <= PageSize
<1> DEFINE q == a \div PageSize
           r == a % PageSize
           b == q * PageSize
<1>1. a = b + r /\ q \in Nat /\ r \in 0..(PageSize - 1)
  BY Quotient
<1>2. b \in Nat /\ b % 4 = 0
  BY <1>1, OneMore, WordsTimes
<1> HIDE DEF b, q, r
<1>3. r % 4 = 0
  BY <1>1, <1>2
<1>4. r + 4 <= PageSize
  BY <1>1, <1>3
<1> QED
  BY <1>4 DEF r

(* A page ends with a whole word.                                          *)
LEMMA PageEnd ==
    ASSUME NEW a \in Nat
    PROVE  /\ PageLeft(a) \in 1..PageSize /\ (a % PageSize) + PageLeft(a) = PageSize
           /\ (a + PageLeft(a)) % 4 = 0
<1> DEFINE q == a \div PageSize
           r == a % PageSize
<1>1. a = (q * PageSize) + r /\ q \in Nat /\ r \in 0..(PageSize - 1)
  BY Quotient
<1>2. (1 + q) * PageSize = PageSize + (q * PageSize) /\ q * PageSize \in Nat
  BY <1>1, OneMore
<1>3. 1 + q \in Nat
  BY <1>1
<1>4. ((1 + q) * PageSize) % 4 = 0
  BY <1>3, WordsTimes
<1> HIDE DEF q, r
<1>5. a + (PageSize - r) = (1 + q) * PageSize
  BY <1>1, <1>2
<1>6. PageSize - r \in 1..PageSize /\ r + (PageSize - r) = PageSize
  BY <1>1
<1> QED
  BY <1>4, <1>5, <1>6 DEF r, PageLeft

-----------------------------------------------------------------------------
(* The invariant                                                           *)

Offset == OffsetOf(args.from)
Bytes == 0..(MaxAddr + MaxLen + TmpSize)
Buffer == args.to .. (args.to + args.size - 1)

(* Up to place b, the buffer holds what was asked for.                     *)
Right(b) == \A a \in args.to .. (b - 1) : mem[a] = Offset + (a - args.to)

AllRight == \A a \in Buffer : mem[a] = Offset + (a - args.to)

(* How much of the page that addr is in the wrapper reads.                 *)
Segment == Least(len, PageLeft(addr))

(* The pages read so far and those to come make up the read.               *)
Placed ==
    /\ args.from = Offset
    /\ buffer >= args.to /\ buffer + len = args.to + args.size
    /\ addr + len = Offset + args.size

AtHead ==
    /\ len > 0 /\ Right(buffer)
    /\ rest = Segment /\ offset = addr /\ dst_ptr = buffer /\ chunkAlign_cnt = 0

(* Once the head was corrected, what is left is read from a word's address.*)
AtChunk ==
    /\ len > 0 /\ rest <= Segment
    /\ Right(buffer + (Segment - rest))
    /\ rest > 0 =>
        /\ offset = addr + (Segment - rest)
        /\ dst_ptr + (chunkAlign_cnt * TmpSize) = buffer + (Segment - rest)
        /\ offset % Word = 0

FlashInv ==
    /\ TypeOK
    /\ NothingOutside
    /\ DriverLimits
    /\ Offset \in 0..MaxAddr
    /\ pc \in {"page", "head", "chunk"} => Placed
    /\ pc = "page" => Right(buffer)
    /\ pc = "head" => AtHead
    /\ pc = "chunk" => AtChunk
    /\ pc \in {"flexspi_nor_wait_bus_busy", "done"} => AllRight

(* The numbers that a call was given.                                      *)
LEMMA Sizes ==
    ASSUME FlashInv
    PROVE  /\ args.to \in Nat /\ args.size \in Nat /\ Offset \in Nat
           /\ args.to >= 4 /\ args.to + args.size <= MaxLen + 7
           /\ Offset <= MaxAddr /\ args.size <= MaxLen
<1>1. TypeOK /\ Offset \in 0..MaxAddr
  BY DEF FlashInv
<1>2. args.to \in 4..7 /\ args.size \in 0..MaxLen
  BY <1>1 DEF TypeOK
<1> QED
  BY <1>1, <1>2

(* What a step of one of the calls knows at its start.                     *)
LEMMA Known ==
    ASSUME FlashInv
    PROVE  /\ args.to \in Nat /\ args.size \in Nat /\ Offset \in Nat
           /\ args.to >= 4 /\ args.to + args.size <= MaxLen + 7
           /\ Offset <= MaxAddr /\ args.size <= MaxLen
           /\ mem \in [Memory -> {Stale} \cup Bytes]
           /\ tmp_buf \in [0..(TmpSize - 1) -> {Stale} \cup Bytes]
           /\ Buffer \subseteq Memory
<1>1. TypeOK
  BY DEF FlashInv
<1>3. /\ mem \in [Memory -> {Stale} \cup Bytes]
      /\ tmp_buf \in [0..(TmpSize - 1) -> {Stale} \cup Bytes]
  BY <1>1 DEF TypeOK, Bytes
<1>4. Buffer \subseteq Memory
  BY Sizes DEF Buffer, Memory
<1> QED
  BY <1>3, <1>4, Sizes

LEMMA SegmentBounds ==
    ASSUME addr \in Nat, len \in Nat, len > 0
    PROVE  /\ Segment \in 1..len /\ Segment <= PageLeft(addr)
           /\ PageLeft(addr) \in 1..PageSize /\ (addr % PageSize) + PageLeft(addr) = PageSize
           /\ (addr + PageLeft(addr)) % 4 = 0
<1>1. /\ PageLeft(addr) \in 1..PageSize /\ (addr % PageSize) + PageLeft(addr) = PageSize
      /\ (addr + PageLeft(addr)) % 4 = 0
  BY PageEnd
<1>2. Segment = IF len < PageLeft(addr) THEN len ELSE PageLeft(addr)
  BY DEF Segment, Least
<1>3. Segment \in 1..len /\ Segment <= PageLeft(addr)
  <2>1. \A l \in 1..PageSize : (IF len < l THEN len ELSE l) \in 1..len /\ (IF len < l THEN len ELSE l) <= l
    OBVIOUS
  <2> QED
    BY <1>1, <1>2, <2>1
<1> QED
  BY <1>1, <1>3

(* Bytes stored inside the caller's buffer stay inside it.                 *)
LEMMA StoredInside ==
    ASSUME FlashInv, NEW d \in Nat, NEW n \in Nat, NEW src,
           \A i \in 0..(n - 1) : src[i] \in {Stale} \cup Bytes,
           d >= args.to, d + n <= args.to + args.size,
           args' = args, mem' = Stored(mem, d, n, src)
    PROVE  /\ mem' \in [Memory -> {Stale} \cup Bytes]
           /\ NothingOutside'
           /\ \A a \in Buffer : mem'[a] = IF a \in d..(d + n - 1) THEN src[a - d] ELSE mem[a]
<1>1. /\ mem' \in [Memory -> {Stale} \cup Bytes]
      /\ \A a \in Memory : a \in d..(d + n - 1) => mem'[a] = src[a - d]
      /\ \A a \in Memory : a \notin d..(d + n - 1) => mem'[a] = mem[a]
  <2>1. mem \in [Memory -> {Stale} \cup Bytes] /\ Memory \subseteq Nat
    BY Known DEF Memory
  <2>2. \A a \in d..(d + n - 1) : a - d \in 0..(n - 1)
    OBVIOUS
  <2>3. mem' = [a \in Memory |-> IF a \in d..(d + n - 1) THEN src[a - d] ELSE mem[a]]
    BY <2>1 DEF Stored
  <2> QED
    BY <2>1, <2>2, <2>3
<1>2. d..(d + n - 1) \subseteq Buffer
  BY Sizes DEF Buffer
<1>3. NothingOutside'
  <2>1. \A a \in Memory \ Buffer : mem[a] = Stale
    BY DEF FlashInv, NothingOutside, Buffer
  <2>2. \A a \in Memory \ Buffer : mem'[a] = Stale
    BY <1>1, <1>2, <2>1
  <2> QED
    BY <2>2 DEF NothingOutside, Buffer
<1> QED
  BY <1>1, <1>3, Known

-----------------------------------------------------------------------------
(* One lemma per action                                                    *)

LEMMA InitHolds ==
    ASSUME Init PROVE FlashInv
<1>1. PICK f \in 0..MaxAddr, t \in 4..7, n \in 0..MaxLen :
        /\ args.from \in {f, MappedAt(f)} /\ args.to = t /\ args.size = n
        /\ args = [reader |-> args.reader, from |-> args.from, to |-> t, size |-> n]
        /\ args.reader \in {"flash_read", "sfw_flash_read", "sfw_flash_read_ipc"}
        /\ pc \in {"page", "sfw_flash_read", "sfw_flash_read_ipc"}
        /\ pc = "page" => args.from = f
        /\ addr = f /\ buffer = t /\ len = n
  BY DEF Init
<1>2. AMBA_BASE \in Nat /\ AMBA_BASE > f /\ AMBA_BASE + f <= AMBA_BASE + MaxAddr
  BY DEF AMBA_BASE
<1>3. OffsetOf(f) = f /\ MappedAt(f) = AMBA_BASE + f /\ OffsetOf(MappedAt(f)) = f
  BY <1>1, <1>2 DEF OffsetOf, MappedAt
<1>4. Offset = f /\ args.from \in 0..(AMBA_BASE + MaxAddr)
  BY <1>1, <1>2, <1>3 DEF Offset
<1>5. /\ mem = [a \in Memory |-> Stale] /\ tmp_buf = [i \in 0..(TmpSize - 1) |-> Stale]
      /\ busy = 0 /\ offset = 0 /\ dst_ptr = 0 /\ rest = 0 /\ chunkAlign_cnt = 0
      /\ driver = [from |-> 0, to |-> 0, size |-> 0]
  BY DEF Init
<1>6. TypeOK
  BY <1>1, <1>4, <1>5 DEF TypeOK
<1>7. NothingOutside
  BY <1>5 DEF NothingOutside
<1>8. DriverLimits
  <2>1. 0 % PageSize = 0
    BY Quotient
  <2> QED
    BY <1>5, <2>1 DEF DriverLimits
<1>9. pc = "page" => Placed /\ Right(buffer)
  BY <1>1, <1>4 DEF Placed, Right
<1> QED
  BY <1>1, <1>4, <1>6, <1>7, <1>8, <1>9 DEF FlashInv

LEMMA NextPageKeeps ==
    ASSUME FlashInv, NextPage, busy' = busy PROVE FlashInv'
<1>1. addr \in Nat /\ len \in Nat /\ len > 0 /\ buffer \in Nat
  BY DEF FlashInv, TypeOK, NextPage
<1>2. Segment \in Nat /\ Segment' = Segment /\ rest' = Segment
  BY <1>1, SegmentBounds DEF NextPage, page, Segment
<1>3. TypeOK'
  BY <1>1, <1>2 DEF FlashInv, TypeOK, NextPage, page
<1>4. NothingOutside' /\ DriverLimits' /\ (Offset \in 0..MaxAddr)'
  BY DEF FlashInv, NothingOutside, DriverLimits, NextPage, page, Offset
<1>5. Placed' /\ AtHead'
  BY <1>1, <1>2 DEF FlashInv, Placed, AtHead, NextPage, page, Right, Offset
<1> QED
  BY <1>3, <1>4, <1>5 DEF FlashInv, NextPage

LEMMA FinishKeeps ==
    ASSUME FlashInv, Finish, busy' = busy PROVE FlashInv'
<1>1. TypeOK'
  BY DEF FlashInv, TypeOK, Finish, page, wrapper
<1>2. NothingOutside' /\ DriverLimits' /\ (Offset \in 0..MaxAddr)'
  BY DEF FlashInv, NothingOutside, DriverLimits, Finish, page, Offset
<1>3. AllRight'
  <2>1. Right(buffer) /\ buffer = args.to + args.size
    BY Sizes DEF FlashInv, TypeOK, Placed, Finish
  <2>2. Buffer = args.to..(buffer - 1)
    BY <2>1, Sizes DEF Buffer
  <2>3. AllRight
    BY <2>1, <2>2 DEF Right, AllRight
  <2> QED
    BY <2>3 DEF AllRight, Buffer, Offset, Finish, page
<1> QED
  BY <1>1, <1>2, <1>3 DEF FlashInv, Finish

LEMMA HeadSkippedKeeps ==
    ASSUME FlashInv, HeadSkipped, busy' = busy PROVE FlashInv'
<1>1. TypeOK'
  BY DEF FlashInv, TypeOK, HeadSkipped, page, wrapper
<1>2. NothingOutside' /\ DriverLimits' /\ (Offset \in 0..MaxAddr)'
  BY DEF FlashInv, NothingOutside, DriverLimits, HeadSkipped, page, Offset
<1>3. AtHead /\ Placed /\ addr \in Nat /\ len \in Nat /\ buffer \in Nat
  BY DEF FlashInv, TypeOK, HeadSkipped
<1>4. Segment \in Nat /\ Segment - rest = 0
  BY <1>3, SegmentBounds DEF AtHead
<1>5. AtChunk
  <2>1. chunkAlign_cnt * TmpSize = 0
    BY <1>3 DEF AtHead
  <2> QED
    BY <1>3, <1>4, <2>1 DEF AtHead, AtChunk, HeadSkipped
<1>6. Placed' /\ AtChunk'
  BY <1>3, <1>5 DEF Placed, AtChunk, Right, Offset, Segment, HeadSkipped, page, wrapper
<1> QED
  BY <1>1, <1>2, <1>6 DEF FlashInv, HeadSkipped

(* Flash bytes that may be read are ones that memory may hold.             *)
LEMMA ReadBytes ==
    ASSUME NEW f \in Nat, NEW n \in Nat, f + n <= MaxAddr + MaxLen + TmpSize + 1
    PROVE  \A i \in 0..(n - 1) : FlashBytes(f, n)[i] = f + i /\ FlashBytes(f, n)[i] \in {Stale} \cup Bytes
  BY DEF FlashBytes, Bytes

(* What is read to where it belongs extends what is right.                 *)
LEMMA StoredRight ==
    ASSUME FlashInv, NEW d \in Nat, NEW n \in Nat, d >= args.to, d + n <= args.to + args.size,
           Right(d), args' = args,
           mem' = Stored(mem, d, n, FlashBytes(Offset + (d - args.to), n))
    PROVE  /\ mem' \in [Memory -> {Stale} \cup Bytes] /\ NothingOutside'
           /\ \A a \in args.to .. (d + n - 1) : mem'[a] = Offset + (a - args.to)
<1> DEFINE f == Offset + (d - args.to)
<1>1. f \in Nat /\ f + n <= MaxAddr + MaxLen + TmpSize + 1
  BY Sizes
<1>2. \A i \in 0..(n - 1) : FlashBytes(f, n)[i] = f + i /\ FlashBytes(f, n)[i] \in {Stale} \cup Bytes
  BY <1>1, ReadBytes
<1>3. /\ mem' \in [Memory -> {Stale} \cup Bytes] /\ NothingOutside'
      /\ \A a \in Buffer : mem'[a] = IF a \in d..(d + n - 1) THEN FlashBytes(f, n)[a - d] ELSE mem[a]
  BY <1>2, StoredInside
<1>4. ASSUME NEW a \in args.to .. (d + n - 1) PROVE mem'[a] = Offset + (a - args.to)
  <2>1. a \in Buffer
    BY Sizes DEF Buffer
  <2>2. CASE a < d
    BY <1>3, <2>1, <2>2, Known DEF Right
  <2>3. CASE a >= d
    <3>1. a - d \in 0..(n - 1) /\ a \in d..(d + n - 1)
      BY <2>3, Known
    <3>2. mem'[a] = f + (a - d)
      BY <1>2, <1>3, <2>1, <3>1
    <3> QED
      BY <3>2, Known
  <2> QED
    BY <2>2, <2>3, Known
<1> QED
  BY <1>3, <1>4

LEMMA PageDoneKeeps ==
    ASSUME FlashInv, PageDone, busy' = busy PROVE FlashInv'
<1>1. Placed /\ AtChunk /\ rest = 0 /\ addr \in Nat /\ len \in Nat /\ buffer \in Nat
  BY DEF FlashInv, TypeOK, PageDone
<1>2. Segment \in 1..len
  BY <1>1, SegmentBounds DEF AtChunk
<1>3. len' = len - Segment /\ addr' = addr + Segment /\ buffer' = buffer + Segment
  BY DEF PageDone, Segment
<1>4. TypeOK'
  <2>1. addr' \in Nat /\ len' \in Nat /\ buffer' \in Nat
    BY <1>1, <1>2, <1>3
  <2> QED
    BY <2>1 DEF FlashInv, TypeOK, PageDone, wrapper
<1>5. NothingOutside' /\ DriverLimits' /\ (Offset \in 0..MaxAddr)'
  BY DEF FlashInv, NothingOutside, DriverLimits, PageDone, Offset
<1>6. Placed'
  <2>1. args' = args /\ Offset' = Offset
    BY DEF PageDone, Offset
  <2>2. buffer' >= args.to /\ buffer' + len' = args.to + args.size /\ addr' + len' = Offset + args.size
    BY <1>1, <1>2, <1>3, Known DEF Placed
  <2> QED
    BY <1>1, <2>1, <2>2 DEF Placed
<1>7. Right(buffer)'
  <2>1. Right(buffer + Segment)
    BY <1>1, <1>2 DEF AtChunk
  <2> QED
    BY <1>3, <2>1 DEF Right, PageDone, Offset
<1> QED
  BY <1>4, <1>5, <1>6, <1>7 DEF FlashInv, PageDone

LEMMA ReadMappedKeeps ==
    ASSUME FlashInv, ReadMapped PROVE FlashInv'
<1>1. MappedAt(args.from) - AMBA_BASE = Offset
  BY Sizes DEF MappedAt, Offset, AMBA_BASE
<1>2. mem' = Stored(mem, args.to, args.size, FlashBytes(Offset + (args.to - args.to), args.size))
  BY <1>1, Known DEF ReadMapped
<1>3. Right(args.to)
  BY Sizes DEF Right
<1>4. /\ mem' \in [Memory -> {Stale} \cup Bytes] /\ NothingOutside'
      /\ \A a \in args.to .. (args.to + args.size - 1) : mem'[a] = Offset + (a - args.to)
  <2>1. args' = args /\ args.to \in Nat /\ args.size \in Nat /\ args.to >= args.to
        /\ args.to + args.size <= args.to + args.size
    BY Known DEF ReadMapped, page
  <2> QED
    BY <1>2, <1>3, <2>1, StoredRight
<1>5. TypeOK'
  BY <1>4 DEF FlashInv, TypeOK, ReadMapped, page, wrapper, Bytes
<1>6. DriverLimits' /\ (Offset \in 0..MaxAddr)'
  BY DEF FlashInv, DriverLimits, ReadMapped, page, Offset
<1>7. AllRight'
  <2>1. args' = args /\ Offset' = Offset
    BY DEF ReadMapped, page, Offset
  <2> QED
    BY <1>4, <2>1 DEF AllRight, Buffer
<1> QED
  BY <1>4, <1>5, <1>6, <1>7 DEF FlashInv, ReadMapped

LEMMA ReadIpcKeeps ==
    ASSUME FlashInv, ReadIpc PROVE FlashInv'
<1>1. Right(args.to)
  BY Sizes DEF Right
<1>2. PICK n \in 0..args.size :
        /\ mem' = Stored(mem, args.to, n, FlashBytes(Offset, n))
        /\ pc' = "failed" \/ (pc' = "flexspi_nor_wait_bus_busy" /\ n = args.size)
  BY Known DEF ReadIpc, Offset
<1>3. Offset + (args.to - args.to) = Offset /\ n \in Nat /\ args.to + n <= args.to + args.size
  BY Sizes
<1>4. /\ mem' \in [Memory -> {Stale} \cup Bytes] /\ NothingOutside'
      /\ \A a \in args.to .. (args.to + n - 1) : mem'[a] = Offset + (a - args.to)
  <2>1. args.to \in Nat /\ args' = args
    BY Sizes DEF ReadIpc, page
  <2> QED
    BY <1>1, <1>2, <1>3, <2>1, StoredRight
<1>5. TypeOK'
  BY <1>2, <1>4 DEF FlashInv, TypeOK, ReadIpc, page, wrapper, Bytes
<1>6. DriverLimits' /\ (Offset \in 0..MaxAddr)'
  BY DEF FlashInv, DriverLimits, ReadIpc, page, Offset
<1>7. pc' = "flexspi_nor_wait_bus_busy" => AllRight'
  <2>1. args' = args /\ Offset' = Offset
    BY DEF ReadIpc, page, Offset
  <2>2. pc' = "flexspi_nor_wait_bus_busy" => n = args.size
    BY <1>2
  <2> QED
    BY <1>4, <2>1, <2>2 DEF AllRight, Buffer
<1> QED
  BY <1>2, <1>4, <1>5, <1>6, <1>7 DEF FlashInv

LEMMA WaitBusBusyKeeps ==
    ASSUME FlashInv, WaitBusBusy PROVE FlashInv'
<1>1. TypeOK'
  <2>1. busy' \in 0..MaxBusy
    BY DEF FlashInv, TypeOK, WaitBusBusy, FLASH_BUSY_STATUS_POL
  <2> QED
    BY <2>1 DEF FlashInv, TypeOK, WaitBusBusy, page, wrapper
<1>2. NothingOutside' /\ DriverLimits' /\ (Offset \in 0..MaxAddr)'
  BY DEF FlashInv, NothingOutside, DriverLimits, WaitBusBusy, page, Offset
<1>3. AllRight'
  BY DEF FlashInv, WaitBusBusy, page, AllRight, Buffer, Offset
<1> QED
  BY <1>1, <1>2, <1>3 DEF FlashInv, WaitBusBusy
(* The wrapper's first read: one word, copied from where addr is in it.    *)
LEMMA HeadReadKeeps ==
    ASSUME FlashInv, HeadRead, busy' = busy PROVE FlashInv'
<1> DEFINE cor == offset % 4
           restTo4 == 4 - cor
           segment_len == IF rest >= 4 THEN restTo4 ELSE rest
           bounced == Bounced(offset - cor, 4)
           src == [i \in 0..(segment_len - 1) |-> bounced[cor + i]]
           taken == IF restTo4 > rest THEN rest ELSE restTo4
<1>1. /\ Placed /\ AtHead
      /\ addr \in Nat /\ len \in Nat /\ buffer \in Nat /\ rest \in Nat /\ offset \in Nat
  BY DEF FlashInv, TypeOK, HeadRead
<1>2. Segment \in 1..len /\ rest = Segment /\ offset = addr /\ dst_ptr = buffer /\ chunkAlign_cnt = 0
  BY <1>1, SegmentBounds DEF AtHead
<1>3. /\ cor \in 1..3 /\ restTo4 \in 1..3 /\ cor + restTo4 = 4
      /\ offset - cor \in Nat /\ (offset - cor) % 4 = 0 /\ (offset + restTo4) % 4 = 0
  BY <1>1 DEF HeadRead
<1>4. offset <= MaxAddr + MaxLen
  BY <1>1, <1>2, Sizes DEF Placed
<1>5. /\ driver' = [from |-> offset - cor, to |-> 0, size |-> 4]
      /\ args' = args /\ addr' = addr /\ len' = len /\ buffer' = buffer /\ Offset' = Offset
      /\ Segment' = Segment
  BY DEF HeadRead, page, Offset, Segment
<1>6. DriverLimits'
  BY <1>3, <1>5, WordInPage DEF DriverLimits
<1>7. /\ segment_len \in 0..rest /\ taken \in 0..segment_len /\ taken <= restTo4
      /\ rest - taken = (IF restTo4 > rest THEN 0 ELSE rest - restTo4)
      /\ rest - taken > 0 => taken = restTo4
      /\ segment_len <= 3
  BY <1>1, <1>3
<1> HIDE DEF cor, restTo4, taken, segment_len
<1>8. /\ bounced \in [0..(TmpSize - 1) -> {Stale} \cup Bytes]
      /\ \A j \in 0..3 : bounced[j] = (offset - cor) + j
  <2> DEFINE f == offset - cor
  <2>1. f \in Nat /\ f + 4 <= MaxAddr + MaxLen + TmpSize + 1
    BY <1>1, <1>3, <1>4, Sizes
  <2>2. \A i \in 0..3 : FlashBytes(f, 4)[i] = f + i /\ FlashBytes(f, 4)[i] \in {Stale} \cup Bytes
    BY <2>1, ReadBytes
  <2>3. bounced = [a \in 0..(TmpSize - 1) |-> IF a \in 0..3 THEN FlashBytes(f, 4)[a - 0] ELSE tmp_buf[a]]
    BY Known DEF Bounced, Stored
  <2> HIDE DEF f, bounced
  <2> QED
    BY <2>2, <2>3, Known DEF f
<1>9. \A i \in 0..(segment_len - 1) : src[i] = bounced[cor + i] /\ cor + i \in 0..(TmpSize - 1)
  BY <1>3, <1>7
<1> HIDE DEF src, bounced
<1>10. ASSUME mem' = Stored(mem, dst_ptr, segment_len, src)
       PROVE  /\ mem' \in [Memory -> {Stale} \cup Bytes] /\ NothingOutside'
              /\ \A a \in args.to .. (buffer + taken - 1) : mem'[a] = Offset + (a - args.to)
  <2>1. buffer + segment_len <= args.to + args.size /\ buffer >= args.to /\ segment_len \in Nat
    BY <1>1, <1>2, <1>7, Sizes DEF Placed
  <2>2. \A i \in 0..(segment_len - 1) : src[i] \in {Stale} \cup Bytes
    BY <1>8, <1>9
  <2>3. /\ mem' \in [Memory -> {Stale} \cup Bytes] /\ NothingOutside'
        /\ \A a \in Buffer : mem'[a] = IF a \in buffer..(buffer + segment_len - 1)
                                       THEN src[a - buffer] ELSE mem[a]
    BY <1>1, <1>2, <1>5, <1>10, <2>1, <2>2, StoredInside
  <2>4. ASSUME NEW a \in args.to .. (buffer + taken - 1)
        PROVE  mem'[a] = Offset + (a - args.to)
    <3>1. a \in Buffer
      BY <1>1, <1>7, <2>1, Sizes DEF Buffer
    <3>2. CASE a < buffer
      <4>1. mem'[a] = mem[a] /\ a \in args.to..(buffer - 1)
        BY <1>1, <2>3, <3>1, <3>2, Known
      <4> QED
        BY <1>1, <4>1 DEF AtHead, Right
    <3>3. CASE a >= buffer
      <4>1. a - buffer \in 0..(segment_len - 1) /\ cor + (a - buffer) \in 0..3
            /\ a \in buffer..(buffer + segment_len - 1)
        BY <1>1, <1>3, <1>7, <3>3, Sizes
      <4>2. mem'[a] = bounced[cor + (a - buffer)]
        BY <1>9, <2>3, <3>1, <4>1
      <4>3. mem'[a] = (offset - cor) + (cor + (a - buffer))
        BY <1>8, <4>1, <4>2
      <4>4. args.to \in Nat /\ args.size \in Nat /\ Offset \in Nat
        BY Sizes
      <4>5. buffer + len = args.to + args.size /\ addr + len = Offset + args.size
        BY <1>1 DEF Placed
      <4>6. addr - buffer = Offset - args.to
        BY <1>1, <4>4, <4>5
      <4>7. cor + (a - buffer) \in Nat /\ a \in Nat
        BY <4>1, <4>4
      <4>8. (offset - cor) + (cor + (a - buffer)) = Offset + (a - args.to)
        BY <1>1, <1>2, <1>3, <4>4, <4>6, <4>7
      <4> QED
        BY <4>3, <4>8
    <3> QED
      BY <1>1, <3>2, <3>3, Known
  <2> QED
    BY <2>3, <2>4
<1>11. CASE pc' = "failed"
  <2>1. UNCHANGED <<mem, tmp_buf, offset, dst_ptr, rest, chunkAlign_cnt>>
    BY <1>11 DEF HeadRead, wrapper
  <2>2. TypeOK'
    BY <1>3, <1>5, <1>11, <2>1 DEF FlashInv, TypeOK
  <2>3. NothingOutside' /\ (Offset \in 0..MaxAddr)'
    BY <1>5, <2>1 DEF FlashInv, NothingOutside
  <2> QED
    BY <1>6, <1>11, <2>2, <2>3 DEF FlashInv
<1>12. CASE pc' = "chunk"
  <2>1. /\ tmp_buf' = bounced /\ mem' = Stored(mem, dst_ptr, segment_len, src)
        /\ offset' = offset + restTo4 /\ dst_ptr' = dst_ptr + restTo4
        /\ rest' = rest - taken /\ chunkAlign_cnt' = chunkAlign_cnt
    BY <1>7, <1>12 DEF HeadRead, src, bounced, segment_len, restTo4, cor
  <2>2. /\ mem' \in [Memory -> {Stale} \cup Bytes] /\ NothingOutside'
        /\ \A a \in args.to .. (buffer + taken - 1) : mem'[a] = Offset + (a - args.to)
    BY <1>10, <2>1
  <2>3. rest' \in Nat /\ offset' \in Nat /\ dst_ptr' \in Nat /\ Segment - rest' = taken
        /\ rest' <= Segment
    BY <1>1, <1>2, <1>3, <1>7, <2>1
  <2>4. TypeOK'
    BY <1>3, <1>5, <1>8, <1>12, <2>1, <2>2, <2>3 DEF FlashInv, TypeOK, Bytes
  <2>5. Placed' /\ (Offset \in 0..MaxAddr)'
    BY <1>1, <1>5 DEF FlashInv, Placed
  <2>6. AtChunk'
    <3>1. buffer' + (Segment' - rest') = buffer + taken
      BY <1>5, <2>3
    <3>2. rest' > 0 => taken = restTo4
      BY <1>7, <2>1
    <3>3. rest' > 0 => /\ offset' = addr + taken /\ dst_ptr' + (0 * TmpSize) = buffer + taken
                       /\ offset' % 4 = 0
      BY <1>1, <1>2, <1>3, <2>1, <3>2
    <3> QED
      BY <1>1, <1>2, <1>5, <2>1, <2>2, <2>3, <3>1, <3>3 DEF AtHead, AtChunk, Right
  <2> QED
    BY <1>6, <1>12, <2>2, <2>4, <2>5, <2>6 DEF FlashInv
<1> QED
  BY <1>11, <1>12 DEF HeadRead
LEMMA RoundedUp ==
    ASSUME NEW n \in Nat, n > 0
    PROVE  /\ ((n + 3) \div 4) * 4 \in Nat /\ (((n + 3) \div 4) * 4) % 4 = 0
           /\ n <= ((n + 3) \div 4) * 4 /\ ((n + 3) \div 4) * 4 <= n + 3
           /\ n % 4 = 0 => ((n + 3) \div 4) * 4 = n
           /\ \A m \in Nat : m % 4 = 0 /\ n <= m => ((n + 3) \div 4) * 4 <= m
  OBVIOUS

(* A turn of the wrapper's loop: where it is in its page, a word fits that *)
(* is read to its end, and the pieces follow each other in the buffer.     *)
LEMMA ReadChunkKeeps ==
    ASSUME FlashInv, ReadChunk, busy' = busy PROVE FlashInv'
<1> DEFINE chunk == Least(rest, TmpSize)
           chunkAlign4 == ((chunk + 3) \div 4) * 4
           dst == dst_ptr + (chunkAlign_cnt * TmpSize)
           direct == dst_ptr % 4 = 0 /\ chunk % 4 = 0
           before == Segment - rest
           room == PageLeft(addr) - before
<1>1. /\ Placed /\ AtChunk /\ rest > 0
      /\ addr \in Nat /\ len \in Nat /\ buffer \in Nat /\ rest \in Nat /\ offset \in Nat
      /\ dst_ptr \in Nat /\ chunkAlign_cnt \in Nat
  BY DEF FlashInv, TypeOK, ReadChunk
<1>2. /\ Segment \in 1..len /\ Segment <= PageLeft(addr) /\ PageLeft(addr) \in 1..PageSize
      /\ (addr % PageSize) + PageLeft(addr) = PageSize /\ (addr + PageLeft(addr)) % 4 = 0
  BY <1>1, SegmentBounds DEF AtChunk
<1>3. /\ offset = addr + before /\ dst = buffer + before /\ offset % 4 = 0
      /\ rest <= Segment /\ Right(buffer + before) /\ before \in Nat /\ before + rest = Segment
  BY <1>1, <1>2 DEF AtChunk
<1>4. /\ chunk \in 1..rest /\ chunk <= TmpSize /\ (rest - chunk > 0 => chunk = TmpSize)
      /\ rest - chunk \in Nat
  BY <1>1 DEF Least
<1>5. /\ args.to \in Nat /\ args.size \in Nat /\ Offset \in Nat
      /\ Offset <= MaxAddr /\ args.size <= MaxLen
  BY Sizes
<1>6. /\ buffer + len = args.to + args.size /\ addr + len = Offset + args.size
      /\ buffer >= args.to
  BY <1>1 DEF Placed
<1>7. /\ dst >= args.to /\ dst + rest <= args.to + args.size
      /\ offset = Offset + (dst - args.to) /\ offset + rest <= MaxAddr + MaxLen
      /\ dst \in Nat
  BY <1>1, <1>2, <1>3, <1>5, <1>6
<1>8. room \in Nat /\ rest <= room /\ room % 4 = 0 /\ (offset % PageSize) + room = PageSize
  <2>1. room \in Nat /\ rest <= room /\ before < PageLeft(addr) /\ offset + room = addr + PageLeft(addr)
    <3> DEFINE l == PageLeft(addr)
    <3>1. l \in Nat /\ Segment \in Nat /\ Segment <= l
      BY <1>1, <1>2
    <3>2. offset = addr + before /\ before \in Nat /\ before + rest = Segment
      BY <1>3
    <3> HIDE DEF l, before
    <3>3. l - before \in Nat /\ rest <= l - before /\ before < l /\ offset + (l - before) = addr + l
      BY <1>1, <3>1, <3>2
    <3> QED
      BY <3>3 DEF l
  <2>2. addr % PageSize \in Nat
    BY <1>1, Quotient
  <2>3. (addr + before) % PageSize = (addr % PageSize) + before
    BY <1>1, <1>2, <1>3, <2>1, <2>2, InPage
  <2>4. (offset % PageSize) + room = PageSize
    <3> DEFINE r == addr % PageSize
               l == PageLeft(addr)
    <3>1. r \in Nat /\ l \in Nat /\ r + l = PageSize /\ offset % PageSize = r + before
      BY <1>2, <1>3, <2>2, <2>3
    <3> HIDE DEF r, l, before
    <3>2. (r + before) + (l - before) = PageSize
      BY <1>3, <3>1
    <3> QED
      BY <3>1, <3>2 DEF l
  <2>5. room % 4 = 0
    <3>1. (offset + room) % 4 = 0 /\ offset % 4 = 0 /\ offset \in Nat
      BY <1>1, <1>2, <1>3, <2>1
    <3> HIDE DEF room
    <3> QED
      BY <2>1, <3>1, Difference
  <2> QED
    BY <2>1, <2>4, <2>5
<1>9. /\ chunkAlign4 \in Nat /\ chunkAlign4 % 4 = 0 /\ chunk <= chunkAlign4 /\ chunkAlign4 <= chunk + 3
      /\ chunk % 4 = 0 => chunkAlign4 = chunk
      /\ chunkAlign4 <= room /\ chunkAlign4 <= TmpSize
  <2> HIDE DEF chunk, room
  <2>1. chunk \in Nat /\ chunk > 0 /\ chunk <= room
    BY <1>1, <1>4, <1>8
  <2>2. room \in Nat /\ room % 4 = 0 /\ TmpSize \in Nat /\ TmpSize % 4 = 0
    BY <1>8
  <2> QED
    BY <1>4, <2>1, <2>2, RoundedUp
<1>10. direct => dst % 4 = 0
  <2> DEFINE k == chunkAlign_cnt * TmpSize
  <2>1. k \in Nat /\ k % 4 = 0
    BY <1>1, OneMore, WordsTimes
  <2> HIDE DEF k
  <2>2. dst_ptr % 4 = 0 => (dst_ptr + k) % 4 = 0
    BY <1>1, <2>1
  <2> QED
    BY <2>2 DEF k
<1>11. (chunkAlign_cnt + 1) * TmpSize = TmpSize + (chunkAlign_cnt * TmpSize)
  BY <1>1, OneMore
<1>12. dst_ptr + ((chunkAlign_cnt + 1) * TmpSize) = dst + TmpSize
  <2> DEFINE k == chunkAlign_cnt * TmpSize
  <2>1. k \in Nat
    BY <1>1, OneMore
  <2>2. (chunkAlign_cnt + 1) * TmpSize = TmpSize + k
    BY <1>11
  <2> HIDE DEF k
  <2>3. dst_ptr + (TmpSize + k) = (dst_ptr + k) + TmpSize
    BY <1>1, <2>1
  <2> QED
    BY <2>2, <2>3 DEF k
<1>13. /\ driver' = [from |-> offset, to |-> IF direct THEN dst ELSE 0, size |-> chunkAlign4]
       /\ args' = args /\ addr' = addr /\ len' = len /\ buffer' = buffer /\ Offset' = Offset
       /\ Segment' = Segment
  BY DEF ReadChunk, page, Offset, Segment
<1>14. /\ pc' \in {"chunk", "failed"}
       /\ pc' = "chunk" =>
            /\ rest' = rest - chunk /\ offset' = offset + chunk
            /\ chunkAlign_cnt' = chunkAlign_cnt + 1 /\ dst_ptr' = dst_ptr
            /\ \/ /\ direct /\ mem' = Stored(mem, dst, chunkAlign4, FlashBytes(offset, chunkAlign4))
                  /\ tmp_buf' = tmp_buf
               \/ /\ mem' = Stored(mem, dst, chunk, FlashBytes(offset, chunk))
                  /\ tmp_buf' = Bounced(offset, chunkAlign4)
       /\ pc' = "failed" =>
            /\ UNCHANGED <<tmp_buf, offset, dst_ptr, rest, chunkAlign_cnt>>
            /\ mem' = mem \/ mem' = Stored(mem, dst, chunk, tmp_buf)
  BY DEF ReadChunk, wrapper
<1> HIDE DEF chunk, chunkAlign4, dst, direct, before, room
<1>15. DriverLimits'
  <2>1. (offset % PageSize) + chunkAlign4 <= PageSize
    <3>1. offset % PageSize \in Nat
      BY <1>1, Quotient
    <3> QED
      BY <1>8, <1>9, <3>1
  <2>2. (IF direct THEN dst ELSE 0) % 4 = 0
    BY <1>10
  <2> QED
    BY <1>3, <1>9, <1>13, <2>1, <2>2 DEF DriverLimits
<1>16. CASE pc' = "failed"
  <2>1. mem' \in [Memory -> {Stale} \cup Bytes] /\ NothingOutside'
    <3>1. CASE mem' = mem
      BY <1>13, <3>1, Known DEF FlashInv, NothingOutside
    <3>2. CASE mem' = Stored(mem, dst, chunk, tmp_buf)
      <4>1. \A i \in 0..(chunk - 1) : tmp_buf[i] \in {Stale} \cup Bytes
        BY <1>1, <1>4, Known
      <4>2. chunk \in Nat /\ dst + chunk <= args.to + args.size
        BY <1>1, <1>4, <1>5, <1>7
      <4> QED
        BY <1>7, <1>13, <3>2, <4>1, <4>2, StoredInside
    <3> QED
      BY <1>14, <1>16, <3>1, <3>2
  <2>2. TypeOK'
    BY <1>1, <1>7, <1>9, <1>13, <1>14, <1>16, <2>1 DEF FlashInv, TypeOK, Bytes
  <2> QED
    BY <1>13, <1>15, <1>16, <2>1, <2>2 DEF FlashInv
<1>17. CASE pc' = "chunk"
  <2>1. mem' = Stored(mem, dst, chunk, FlashBytes(offset, chunk))
    BY <1>9, <1>14, <1>17 DEF direct
  <2>2. chunk \in Nat /\ dst + chunk <= args.to + args.size /\ Right(dst)
    BY <1>1, <1>3, <1>4, <1>5, <1>7
  <2>3. /\ mem' \in [Memory -> {Stale} \cup Bytes] /\ NothingOutside'
        /\ \A a \in args.to .. (dst + chunk - 1) : mem'[a] = Offset + (a - args.to)
    BY <1>7, <1>13, <2>1, <2>2, StoredRight
  <2>4. tmp_buf' \in [0..(TmpSize - 1) -> {Stale} \cup Bytes]
    <3>1. CASE tmp_buf' = Bounced(offset, chunkAlign4)
      <4>1. offset + chunkAlign4 <= MaxAddr + MaxLen + TmpSize + 1
        BY <1>1, <1>4, <1>7, <1>9
      <4>2. \A i \in 0..(chunkAlign4 - 1) : FlashBytes(offset, chunkAlign4)[i] \in {Stale} \cup Bytes
        BY <1>1, <1>9, <4>1, ReadBytes
      <4>3. tmp_buf' = [a \in 0..(TmpSize - 1) |->
                          IF a \in 0..(0 + chunkAlign4 - 1) THEN FlashBytes(offset, chunkAlign4)[a - 0]
                          ELSE tmp_buf[a]]
        BY <3>1, Known DEF Bounced, Stored
      <4> QED
        BY <1>9, <4>2, <4>3, Known
    <3> QED
      BY <1>14, <1>17, <3>1, Known
  <2>5. TypeOK'
    <3>1. /\ rest' \in Nat /\ offset' \in Nat /\ chunkAlign_cnt' \in Nat /\ dst_ptr' \in Nat
      BY <1>1, <1>4, <1>14, <1>17
    <3>2. driver' \in [from : Nat, to : Nat, size : Nat]
      BY <1>1, <1>7, <1>9, <1>13
    <3>3. /\ mem' \in [Memory -> {Stale} \cup (0..(MaxAddr + MaxLen + TmpSize))]
          /\ tmp_buf' \in [0..(TmpSize - 1) -> {Stale} \cup (0..(MaxAddr + MaxLen + TmpSize))]
      BY <2>3, <2>4 DEF Bytes
    <3> QED
      BY <1>13, <1>17, <3>1, <3>2, <3>3 DEF FlashInv, TypeOK
  <2>6. Placed' /\ (Offset \in 0..MaxAddr)'
    BY <1>1, <1>13 DEF FlashInv, Placed
  <2>7. AtChunk'
    <3>1. /\ rest' = rest - chunk /\ rest' \in Nat /\ rest' <= Segment
          /\ Segment - rest' = before + chunk
          /\ buffer + (before + chunk) = dst + chunk /\ addr + (before + chunk) = offset + chunk
      BY <1>1, <1>2, <1>3, <1>4, <1>14, <1>17
    <3>2. rest' > 0 => /\ chunk = TmpSize /\ offset' = offset + TmpSize
                       /\ dst_ptr' + (chunkAlign_cnt' * TmpSize) = dst + TmpSize
      BY <1>4, <1>12, <1>14, <1>17, <3>1
    <3>3. (offset + TmpSize) % 4 = 0
      BY <1>1, <1>3
    <3>4. len' > 0 /\ buffer' + (Segment' - rest') = dst + chunk /\ addr' + (Segment' - rest') = offset + chunk
      BY <1>1, <1>13, <3>1 DEF AtChunk
    <3>5. /\ len' > 0 /\ rest' <= Segment'
          /\ rest' > 0 => /\ offset' = addr' + (Segment' - rest')
                          /\ dst_ptr' + (chunkAlign_cnt' * TmpSize) = buffer' + (Segment' - rest')
                          /\ offset' % 4 = 0
      BY <1>13, <3>1, <3>2, <3>3, <3>4
    <3>6. ASSUME NEW a \in args'.to .. ((buffer' + (Segment' - rest')) - 1)
          PROVE  mem'[a] = Offset' + (a - args'.to)
      <4>1. args' = args /\ Offset' = Offset
        BY <1>13
      <4>2. buffer' + (Segment' - rest') = dst + chunk
        BY <3>4
      <4>3. a \in args.to .. (dst + chunk - 1)
        BY <1>7, <2>2, <4>1, <4>2
      <4> QED
        BY <2>3, <4>1, <4>3
    <3> QED
      BY <3>5, <3>6 DEF AtChunk, Right
  <2> QED
    BY <1>15, <1>17, <2>3, <2>5, <2>6, <2>7 DEF FlashInv
<1> QED
  BY <1>14, <1>16, <1>17
-----------------------------------------------------------------------------
(* The invariant, and what follows from it                                 *)

LEMMA StepKeeps ==
    ASSUME FlashInv, [Next]_vars PROVE FlashInv'
<1>1. CASE NextPage /\ busy' = busy
  BY <1>1, NextPageKeeps
<1>2. CASE Finish /\ busy' = busy
  BY <1>2, FinishKeeps
<1>3. CASE HeadSkipped /\ busy' = busy
  BY <1>3, HeadSkippedKeeps
<1>4. CASE HeadRead /\ busy' = busy
  BY <1>4, HeadReadKeeps
<1>5. CASE ReadChunk /\ busy' = busy
  BY <1>5, ReadChunkKeeps
<1>6. CASE PageDone /\ busy' = busy
  BY <1>6, PageDoneKeeps
<1>7. CASE ReadIpc
  BY <1>7, ReadIpcKeeps
<1>8. CASE WaitBusBusy
  BY <1>8, WaitBusBusyKeeps
<1>9. CASE ReadMapped
  BY <1>9, ReadMappedKeeps
<1>10. CASE UNCHANGED vars
  BY <1>10 DEF vars, FlashInv, TypeOK, NothingOutside, DriverLimits, Offset, Placed, Right, AtHead,
               AtChunk, AllRight, Buffer, Segment
<1> QED
  BY <1>1, <1>2, <1>3, <1>4, <1>5, <1>6, <1>7, <1>8, <1>9, <1>10 DEF Next, Pages

(* In every state of a read, the part of the buffer before the place that  *)
(* the loops have reached holds the right bytes, and the loops' addresses  *)
(* and lengths make up the read.                                           *)
THEOREM FlashInvariant == Spec => []FlashInv
<1>1. Init => FlashInv
  BY InitHolds
<1>2. FlashInv /\ [Next]_vars => FlashInv'
  BY StepKeeps
<1> QED
  BY <1>1, <1>2, PTL DEF Spec

(* The variables of the three reads keep their types, memory among them.   *)
THEOREM TypeCorrect == Spec => []TypeOK
<1>1. FlashInv => TypeOK
  BY DEF FlashInv
<1> QED
  BY <1>1, FlashInvariant, PTL

(* flash_read, sfw_flash_read and sfw_flash_read_ipc: a read that succeeds *)
(* has put every byte where it was asked.                                  *)
THEOREM EveryReadIsRight == Spec => []ReadsRight
<1>1. FlashInv => ReadsRight
  <2>1. ASSUME FlashInv, pc = "done", NEW i \in 0..(args.size - 1)
        PROVE  mem[args.to + i] = OffsetOf(args.from) + i
    <3>1. AllRight
      BY <2>1 DEF FlashInv
    <3>2. args.to \in Nat /\ args.size \in Nat
      BY <2>1, Known
    <3>3. args.to + i \in Buffer /\ (args.to + i) - args.to = i
      BY <2>1, <3>2 DEF Buffer
    <3> QED
      BY <3>1, <3>3 DEF AllRight, Offset
  <2> QED
    BY <2>1 DEF ReadsRight
<1> QED
  BY <1>1, FlashInvariant, PTL

(* No step of a read writes outside the buffer it was given, in whatever   *)
(* state the bounce buffer is and however the driver fails.                *)
THEOREM BufferOnly == Spec => []NothingOutside
<1>1. FlashInv => NothingOutside
  BY DEF FlashInv
<1> QED
  BY <1>1, FlashInvariant, PTL

(* mflash_drv_read_wrapper asks the driver for whole words of one page,    *)
(* from and to word addresses, no more than tmp_buf holds.                 *)
THEOREM DriverAsItTakes == Spec => []DriverLimits
<1>1. FlashInv => DriverLimits
  BY DEF FlashInv
<1> QED
  BY <1>1, FlashInvariant, PTL

-----------------------------------------------------------------------------
(* The reads come to an end                                                *)

(* A bound on the steps that are left.  A page takes one to begin, one for *)
(* its head, one for each of its chunks and one to end, and three more     *)
(* bytes than that would.                                                  *)
Left ==
    CASE pc = "page" -> (4 * len) + 1
      [] pc = "head" -> 4 * len
      [] pc = "chunk" -> (4 * (len - Segment)) + rest + 2
      [] pc = "sfw_flash_read_ipc" -> MaxBusy + 2
      [] pc = "flexspi_nor_wait_bus_busy" -> busy + 1
      [] pc = "sfw_flash_read" -> 1
      [] pc \in {"done", "failed"} -> 0

LEMMA SegmentOfPage ==
    ASSUME FlashInv, len > 0
    PROVE  Segment \in Nat /\ Segment >= 1 /\ Segment <= len /\ len \in Nat
<1>1. len \in Nat /\ addr \in Nat
  BY DEF FlashInv, TypeOK
<1>2. PageLeft(addr) \in 1..PageSize
  BY <1>1, PageEnd
<1> QED
  BY <1>1, <1>2 DEF Segment, Least

LEMMA LeftIsNumber ==
    ASSUME FlashInv
    PROVE  Left \in Nat
<1>1. len \in Nat /\ rest \in Nat /\ busy \in 0..MaxBusy
  BY DEF FlashInv, TypeOK
<1>2. pc \in {"page", "head", "chunk", "sfw_flash_read", "sfw_flash_read_ipc",
             "flexspi_nor_wait_bus_busy", "done", "failed"}
  BY DEF FlashInv, TypeOK
<1>3. CASE pc = "chunk"
  <2>1. Segment \in Nat /\ Segment <= len
    BY <1>3, SegmentOfPage DEF FlashInv, AtChunk
  <2> QED
    BY <1>1, <1>3, <2>1 DEF Left
<1>4. CASE pc # "chunk"
  BY <1>1, <1>2, <1>4 DEF Left
<1> QED
  BY <1>3, <1>4

LEMMA LessIsLeft ==
    ASSUME FlashInv, Next
    PROVE  Left' < Left
<1>1. /\ len \in Nat /\ rest \in Nat /\ addr \in Nat /\ busy \in 0..MaxBusy
      /\ Left \in Nat
  BY LeftIsNumber DEF FlashInv, TypeOK
<1>2. CASE NextPage
  BY <1>1, <1>2 DEF NextPage, page, Left
<1>3. CASE Finish
  BY <1>1, <1>3 DEF Finish, Left
<1>4. CASE HeadSkipped
  <2>1. rest = Segment /\ len > 0 /\ rest' = rest /\ len' = len /\ Segment' = Segment
    BY <1>4 DEF HeadSkipped, FlashInv, AtHead, page, wrapper, Segment
  <2> QED
    BY <1>1, <1>4, <2>1, SegmentOfPage DEF HeadSkipped, Left
<1>5. CASE HeadRead
  <2>1. rest = Segment /\ len > 0 /\ len' = len /\ Segment' = Segment
    BY <1>5 DEF HeadRead, FlashInv, AtHead, page, Segment
  <2>2. CASE pc' = "chunk"
    <3>1. offset % Word \in 0..3
      BY DEF FlashInv, TypeOK
    <3>2. rest' \in Nat /\ rest' <= rest
      BY <1>1, <1>5, <2>2, <3>1 DEF HeadRead
    <3> QED
      BY <1>1, <1>5, <2>1, <2>2, <3>2, SegmentOfPage DEF HeadRead, Left
  <2>3. CASE pc' = "failed"
    BY <1>1, <1>5, <2>1, <2>3 DEF HeadRead, Left
  <2> QED
    BY <1>5, <2>2, <2>3 DEF HeadRead
<1>6. CASE ReadChunk
  <2>1. rest > 0 /\ len > 0 /\ len' = len /\ Segment' = Segment
    BY <1>6 DEF ReadChunk, FlashInv, AtChunk, page, Segment
  <2>2. Least(rest, TmpSize) \in 1..rest
    BY <1>1, <2>1 DEF Least
  <2>3. CASE pc' = "chunk"
    <3>1. rest' = rest - Least(rest, TmpSize)
      BY <1>6, <2>3 DEF ReadChunk
    <3> QED
      BY <1>1, <1>6, <2>1, <2>2, <2>3, <3>1, SegmentOfPage DEF ReadChunk, Left
  <2>4. CASE pc' = "failed"
    BY <1>1, <1>6, <2>1, <2>4, SegmentOfPage DEF ReadChunk, Left
  <2> QED
    BY <1>6, <2>3, <2>4 DEF ReadChunk
<1>7. CASE PageDone
  <2>1. len > 0 /\ len' = len - Segment
    BY <1>7 DEF PageDone, FlashInv, AtChunk, Segment
  <2> QED
    BY <1>1, <1>7, <2>1, SegmentOfPage DEF PageDone, Left
<1>8. CASE ReadIpc
  BY <1>1, <1>8 DEF ReadIpc, Left
<1>9. CASE WaitBusBusy
  BY <1>1, <1>9 DEF WaitBusBusy, Left, FLASH_BUSY_STATUS_POL
<1>10. CASE ReadMapped
  BY <1>1, <1>10 DEF ReadMapped, Left
<1> QED
  BY <1>2, <1>3, <1>4, <1>5, <1>6, <1>7, <1>8, <1>9, <1>10 DEF Next, Pages

(* For reads of any length, over pages and through a buffer of any size,   *)
(* each step of flash_read, the wrapper and the other two reads leaves     *)
(* fewer to be made, of which there are finitely many at the start: no     *)
(* loop over pages or chunks can run forever, nor the wait for the flash   *)
(* once that is not busy any more (mcuboot_app_support.c,                  *)
(* flexspi_nor_flash_ops.c).                                               *)
THEOREM LoopsEnd == Spec => [](Left \in Nat) /\ [][Left' < Left]_vars
<1>1. FlashInv => Left \in Nat
  BY LeftIsNumber
<1>2. FlashInv /\ [Next]_vars => [Left' < Left]_vars
  BY LessIsLeft
<1> QED
  BY <1>1, <1>2, FlashInvariant, PTL DEF Spec
=============================================================================
