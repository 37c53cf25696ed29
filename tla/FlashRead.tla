------------------------------ MODULE FlashRead ------------------------------
(***************************************************************************)
(* flash_read and mflash_drv_read_wrapper of mcuboot_app_support.c: a read *)
(* of any address, length and destination, split at the pages of the flash *)
(* and into pieces that the flash driver takes.  The driver reads whole    *)
(* words, from word addresses, to word addresses.  With them the two reads *)
(* of flexspi_nor_flash_ops.c, which split nothing: sfw_flash_read_ipc,    *)
(* with a command to the flash, and sfw_flash_read, from mapped memory.    *)
(*                                                                         *)
(* A byte of flash is represented by its address, so that a byte in memory *)
(* says where it was read.  Memory is modelled around the caller's buffer. *)
(***************************************************************************)
EXTENDS Integers

CONSTANTS
    TmpSize,    \* bytes in tmp_buf
    PageSize,   \* MFLASH_PAGE_SIZE
    MaxAddr,    \* bound: largest address of a read
    MaxLen,     \* bound: longest read
    DriverFails, \* the driver may return an error
    MaxBusy     \* bound: how often the flash says that it is busy

Word == 4

ASSUME TmpAssumption == TmpSize \in Nat /\ TmpSize >= 8 /\ TmpSize % Word = 0
ASSUME PageAssumption == PageSize \in Nat /\ PageSize > 0 /\ PageSize % Word = 0
ASSUME BoundAssumption ==
    MaxAddr \in Nat /\ MaxLen \in Nat /\ DriverFails \in BOOLEAN /\ MaxBusy \in Nat

FLASH_BUSY_STATUS_POL == 1

(* Where the flash is mapped to: beyond what a read within it can reach.   *)
AMBA_BASE == MaxAddr + MaxLen + TmpSize + 1
OffsetOf(address) == IF address >= AMBA_BASE THEN address - AMBA_BASE ELSE address
MappedAt(address) == AMBA_BASE + OffsetOf(address)

Memory == 0..(MaxLen + 2 * Word)   \* addresses around the buffer
Stale == -1                        \* what was there before the call

VARIABLES
    args,       \* which function runs, and its arguments: from, to, size
    mem,        \* memory: address -> flash byte
    tmp_buf,    \* the static bounce buffer
    pc,
    addr, len, buffer,                    \* flash_read's own
    offset, dst_ptr, rest, chunkAlign_cnt, \* the wrapper's own; rest is its len
    driver,     \* the last driver call: address, destination, size
    busy        \* how often the flash will still say that it is busy

page == <<args, addr, len, buffer>>
wrapper == <<offset, dst_ptr, rest, chunkAlign_cnt>>
vars == <<args, mem, tmp_buf, pc, addr, len, buffer, offset, dst_ptr, rest, chunkAlign_cnt, driver, busy>>

-----------------------------------------------------------------------------
Least(a, b) == IF a < b THEN a ELSE b

(* f with the n bytes of src from place d on.                              *)
Stored(f, d, n, src) == [a \in DOMAIN f |-> IF a \in d..(d + n - 1) THEN src[a - d] ELSE f[a]]

FlashBytes(from, n) == [i \in 0..(n - 1) |-> from + i]

(* The bounce buffer after the driver read n bytes into it.                *)
Bounced(from, n) == Stored(tmp_buf, 0, n, FlashBytes(from, n))

PageWhole(a) == PageSize   \* mutant of PageLeft: the first read is not cut

(* What is left of the page that a holds.                                  *)
PageLeft(a) == PageSize - (a % PageSize)

(* The reads of flexspi_nor_flash_ops.c take an offset or a mapped address.*)
Init ==
    /\ \E f \in 0..MaxAddr, t \in Word..(2 * Word - 1), n \in 0..MaxLen :
        /\ \/ /\ args = [reader |-> "flash_read", from |-> f, to |-> t, size |-> n]
              /\ pc = "page"
           \/ \E r \in {"sfw_flash_read", "sfw_flash_read_ipc"}, a \in {f, MappedAt(f)} :
                /\ args = [reader |-> r, from |-> a, to |-> t, size |-> n]
                /\ pc = r
        /\ addr = f /\ buffer = t /\ len = n
    /\ mem = [a \in Memory |-> Stale]
    /\ tmp_buf = [i \in 0..(TmpSize - 1) |-> Stale]
    /\ busy = 0
    /\ offset = 0 /\ dst_ptr = 0 /\ rest = 0 /\ chunkAlign_cnt = 0
    /\ driver = [from |-> 0, to |-> 0, size |-> 0]

(* flash_read: the next page, or the end.                                  *)
NextPage ==
    /\ pc = "page"
    /\ len > 0
    /\ offset' = addr /\ dst_ptr' = buffer /\ chunkAlign_cnt' = 0
    /\ rest' = Least(len, PageLeft(addr))
    /\ pc' = "head"
    /\ UNCHANGED <<page, mem, tmp_buf, driver>>

Finish ==
    /\ pc = "page"
    /\ len = 0
    /\ pc' = "done"
    /\ UNCHANGED <<page, mem, tmp_buf, wrapper, driver>>

(* Mutant of HeadRead: what is left is not guarded against a read of less  *)
(* than the rest of a word.                                                *)
HeadReadUnguarded ==
    LET cor == offset % Word IN
    /\ pc = "head"
    /\ cor # 0
    /\ offset' = offset + (Word - cor) /\ dst_ptr' = dst_ptr + (Word - cor)
    /\ rest' = rest - (Word - cor)
    /\ pc' = "chunk"
    /\ UNCHANGED <<page, mem, tmp_buf, chunkAlign_cnt, driver>>

(* The address is a word's: nothing to correct.                             *)
HeadSkipped ==
    /\ pc = "head"
    /\ offset % Word = 0
    /\ pc' = "chunk"
    /\ UNCHANGED <<page, mem, tmp_buf, wrapper, driver>>

(* The wrapper's correction of an address that is not a word's: the word   *)
(* is read to tmp_buf and the part asked for copied, up to a whole word's  *)
(* worth when less than a word was asked for.                              *)
HeadRead ==
    LET cor == offset % Word
        restTo4 == Word - cor
        segment_len == IF rest >= Word THEN restTo4 ELSE rest
        bounced == Bounced(offset - cor, Word) IN
    /\ pc = "head"
    /\ cor # 0
    /\ driver' = [from |-> offset - cor, to |-> 0, size |-> Word]
    /\ \/ /\ tmp_buf' = bounced
          /\ mem' = Stored(mem, dst_ptr, segment_len, [i \in 0..(segment_len - 1) |-> bounced[cor + i]])
          /\ offset' = offset + restTo4
          /\ dst_ptr' = dst_ptr + restTo4
          /\ rest' = IF restTo4 > rest THEN 0 ELSE rest - restTo4
          /\ pc' = "chunk"
          /\ UNCHANGED chunkAlign_cnt
       \/ /\ DriverFails
          /\ pc' = "failed"
          /\ UNCHANGED <<mem, tmp_buf, wrapper>>
    /\ UNCHANGED page

(* Mutants of ReadChunk: every chunk goes to the start of the destination, *)
(* and whole words are copied out of tmp_buf.                              *)
ReadChunkTo(dst, copied(_)) ==
    LET chunk == Least(rest, TmpSize) IN
    /\ pc = "chunk"
    /\ rest > 0
    /\ mem' = Stored(mem, dst, copied(chunk), FlashBytes(offset, copied(chunk)))
    /\ rest' = rest - chunk /\ offset' = offset + chunk
    /\ chunkAlign_cnt' = chunkAlign_cnt + 1
    /\ UNCHANGED <<page, tmp_buf, pc, dst_ptr, driver>>

ReadChunkSamePlace == ReadChunkTo(dst_ptr, LAMBDA n : n)
ReadChunkWholeWords ==
    ReadChunkTo(dst_ptr + chunkAlign_cnt * TmpSize, LAMBDA n : ((n + 3) \div Word) * Word)

(* One turn of the wrapper's loop.  Through tmp_buf, the copy is made      *)
(* before the driver's status is looked at.                                *)
ReadChunk ==
    LET chunk == Least(rest, TmpSize)
        chunkAlign4 == ((chunk + 3) \div Word) * Word
        dst == dst_ptr + chunkAlign_cnt * TmpSize
        direct == dst_ptr % Word = 0 /\ chunk % Word = 0 IN
    /\ pc = "chunk"
    /\ rest > 0
    /\ driver' = [from |-> offset, to |-> IF direct THEN dst ELSE 0, size |-> chunkAlign4]
    /\ \/ /\ direct
          /\ mem' = Stored(mem, dst, chunkAlign4, FlashBytes(offset, chunkAlign4))
          /\ pc' = "chunk"
          /\ UNCHANGED tmp_buf
       \/ /\ ~direct
          /\ tmp_buf' = Bounced(offset, chunkAlign4)
          /\ mem' = Stored(mem, dst, chunk, FlashBytes(offset, chunk))
          /\ pc' = "chunk"
       \/ /\ DriverFails
          /\ mem' = IF direct THEN mem ELSE Stored(mem, dst, chunk, tmp_buf)
          /\ pc' = "failed"
          /\ UNCHANGED tmp_buf
    /\ IF pc' = "failed"
       THEN UNCHANGED wrapper
       ELSE /\ rest' = rest - chunk
            /\ offset' = offset + chunk
            /\ chunkAlign_cnt' = chunkAlign_cnt + 1
            /\ UNCHANGED dst_ptr
    /\ UNCHANGED page

(* Mutant of PageDone: len is not decremented when a page was read whole.  *)
PageDoneAgain ==
    LET readsize == Least(len, PageLeft(addr)) IN
    /\ pc = "chunk" /\ rest = 0
    /\ len' = IF readsize = len THEN 0 ELSE len
    /\ pc' = "page"
    /\ UNCHANGED <<args, addr, buffer, mem, tmp_buf, wrapper, driver>>

(* The wrapper returns; flash_read goes on to the page after.              *)
PageDone ==
    LET readsize == Least(len, PageLeft(addr)) IN
    /\ pc = "chunk"
    /\ rest = 0
    /\ len' = len - readsize /\ addr' = addr + readsize /\ buffer' = buffer + readsize
    /\ pc' = "page"
    /\ UNCHANGED <<args, mem, tmp_buf, wrapper, driver>>

Pages == NextPage \/ Finish \/ HeadSkipped \/ HeadRead \/ ReadChunk \/ PageDone

-----------------------------------------------------------------------------
(* flexspi_nor_flash_ops.c                                                 *)

(* The whole length in one command; one that fails may have got part of it.*)
ReadIpc ==
    LET deviceAddress == OffsetOf(args.from)
        Got(n) == Stored(mem, args.to, n, FlashBytes(deviceAddress, n)) IN
    /\ pc = "sfw_flash_read_ipc"
    /\ \/ /\ mem' = Got(args.size)
          /\ busy' \in 0..MaxBusy
          /\ pc' = "flexspi_nor_wait_bus_busy"
       \/ /\ DriverFails
          /\ \E n \in 0..args.size : mem' = Got(n)
          /\ pc' = "failed"
          /\ UNCHANGED busy
    /\ UNCHANGED <<page, tmp_buf, wrapper, driver>>

(* One turn: the flash's status register is read.                          *)
WaitBusBusy ==
    LET bit == IF busy > 0 THEN 1 ELSE 0
        isBusy == bit = FLASH_BUSY_STATUS_POL IN
    /\ pc = "flexspi_nor_wait_bus_busy"
    /\ \/ /\ isBusy
          /\ busy' = busy - 1
          /\ UNCHANGED pc
       \/ /\ ~isBusy
          /\ pc' = "done"
          /\ UNCHANGED busy
       \/ /\ DriverFails
          /\ pc' = "failed"
          /\ UNCHANGED busy
    /\ UNCHANGED <<page, mem, tmp_buf, wrapper, driver>>

(* The memory that the flash is mapped to holds its bytes.                 *)
ReadMapped ==
    LET address == MappedAt(args.from) IN
    /\ pc = "sfw_flash_read"
    /\ mem' = Stored(mem, args.to, args.size, FlashBytes(address - AMBA_BASE, args.size))
    /\ pc' = "done"
    /\ UNCHANGED <<page, tmp_buf, wrapper, driver, busy>>

Next == (Pages /\ UNCHANGED busy) \/ ReadIpc \/ WaitBusBusy \/ ReadMapped

Spec == Init /\ [][Next]_vars

(* A call runs to its end: nothing in it waits.                            *)
FairSpec == Spec /\ WF_vars(Next)
-----------------------------------------------------------------------------
(* Properties                                                              *)

TypeOK ==
    /\ args \in [reader : {"flash_read", "sfw_flash_read", "sfw_flash_read_ipc"},
                 from : 0..(AMBA_BASE + MaxAddr), to : Word..(2 * Word - 1), size : 0..MaxLen]
    /\ mem \in [Memory -> {Stale} \cup (0..(MaxAddr + MaxLen + TmpSize))]
    /\ tmp_buf \in [0..(TmpSize - 1) -> {Stale} \cup (0..(MaxAddr + MaxLen + TmpSize))]
    /\ pc \in {"page", "head", "chunk", "sfw_flash_read", "sfw_flash_read_ipc",
              "flexspi_nor_wait_bus_busy", "done", "failed"}
    /\ addr \in Nat /\ len \in Nat /\ buffer \in Nat
    /\ offset \in Nat /\ dst_ptr \in Nat /\ rest \in Nat /\ chunkAlign_cnt \in Nat
    /\ driver \in [from : Nat, to : Nat, size : Nat]
    /\ busy \in 0..MaxBusy

(* A read that succeeds has put every byte asked for where it was asked,   *)
(* whatever the alignments, the stale words left in tmp_buf and the pages  *)
(* crossed.                                                                *)
ReadsRight ==
    pc = "done" => \A i \in 0..(args.size - 1) : mem[args.to + i] = OffsetOf(args.from) + i

(* No step writes outside the caller's buffer, though the driver reads     *)
(* whole words and the first copy may take a word's worth of stale bytes.  *)
NothingOutside ==
    \A a \in Memory \ (args.to .. (args.to + args.size - 1)) : mem[a] = Stale

(* flash_read asks the driver for whole words from and to word addresses   *)
(* only, and never across the end of the page, or beyond tmp_buf.          *)
DriverLimits ==
    /\ driver.from % Word = 0 /\ driver.to % Word = 0 /\ driver.size % Word = 0
    /\ (driver.from % PageSize) + driver.size <= PageSize
    /\ driver.size <= TmpSize

(* Every read ends.                                                        *)
ReadEnds == <>(pc \in {"done", "failed"})
=============================================================================
