---------------------------- MODULE MCFlashRead ----------------------------
(***************************************************************************)
(* FlashRead with a bounce buffer of two words and pages of four: every    *)
(* alignment of address, length and destination, reads that cross up to    *)
(* two page ends and reads that need several chunks of one page.           *)
(***************************************************************************)
EXTENDS FlashRead
=============================================================================
