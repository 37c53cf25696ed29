---------------------------- MODULE VerifyImage ----------------------------
(***************************************************************************)
(* bl_verify_image of mcuboot_app_support.c, on what an interrupted or     *)
(* complete download leaves in a slot: the first units of a built image,   *)
(* then erased flash, whose fields read as all ones.  A unit is a field of *)
(* 16 bits.  Sums and addresses wrap at the width of uint32_t.             *)
(***************************************************************************)
EXTENDS Integers

CONSTANTS
    HeaderUnits,    \* sizeof(struct image_header)
    SlotUnits,      \* units in a slot
    Ones16, Ones32, \* what erased uint16_t and uint32_t fields read as
    Headers, Bodies, Protected, \* bounds: sizes of the parts of built images
    Tlvs            \* size of the trailing TLV area of built images

Info == 2           \* sizeof(struct image_tlv_info): magic and size

ASSUME HeaderAssumption == HeaderUnits \in Nat /\ HeaderUnits >= 8
ASSUME WidthAssumption ==   \* an erased header's sum stays inside the slot
    /\ SlotUnits \in Nat /\ Ones16 \in Nat /\ Ones32 \in Nat
    /\ 2 * Ones16 < SlotUnits /\ 2 * SlotUnits < Ones32
ASSUME PartsAssumption ==   \* images that fit their fields and their slot
    /\ Headers \subseteq HeaderUnits..(Ones16 - 1)
    /\ Bodies \subseteq Nat \ {0}
    /\ Protected \subseteq 0..(Ones16 - 1)
    /\ Tlvs \in Nat /\ Tlvs >= Info
    /\ \A h \in Headers, b \in Bodies, p \in Protected : h + b + p + Tlvs <= SlotUnits

VARIABLES
    built,      \* the image as it was built: hdr, len, prot
    written,    \* units of it that reached the slot
    size,       \* the argument: what the caller says was written
    pc,
    ih,         \* the header as it was read
    decl_size,
    result,
    flash       \* history: "bad" when a read returned an error

inputs == <<built, written, size>>
vars == <<built, written, size, pc, ih, decl_size, result, flash>>

-----------------------------------------------------------------------------
Wrap(n) == n % (Ones32 + 1)

(* Where the trailing TLVs of the image begin, and where they end.         *)
TlvAt == built.hdr + built.len + built.prot
Total == TlvAt + Tlvs

NoHeader == [magic |-> "erased", hdr |-> 0, prot |-> 0, len |-> 0]

(* The header in flash: the magic and the load address of two units each,  *)
(* the two sizes of one, then the size of the image, the lower half first. *)
HeaderRead ==
    [magic |-> IF written >= 2 THEN "image" ELSE "erased",
     hdr   |-> IF written >= 5 THEN built.hdr ELSE Ones16,
     prot  |-> IF written >= 6 THEN built.prot ELSE Ones16,
     len   |-> CASE written >= 8 -> built.len
                 [] written = 7 -> (Ones32 - Ones16) + (built.len % (Ones16 + 1))
                 [] written < 7 -> Ones32]

(* What may be read at a distance from the start of the slot: anything in  *)
(* the image's body and TLVs, but no field of its header is a TLV magic.   *)
Magics == {"image", "erased", "protected", "tlv"}
ProtectedAt == built.hdr + built.len
MagicAt(d) ==
    CASE d >= SlotUnits -> Magics
      [] d < SlotUnits /\ d >= written -> {"erased"}
      [] d < written /\ d = TlvAt -> {"tlv"}
      [] d < written /\ d = ProtectedAt /\ d < TlvAt -> {"protected"}
      [] d < written /\ d < HeaderUnits -> {"image"}
      [] d < written /\ d >= HeaderUnits /\ d \notin {ProtectedAt, TlvAt} -> Magics

SizeAt(d) ==
    CASE d < SlotUnits /\ d >= written -> {Ones16}
      [] d < written /\ d = ProtectedAt + 1 /\ d < TlvAt -> {built.prot}
      [] OTHER -> {0, Ones16, built.prot}

InfoRead(d) == [magic : MagicAt(d), tot : SizeAt(d + 1)]

Init ==
    /\ built \in [hdr : Headers, len : Bodies, prot : Protected]
    /\ written \in 0..Total
    /\ size \in written..Total
    /\ pc = "header" /\ ih = NoHeader /\ decl_size = 0 /\ result = 0 /\ flash = "good"

Refuse == pc' = "done" /\ UNCHANGED result
ReadFails == Refuse /\ flash' = "bad" /\ UNCHANGED <<inputs, ih, decl_size>>

ReadHeader ==
    /\ pc = "header"
    /\ \/ /\ ih' = HeaderRead
          /\ pc' = "check"
          /\ UNCHANGED <<inputs, decl_size, result, flash>>
       \/ ReadFails

CheckHeaderExact ==  \* mutant of CheckHeader: the sum does not fit its type
    /\ pc = "check"
    /\ decl_size' = ih.len + ih.hdr + ih.prot
    /\ pc' = "tlv"
    /\ UNCHANGED <<inputs, ih, result, flash>>

CheckHeader ==
    /\ pc = "check"
    /\ \/ /\ size < HeaderUnits \/ ih.magic # "image"
          /\ Refuse /\ UNCHANGED decl_size
       \/ /\ size >= HeaderUnits /\ ih.magic = "image"
          /\ decl_size' = Wrap(ih.len + ih.hdr + ih.prot)
          /\ IF size < decl_size' \/ (ih.prot > 0 /\ ih.prot < Info)
             THEN Refuse
             ELSE /\ pc' = IF ih.prot > 0 THEN "protected" ELSE "tlv"
                  /\ UNCHANGED result
    /\ UNCHANGED <<inputs, ih, flash>>

ReadProtectedShort ==  \* mutant of ReadProtected: the header is not skipped
    /\ pc = "protected"
    /\ \E it \in InfoRead(ih.len) :
        IF it.magic # "protected" \/ it.tot # ih.prot THEN Refuse ELSE pc' = "tlv" /\ UNCHANGED result
    /\ UNCHANGED <<inputs, ih, decl_size, flash>>

ReadProtected ==
    /\ pc = "protected"
    /\ \/ /\ \E it \in InfoRead(Wrap(ih.len + ih.hdr)) :
                IF it.magic # "protected" \/ it.tot # ih.prot
                THEN Refuse
                ELSE pc' = "tlv" /\ UNCHANGED result
          /\ UNCHANGED <<inputs, ih, decl_size, flash>>
       \/ ReadFails

ReadTlvAny ==  \* mutant of ReadTlv: erased flash is taken for a TLV
    /\ pc = "tlv"
    /\ \E it \in InfoRead(decl_size) :
        IF it.magic = "image" THEN Refuse ELSE pc' = "done" /\ result' = 1
    /\ UNCHANGED <<inputs, ih, decl_size, flash>>

ReadTlv ==
    /\ pc = "tlv"
    /\ \/ /\ \E it \in InfoRead(decl_size) :
                IF it.magic # "tlv" THEN Refuse ELSE pc' = "done" /\ result' = 1
          /\ UNCHANGED <<inputs, ih, decl_size, flash>>
       \/ ReadFails

Next == ReadHeader \/ CheckHeader \/ ReadProtected \/ ReadTlv
Spec == Init /\ [][Next]_vars

-----------------------------------------------------------------------------
(* Properties                                                              *)

TypeOK ==
    /\ built \in [hdr : Nat, len : Nat, prot : Nat]
    /\ written \in 0..Total /\ size \in written..Total
    /\ pc \in {"header", "check", "protected", "tlv", "done"}
    /\ ih \in [magic : {"image", "erased"}, hdr : 0..Ones16, prot : 0..Ones16, len : 0..Ones32]
    /\ decl_size \in 0..Ones32
    /\ result \in {0, 1}
    /\ flash \in {"good", "bad"}

(* A download that stopped anywhere before the trailing TLVs is refused,   *)
(* whatever size the caller gives, even where the header is torn and the   *)
(* sum of its erased fields wraps to less than that size.                  *)
AcceptedIsWritten ==
    result = 1 => /\ written > TlvAt
                  /\ ih = [magic |-> "image", hdr |-> built.hdr, prot |-> built.prot, len |-> built.len]

(* A download that is complete and can be read is accepted, unless its     *)
(* protected TLVs are shorter than their own header.                       *)
WholeIsAccepted ==
    /\ pc = "done" /\ flash = "good" /\ written = Total
    /\ built.prot = 0 \/ built.prot >= Info
    => result = 1
=============================================================================
