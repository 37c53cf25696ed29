------------------------- MODULE VerifyImageProofs -------------------------
(***************************************************************************)
(* Proofs about VerifyImage, for every size of header, slot and image that *)
(* fits, every width of the fields and every point where a download stops. *)
(***************************************************************************)
EXTENDS VerifyImage, TLAPS

USE HeaderAssumption, WidthAssumption, PartsAssumption DEF Info

(* What a sum of the header's fields wraps to.                             *)
LEMMA WrapSum ==
    ASSUME NEW n \in Nat, n <= 2 * Ones32 + 1
    PROVE  Wrap(n) = IF n <= Ones32 THEN n ELSE n - (Ones32 + 1)
<1>1. CASE n <= Ones32
  BY <1>1 DEF Wrap
<1>2. CASE n > Ones32
  BY <1>2 DEF Wrap
<1> QED
  BY <1>1, <1>2
(* The built image, and what is known of the reading of it at each step.   *)
BuiltInv ==
    /\ built \in [hdr : Headers, len : Bodies, prot : Protected]
    /\ written \in 0..Total /\ size \in written..Total

VerifyInv ==
    /\ TypeOK
    /\ BuiltInv
    /\ pc \in {"check", "protected", "tlv"} => ih = HeaderRead
    /\ pc \in {"protected", "tlv"} =>
        ih.magic = "image" /\ decl_size = Wrap(ih.len + ih.hdr + ih.prot)
    /\ pc = "protected" => ih.prot >= Info
    /\ pc \in {"protected", "tlv"} => size >= decl_size
    /\ pc # "done" => result = 0 /\ flash = "good"
    /\ AcceptedIsWritten
    /\ WholeIsAccepted

(* The parts of a built image fit the slot and their fields.               *)
LEMMA BuiltSizes ==
    ASSUME BuiltInv
    PROVE  /\ built = [hdr |-> built.hdr, len |-> built.len, prot |-> built.prot]
           /\ built.hdr \in Nat /\ built.hdr >= HeaderUnits /\ built.hdr < Ones16
           /\ built.len \in Nat /\ built.len >= 1
           /\ built.prot \in Nat /\ built.prot < Ones16
           /\ TlvAt \in Nat /\ TlvAt = built.hdr + built.len + built.prot
           /\ ProtectedAt \in Nat /\ ProtectedAt = built.hdr + built.len
           /\ Total \in Nat /\ Total >= TlvAt + Info /\ Total <= SlotUnits /\ TlvAt > HeaderUnits
           /\ written \in Nat /\ written <= Total
           /\ size \in Nat /\ written <= size /\ size <= Total
<1>1. /\ built.hdr \in Headers /\ built.len \in Bodies /\ built.prot \in Protected
      /\ built = [hdr |-> built.hdr, len |-> built.len, prot |-> built.prot]
  BY DEF BuiltInv
<1>2. built.hdr \in Nat /\ built.hdr >= HeaderUnits /\ built.hdr < Ones16
  BY <1>1
<1>3. built.len \in Nat /\ built.len >= 1
  BY <1>1
<1>4. built.prot \in Nat /\ built.prot < Ones16
  BY <1>1
<1>5. built.hdr + built.len + built.prot + Tlvs <= SlotUnits
  BY <1>1
<1>6. /\ TlvAt = built.hdr + built.len + built.prot /\ Total = TlvAt + Tlvs
      /\ ProtectedAt = built.hdr + built.len
  BY DEF TlvAt, Total, ProtectedAt
<1> QED
  BY <1>1, <1>2, <1>3, <1>4, <1>5, <1>6 DEF BuiltInv

(* Whatever part of the header is erased, the place the code looks for the *)
(* trailing TLVs at is in the slot or far behind it, where no size argument *)
(* reaches; with the sizes there it is the right place.                    *)
LEMMA HeaderSum ==
    ASSUME BuiltInv
    PROVE  LET d == Wrap(HeaderRead.len + HeaderRead.hdr + HeaderRead.prot) IN
           /\ d \in 0..Ones32
           /\ d < SlotUnits \/ d > SlotUnits
           /\ written >= 8 => d = TlvAt /\ Wrap(HeaderRead.len + HeaderRead.hdr) = ProtectedAt
<1> DEFINE n == HeaderRead.len + HeaderRead.hdr + HeaderRead.prot
<1>1. CASE written >= 8
  <2>1. HeaderRead.len = built.len /\ HeaderRead.hdr = built.hdr /\ HeaderRead.prot = built.prot
    BY <1>1, BuiltSizes DEF HeaderRead
  <2>2. n = TlvAt /\ HeaderRead.len + HeaderRead.hdr = ProtectedAt
    BY <2>1, BuiltSizes
  <2>3. TlvAt <= Ones32 /\ ProtectedAt <= Ones32 /\ TlvAt < SlotUnits
    BY BuiltSizes
  <2>4. Wrap(n) = TlvAt /\ Wrap(HeaderRead.len + HeaderRead.hdr) = ProtectedAt
    BY <2>2, <2>3, WrapSum, BuiltSizes
  <2> QED
    BY <1>1, <2>3, <2>4, BuiltSizes
<1>2. CASE written = 7
  <2> DEFINE low == built.len % (Ones16 + 1)
  <2>1. low \in 0..Ones16
    BY BuiltSizes
  <2>2. n = (Ones32 - Ones16) + low + built.hdr + built.prot
    <3>1. /\ HeaderRead.len = (Ones32 - Ones16) + low
          /\ HeaderRead.hdr = built.hdr /\ HeaderRead.prot = built.prot
      BY <1>2, BuiltSizes DEF HeaderRead
    <3> QED
      BY <2>1, <3>1, BuiltSizes
  <2> HIDE DEF low
  <2>3. n \in Nat /\ n <= Ones32 + 2 * Ones16 /\ n >= Ones32 - Ones16
    BY <2>1, <2>2, BuiltSizes
  <2> HIDE DEF n
  <2>4. Wrap(n) = IF n <= Ones32 THEN n ELSE n - (Ones32 + 1)
    BY <2>3, WrapSum
  <2>5. Wrap(n) \in 0..Ones32 /\ (Wrap(n) < SlotUnits \/ Wrap(n) > SlotUnits)
    BY <2>3, <2>4
  <2> QED
    BY <1>2, <2>5 DEF n
<1>3. CASE written < 7
  <2>1. n = Ones32 + HeaderRead.hdr + HeaderRead.prot
    BY <1>3, BuiltSizes DEF HeaderRead
  <2>2. HeaderRead.hdr \in 1..Ones16 /\ HeaderRead.prot \in 0..Ones16
    BY BuiltSizes DEF HeaderRead
  <2>3. Wrap(n) = HeaderRead.hdr + HeaderRead.prot - 1
    BY <2>1, <2>2, WrapSum
  <2>4. Wrap(n) \in 0..Ones32 /\ Wrap(n) < SlotUnits
    BY <2>2, <2>3
  <2> QED
    BY <1>3, <2>4, BuiltSizes
<1> QED
  BY <1>1, <1>2, <1>3, BuiltSizes

(* With a torn header no TLV magic is read inside the slot, and with a     *)
(* whole one that of the trailing TLVs is, where it was written.           *)
LEMMA TlvOnlyAtEnd ==
    ASSUME BuiltInv, NEW d \in Nat, d < SlotUnits, written < 8 \/ d = TlvAt
    PROVE  \A it \in InfoRead(d) :
            /\ it.magic = "tlv" => d = TlvAt /\ written > TlvAt
            /\ d = TlvAt /\ written = Total => it.magic = "tlv"
<1> TAKE it \in InfoRead(d)
<1>1. it.magic \in MagicAt(d)
  BY DEF InfoRead
<1>2. CASE d >= written
  BY <1>1, <1>2, BuiltSizes DEF MagicAt
<1>3. CASE d < written /\ d = TlvAt
  BY <1>1, <1>3, BuiltSizes DEF MagicAt
<1>4. CASE d < written /\ d # TlvAt
  <2>1. MagicAt(d) = {"image"}
    BY <1>4, BuiltSizes DEF MagicAt
  <2> QED
    BY <1>1, <1>4, <2>1
<1> QED
  BY <1>2, <1>3, <1>4, BuiltSizes

(* Where a whole image has its protected TLVs, they are read.              *)
LEMMA ProtectedThere ==
    ASSUME BuiltInv, built.prot >= Info, written = Total, NEW it \in InfoRead(ProtectedAt)
    PROVE  it.magic = "protected" /\ it.tot = built.prot
<1>1. /\ ProtectedAt \in Nat /\ ProtectedAt >= HeaderUnits /\ ProtectedAt + 1 < TlvAt /\ TlvAt < written
      /\ ProtectedAt < SlotUnits /\ ProtectedAt + 1 < SlotUnits
      /\ written \in Nat /\ TlvAt \in Nat
  BY BuiltSizes
<1>2. MagicAt(ProtectedAt) = {"protected"}
  BY <1>1 DEF MagicAt
<1>3. SizeAt(ProtectedAt + 1) = {built.prot}
  BY <1>1 DEF SizeAt
<1> QED
  BY <1>2, <1>3 DEF InfoRead

(* Init establishes the invariant.                                         *)
LEMMA InitVerifyInv == Init => VerifyInv
<1> SUFFICES ASSUME Init PROVE VerifyInv
  OBVIOUS
<1>1. BuiltInv
  BY DEF Init, BuiltInv
<1>2. built \in [hdr : Nat, len : Nat, prot : Nat]
  BY <1>1, BuiltSizes
<1>3. ih \in [magic : {"image", "erased"}, hdr : 0..Ones16, prot : 0..Ones16, len : 0..Ones32]
  BY DEF Init, NoHeader
<1>4. TypeOK
  BY <1>1, <1>2, <1>3 DEF Init, TypeOK, BuiltInv
<1> QED
  BY <1>1, <1>4 DEF Init, VerifyInv, AcceptedIsWritten, WholeIsAccepted
(* An image that a download made whole, with protected TLVs of a size that *)
(* they can have.                                                          *)
Whole == written = Total /\ (built.prot = 0 \/ built.prot >= Info)

(* A refusal leaves the result 0; it is right unless the image is whole    *)
(* and no read failed.                                                     *)
LEMMA RefuseInv ==
    ASSUME VerifyInv, pc # "done", Refuse, UNCHANGED <<inputs, ih>>,
           decl_size' \in 0..Ones32, flash' \in {"good", "bad"},
           flash' = "bad" \/ ~Whole
    PROVE  VerifyInv'
<1>1. Total' = Total /\ BuiltInv'
  BY DEF VerifyInv, BuiltInv, Total, TlvAt, inputs
<1>2. TypeOK'
  BY <1>1 DEF VerifyInv, TypeOK, BuiltInv, Refuse, inputs
<1> QED
  BY <1>1, <1>2 DEF VerifyInv, AcceptedIsWritten, WholeIsAccepted, Whole, Refuse, inputs

(* A read that returns an error.                                           *)
LEMMA ReadFailsInv == VerifyInv /\ pc # "done" /\ ReadFails => VerifyInv'
<1> SUFFICES ASSUME VerifyInv, pc # "done", ReadFails PROVE VerifyInv'
  OBVIOUS
<1> QED
  BY RefuseInv DEF ReadFails, VerifyInv, TypeOK

(* Reading the header.                                                     *)
LEMMA ReadHeaderInv == VerifyInv /\ ReadHeader => VerifyInv'
<1> SUFFICES ASSUME VerifyInv, ReadHeader, ~ReadFails PROVE VerifyInv'
  BY ReadFailsInv DEF ReadHeader
<1>1. Total' = Total /\ HeaderRead' = HeaderRead /\ BuiltInv'
  BY DEF VerifyInv, BuiltInv, ReadHeader, Total, TlvAt, HeaderRead, inputs
<1>2. HeaderRead \in [magic : {"image", "erased"}, hdr : 0..Ones16, prot : 0..Ones16, len : 0..Ones32]
  <2>1. built.len % (Ones16 + 1) \in 0..Ones16
    BY BuiltSizes DEF VerifyInv
  <2>2. HeaderRead.len \in 0..Ones32
    BY <2>1, BuiltSizes DEF VerifyInv, HeaderRead
  <2> QED
    BY <2>2, BuiltSizes DEF VerifyInv, HeaderRead
<1>3. TypeOK'
  BY <1>1, <1>2 DEF VerifyInv, TypeOK, BuiltInv, ReadHeader, inputs
<1> QED
  BY <1>1, <1>3 DEF VerifyInv, AcceptedIsWritten, WholeIsAccepted, ReadHeader, inputs, TypeOK

(* The checks on the header: those of a whole image pass.                  *)
LEMMA CheckHeaderInv == VerifyInv /\ CheckHeader => VerifyInv'
<1> SUFFICES ASSUME VerifyInv, CheckHeader PROVE VerifyInv'
  OBVIOUS
<1> DEFINE d == Wrap(ih.len + ih.hdr + ih.prot)
<1>1. BuiltInv /\ ih = HeaderRead /\ flash = "good" /\ pc = "check" /\ result = 0
  BY DEF VerifyInv, CheckHeader
<1>2. d \in 0..Ones32 /\ (written >= 8 => d = TlvAt)
  BY <1>1, HeaderSum
<1>3. decl_size \in 0..Ones32 /\ size \in Int /\ d \in Int
  BY <1>1, <1>2, BuiltSizes DEF VerifyInv, TypeOK
<1>4. CASE size < HeaderUnits \/ ih.magic # "image"
  <2>1. ~Whole
    BY <1>1, <1>4, BuiltSizes DEF HeaderRead, Whole
  <2> QED
    BY <1>1, <1>3, <1>4, <2>1, RefuseInv DEF CheckHeader
<1>5. CASE size >= HeaderUnits /\ ih.magic = "image" /\ (size < d \/ (ih.prot > 0 /\ ih.prot < Info))
  <2>1. ~Whole
    BY <1>1, <1>2, <1>5, BuiltSizes DEF HeaderRead, Whole
  <2>2. decl_size' = d /\ Refuse /\ UNCHANGED <<inputs, ih, flash>>
    BY <1>3, <1>5 DEF CheckHeader
  <2> QED
    BY <1>1, <1>2, <2>1, <2>2, RefuseInv
<1>6. CASE size >= HeaderUnits /\ ih.magic = "image" /\ ~(size < d \/ (ih.prot > 0 /\ ih.prot < Info))
  <2>1. /\ decl_size' = d /\ pc' \in {"protected", "tlv"} /\ (pc' = "protected" => ih.prot >= Info)
        /\ size >= d /\ UNCHANGED <<inputs, ih, result, flash>>
    <3>1. ih.prot \in Nat
      BY DEF VerifyInv, TypeOK
    <3> QED
      BY <1>3, <1>6, <3>1 DEF CheckHeader
  <2>2. Total' = Total /\ HeaderRead' = HeaderRead /\ BuiltInv'
    BY <1>1, <2>1 DEF BuiltInv, Total, TlvAt, HeaderRead, inputs
  <2>3. TypeOK'
    BY <1>2, <2>1, <2>2 DEF VerifyInv, TypeOK, BuiltInv, inputs
  <2>4. decl_size' = Wrap(ih.len + ih.hdr + ih.prot)'
    BY <2>1 DEF Wrap
  <2> QED
    BY <1>1, <1>6, <2>1, <2>2, <2>3, <2>4 DEF VerifyInv, AcceptedIsWritten, WholeIsAccepted, inputs
<1> QED
  BY <1>4, <1>5, <1>6, <1>1 DEF VerifyInv, TypeOK, BuiltInv, CheckHeader

(* What is read of the protected TLVs of a whole image is what the header  *)
(* says of them.                                                           *)
LEMMA ReadProtectedInv == VerifyInv /\ ReadProtected => VerifyInv'
<1> SUFFICES ASSUME VerifyInv, ReadProtected, ~ReadFails PROVE VerifyInv'
  BY ReadFailsInv DEF ReadProtected
<1> DEFINE d == Wrap(ih.len + ih.hdr)
<1>1. BuiltInv /\ ih = HeaderRead /\ flash = "good" /\ pc = "protected" /\ result = 0
  BY DEF VerifyInv, ReadProtected
<1>2. PICK it \in InfoRead(d) :
        IF it.magic # "protected" \/ it.tot # ih.prot THEN Refuse ELSE pc' = "tlv" /\ UNCHANGED result
  BY DEF ReadProtected
<1>3. UNCHANGED <<inputs, ih, decl_size, flash>>
  BY DEF ReadProtected
<1>4. CASE it.magic # "protected" \/ it.tot # ih.prot
  <2>1. ~Whole
    <3> SUFFICES ASSUME Whole PROVE FALSE
      OBVIOUS
    <3>1. written = Total /\ written >= 8
      BY <1>1, BuiltSizes DEF Whole
    <3>2. d = ProtectedAt /\ ih.prot = built.prot
      BY <1>1, <3>1, HeaderSum, BuiltSizes DEF HeaderRead
    <3>3. built.prot >= Info
      BY <1>1, <3>2 DEF VerifyInv
    <3> QED
      BY <1>1, <1>2, <1>4, <3>1, <3>2, <3>3, ProtectedThere
  <2> QED
    BY <1>1, <1>2, <1>3, <1>4, <2>1, RefuseInv DEF VerifyInv, TypeOK
<1>5. CASE ~(it.magic # "protected" \/ it.tot # ih.prot)
  <2>1. pc' = "tlv" /\ UNCHANGED result
    BY <1>2, <1>5
  <2>2. Total' = Total /\ HeaderRead' = HeaderRead /\ BuiltInv'
    BY <1>1, <1>3 DEF BuiltInv, Total, TlvAt, HeaderRead, inputs
  <2>3. TypeOK'
    BY <1>3, <2>1, <2>2 DEF VerifyInv, TypeOK, BuiltInv, inputs
  <2>4. Wrap(ih.len + ih.hdr + ih.prot)' = Wrap(ih.len + ih.hdr + ih.prot)
    BY <1>3 DEF Wrap
  <2> QED
    BY <1>1, <1>3, <2>1, <2>2, <2>3, <2>4 DEF VerifyInv, AcceptedIsWritten, WholeIsAccepted, inputs
<1> QED
  BY <1>4, <1>5

(* The trailing TLVs: reading their magic means that the download got      *)
(* there, and a whole image has it.                                        *)
LEMMA ReadTlvInv == VerifyInv /\ ReadTlv => VerifyInv'
<1> SUFFICES ASSUME VerifyInv, ReadTlv, ~ReadFails PROVE VerifyInv'
  BY ReadFailsInv DEF ReadTlv
<1>1. BuiltInv /\ ih = HeaderRead /\ flash = "good" /\ pc = "tlv" /\ result = 0 /\ ih.magic = "image"
  BY DEF VerifyInv, ReadTlv
<1>2. PICK it \in InfoRead(decl_size) :
        IF it.magic # "tlv" THEN Refuse ELSE pc' = "done" /\ result' = 1
  BY DEF ReadTlv
<1>3. UNCHANGED <<inputs, ih, decl_size, flash>>
  BY DEF ReadTlv
<1>4. /\ decl_size \in Nat /\ decl_size < SlotUnits
      /\ written < 8 \/ decl_size = TlvAt
  BY <1>1, HeaderSum, BuiltSizes DEF VerifyInv
<1>5. CASE it.magic # "tlv"
  <2>1. ~Whole
    BY <1>1, <1>2, <1>4, <1>5, BuiltSizes, TlvOnlyAtEnd DEF Whole
  <2> QED
    BY <1>1, <1>2, <1>3, <1>5, <2>1, RefuseInv DEF VerifyInv, TypeOK
<1>6. CASE it.magic = "tlv"
  <2>1. pc' = "done" /\ result' = 1
    BY <1>2, <1>6
  <2>2. Total' = Total /\ TlvAt' = TlvAt /\ BuiltInv'
    BY <1>1, <1>3 DEF BuiltInv, Total, TlvAt, inputs
  <2>3. TypeOK'
    BY <1>3, <2>1, <2>2 DEF VerifyInv, TypeOK, BuiltInv, inputs
  <2>4. written > TlvAt
    BY <1>1, <1>2, <1>4, <1>6, TlvOnlyAtEnd
  <2>5. ih = [magic |-> "image", hdr |-> built.hdr, prot |-> built.prot, len |-> built.len]
    BY <1>1, <2>4, BuiltSizes DEF HeaderRead
  <2>6. AcceptedIsWritten'
    BY <1>3, <2>2, <2>4, <2>5 DEF AcceptedIsWritten, inputs
  <2> QED
    BY <2>1, <2>2, <2>3, <2>6 DEF VerifyInv, WholeIsAccepted
<1> QED
  BY <1>5, <1>6

(* VerifyInv is an invariant of bl_verify_image.                           *)
THEOREM VerifyInvariant == Spec => []VerifyInv
<1>1. VerifyInv /\ [Next]_vars => VerifyInv'
  <2> SUFFICES ASSUME VerifyInv, [Next]_vars PROVE VerifyInv'
    OBVIOUS
  <2>1. CASE UNCHANGED vars
    BY <2>1 DEF VerifyInv, TypeOK, BuiltInv, AcceptedIsWritten, WholeIsAccepted, HeaderRead,
       Total, TlvAt, Wrap, vars
  <2> QED
    BY <2>1, ReadHeaderInv, CheckHeaderInv, ReadProtectedInv, ReadTlvInv DEF Next
<1> QED
  BY <1>1, InitVerifyInv, PTL DEF Spec

(* The variables of bl_verify_image keep their types, decl_size the width  *)
(* of its field among them, whatever the header says.                      *)
THEOREM TypeCorrect == Spec => []TypeOK
<1>1. VerifyInv => TypeOK
  BY DEF VerifyInv
<1> QED
  BY <1>1, VerifyInvariant, PTL

(* A download that was interrupted before the trailing TLVs is never       *)
(* accepted.                                                               *)
THEOREM OnlyWholeAccepted == Spec => []AcceptedIsWritten
  BY VerifyInvariant, PTL DEF VerifyInv

(* A complete one that can be read always is, with protected TLVs of a     *)
(* possible size or none.                                                  *)
THEOREM EveryWholeAccepted == Spec => []WholeIsAccepted
  BY VerifyInvariant, PTL DEF VerifyInv

=============================================================================
