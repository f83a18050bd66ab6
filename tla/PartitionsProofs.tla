-------------------------- MODULE PartitionsProofs --------------------------
(***************************************************************************)
(* Proofs about Partitions, for words and sectors of every size.  Inv says *)
(* of every entry listed and of the view what the arithmetic that made     *)
(* them has done to the numbers on the device.                             *)
(***************************************************************************)
EXTENDS Partitions, FiniteSetTheorems, TLAPS

(* Wrapping gives a u64 and leaves a u64 as it is.                         *)
LEMMA WrappedProperties ==
  ASSUME NEW n \in Int
  PROVE  /\ Wrapped(n) \in U64
         /\ n \in U64 => Wrapped(n) = n
<1>1. Word \in Nat \ {0}
  BY HalfAssumption DEF Word
<1>2. QED
  BY <1>1 DEF Wrapped, U64

LEMMA WrappedU64 ==
  ASSUME NEW n \in U64
  PROVE  Wrapped(n) = n
<1>1. n \in Int
  BY DEF U64
<1>2. QED
  BY <1>1, WrappedProperties

LEMMA U64IsNat == U64 \subseteq Nat /\ Word \in Nat /\ SectorSize \in Nat \ {0}
  BY HalfAssumption, DeviceAssumption DEF U64, Word

LEMMA RequestIsNat ==
  ASSUME NEW offset, NEW len, <<offset, len>> \in U64 \X (0..(Half - 1))
  PROVE  offset \in Nat /\ len \in Nat
<1>1. offset \in U64 /\ len \in 0..(Half - 1)
  OBVIOUS
<1>2. QED
  BY <1>1, U64IsNat, HalfAssumption

LEMMA ProductIsNat ==
  ASSUME NEW a \in Nat, NEW b \in Nat
  PROVE  a * b \in Nat
  OBVIOUS

LEMMA ProductOfSum ==
  ASSUME NEW a \in Nat, NEW b \in Nat, NEW c \in Nat
  PROVE  (a + b) * c = a * c + b * c
  OBVIOUS

LEMMA ProductIsLarger ==
  ASSUME NEW a \in Nat, NEW b \in Nat \ {0}
  PROVE  a <= a * b
  OBVIOUS

-----------------------------------------------------------------------------
(* What is known of an entry and of a view, in a build that checks and in  *)
(* one that wraps.                                                         *)

EntryOK(e) ==
  /\ e \in Entry
  /\ e.sector_count = Wrapped(e.end - e.start_lba)
  /\ checked => e.start_lba + e.sector_count = e.end

ViewOK(v) ==
  /\ v \in View
  /\ EntryOK(v.entry)
  /\ v.offset = Wrapped(StartOffset(v.entry))
  /\ v.size = Wrapped(SizeBytes(v.entry))
  /\ checked => v.offset = StartOffset(v.entry) /\ v.size = SizeBytes(v.entry)

AccessOK(r) ==
  /\ view # NoView
  /\ <<r.offset, r.len>> \in U64 \X (0..(Half - 1))
  /\ Fits(r.offset, r.len)
  /\ r.at = Wrapped(view.offset + r.offset)
  /\ checked => /\ r.offset + r.len \in U64
                /\ r.at = view.offset + r.offset

DeviceOK == header \in Header /\ array \in EntryArray /\ mbr \in Mbr

CallOK(c) == c.at = "entries" => c.header \in Header

ReturnOK(r) ==
  /\ r.kind = "list" => \A e \in r.list : EntryOK(e)
  /\ r.kind = "access" => AccessOK(r)

Inv ==
  /\ DeviceOK
  /\ checked \in BOOLEAN /\ nested \in BOOLEAN /\ quiet \in BOOLEAN
  /\ CallOK(call)
  /\ ReturnOK(returned)
  /\ view # NoView => ViewOK(view)

LEMMA InvImpliesTypeOK == Inv => PartitionsTypeOK
  BY DEF Inv, PartitionsTypeOK, DeviceOK, CallOK, ReturnOK, EntryOK, ViewOK

-----------------------------------------------------------------------------
(* Entries.                                                                *)

LEMMA EntryIndexType ==
  ASSUME NEW slots, NEW n \in Nat, DOMAIN slots = 1..n, NEW i
  PROVE  EntryIndex(slots, i) \in Nat
<1>1. {j \in Used(slots) : j < i} \subseteq 1..n
  BY DEF Used
<1>2. IsFiniteSet(1..n)
  BY FS_Interval
<1>3. IsFiniteSet({j \in Used(slots) : j < i})
  BY <1>1, <1>2, FS_Subset
<1>4. QED
  BY <1>3, FS_CardinalityType DEF EntryIndex

LEMMA GptEntriesOK ==
  ASSUME NEW n \in Nat, NEW slots \in [1..n -> Slot], NEW h,
         ~ \E i \in DOMAIN slots : SlotPanics(h, slots[i])
  PROVE  \A e \in GptEntries(slots) : EntryOK(e)
<1> SUFFICES ASSUME NEW i \in Used(slots)
             PROVE  EntryOK([index        |-> EntryIndex(slots, i),
                             start_lba    |-> slots[i].first,
                             sector_count |-> Wrapped(SectorCount(slots[i])),
                             type_id      |-> slots[i].type,
                             end          |-> slots[i].last + 1])
  BY DEF GptEntries
<1> DEFINE slot == slots[i]
<1>1. i \in 1..n /\ slot \in Slot /\ slot.type # Unused /\ ~ SlotPanics(h, slot)
  BY DEF Used
<1>2. slot.first \in Nat /\ slot.last \in Nat /\ slot.first \in U64 /\ slot.type \in Types
  BY <1>1, U64IsNat DEF Slot
<1>3. EntryIndex(slots, i) \in Nat
  BY EntryIndexType
<1> HIDE DEF slot
<1>4. SectorCount(slot) \in Int /\ SectorCount(slot) = slot.last + 1 - slot.first
  BY <1>2 DEF SectorCount
<1>5. /\ Wrapped(SectorCount(slot)) \in U64
      /\ SectorCount(slot) \in U64 => Wrapped(SectorCount(slot)) = SectorCount(slot)
  BY <1>4, WrappedProperties
<1>6. checked => SectorCount(slot) \in U64
  BY <1>1 DEF SlotPanics, Overflows
<1>7. checked => slot.first + Wrapped(SectorCount(slot)) = slot.last + 1
  BY <1>2, <1>4, <1>5, <1>6
<1>8. slot.last + 1 \in Nat
  BY <1>2
<1> DEFINE e == [index        |-> EntryIndex(slots, i),
                 start_lba    |-> slot.first,
                 sector_count |-> Wrapped(SectorCount(slot)),
                 type_id      |-> slot.type,
                 end          |-> slot.last + 1]
<1>9. e \in Entry
  BY <1>2, <1>3, <1>5, <1>8 DEF Entry
<1>10. e.sector_count = Wrapped(e.end - e.start_lba)
  <2>1. /\ e.end = slot.last + 1 /\ e.start_lba = slot.first
        /\ e.sector_count = Wrapped(SectorCount(slot))
    OBVIOUS
  <2> HIDE DEF e
  <2>2. e.end - e.start_lba = SectorCount(slot)
    BY <1>2, <1>4, <2>1
  <2>3. QED
    BY <2>1, <2>2
<1>11. checked => e.start_lba + e.sector_count = e.end
  BY <1>7
<1>12. QED
  BY <1>9, <1>10, <1>11 DEF EntryOK, slot

LEMMA MbrEntriesOK ==
  ASSUME NEW m \in Mbr
  PROVE  \A e \in MbrEntries(m) : EntryOK(e)
<1> SUFFICES ASSUME NEW i \in Used(m.slots)
             PROVE  EntryOK([index        |-> EntryIndex(m.slots, i),
                             start_lba    |-> m.slots[i].start,
                             sector_count |-> m.slots[i].count,
                             type_id      |-> m.slots[i].type,
                             end          |-> m.slots[i].start + m.slots[i].count])
  BY DEF MbrEntries
<1> DEFINE slot == m.slots[i]
<1>1. m.slots \in [1..4 -> MbrSlot]
  BY DEF Mbr
<1>2. slot \in MbrSlot /\ slot.type # Unused
  BY <1>1 DEF Used
<1>3. /\ slot.start \in Nat /\ slot.count \in Nat /\ slot.type \in Types
      /\ slot.start \in U64 /\ slot.count \in U64
  BY <1>2, U64IsNat DEF MbrSlot
<1>4. EntryIndex(m.slots, i) \in Nat
  BY <1>1, EntryIndexType
<1> HIDE DEF slot
<1>5. slot.start + slot.count - slot.start = slot.count
  BY <1>3
<1>6. Wrapped(slot.count) = slot.count
  BY <1>3, WrappedProperties
<1>7. slot.start + slot.count \in Nat
  BY <1>3
<1>8. QED
  BY <1>3, <1>4, <1>5, <1>6, <1>7 DEF EntryOK, Entry, slot

(* Whatever a read returns are slots. *)
LEMMA SlotReadsType ==
  ASSUME Inv, NEW h \in Header, NEW slots \in SlotReads(h)
  PROVE  h.num_entries \in Nat /\ slots \in [1..h.num_entries -> Slot]
<1> DEFINE n == h.num_entries
<1>1. n \in Nat
  BY DEF Header
<1>2. CASE ~ FindsArray(h)
  BY <1>1, <1>2, DeviceAssumption DEF SlotReads
<1>3. CASE FindsArray(h)
  <2> DEFINE whole == ArraySlots(h)
  <2>1. array.slots \in Seq(Slot) /\ n <= Len(array.slots)
    BY <1>3 DEF Inv, DeviceOK, EntryArray, FindsArray
  <2>2. whole \in [1..n -> Slot]
    <3>1. Len(whole) = n /\ \A i \in 1..n : whole[i] = array.slots[i]
      BY <1>1, <2>1 DEF ArraySlots
    <3>2. whole \in Seq(Slot)
      BY <1>1, <2>1 DEF ArraySlots
    <3>3. QED
      BY <3>1, <3>2
  <2>3. slots \in CutSlots(whole)
    BY <1>3 DEF SlotReads
  <2>4. EmptySlot \in Slot
    BY HalfAssumption DEF EmptySlot, Slot, U64, Word
  <2>5. ASSUME NEW i \in 1..n, NEW cut \in Slot
        PROVE  Cut(whole, i, cut) \in [1..n -> Slot]
    <3> HIDE DEF whole
    <3>1. \A j \in 1..n : Cut(whole, i, cut)[j] \in Slot
      BY <1>1, <2>2, <2>4, <2>5 DEF Cut
    <3>2. QED
      BY <2>2, <3>1 DEF Cut
  <2>6. ASSUME NEW i \in 1..n
        PROVE  /\ [whole[i] EXCEPT !.first = 0, !.last = 0] \in Slot
               /\ [whole[i] EXCEPT !.last = 0] \in Slot
    <3>1. whole[i] \in Slot /\ 0 \in U64
      BY <2>2, <2>6, HalfAssumption DEF U64, Word
    <3> HIDE DEF whole
    <3>2. QED
      BY <3>1 DEF Slot
  <2> HIDE DEF whole
  <2>7. CASE slots = whole
    BY <1>1, <2>2, <2>7
  <2>8. ASSUME NEW i \in 1..n,
               slots \in {Cut(whole, i, EmptySlot),
                         Cut(whole, i, [whole[i] EXCEPT !.first = 0, !.last = 0]),
                         Cut(whole, i, [whole[i] EXCEPT !.last = 0])}
        PROVE  slots \in [1..n -> Slot]
    BY <2>4, <2>5, <2>6, <2>8
  <2>9. DOMAIN whole = 1..n
    BY <2>2
  <2>10. QED
    BY <1>1, <2>3, <2>7, <2>8, <2>9 DEF CutSlots
<1>4. QED
  BY <1>1, <1>2, <1>3

-----------------------------------------------------------------------------
(* The steps.                                                              *)

(* A step of a call that changes neither the device nor the view. *)
LEMMA CallStep ==
  ASSUME Inv, UNCHANGED <<device, checked, view>>,
         nested' \in BOOLEAN, quiet' \in BOOLEAN, CallOK(call'), ReturnOK(returned')
  PROVE  Inv'
  BY DEF Inv, device, DeviceOK, CallOK, ReturnOK, AccessOK, EntryOK, ViewOK, Fits

LEMMA HeaderReadsType ==
  ASSUME Inv, NEW h \in HeaderReads
  PROVE  h \in Header
<1>1. 0 \in U64
  BY HalfAssumption DEF U64, Word
<1>2. header \in Header
  BY DEF Inv, DeviceOK
<1>3. /\ [header EXCEPT !.entry_size = 0] \in Header
      /\ [header EXCEPT !.entry_size = 0, !.num_entries = 0] \in Header
      /\ [header EXCEPT !.entry_size = 0, !.num_entries = 0, !.entries_lba = 0] \in Header
  BY <1>1, <1>2 DEF Header
<1>4. QED
  BY <1>2, <1>3 DEF HeaderReads

LEMMA ParseGptEntriesStep == Inv /\ ParseGptEntries => Inv'
<1> SUFFICES ASSUME Inv, ParseGptEntries PROVE Inv'
  OBVIOUS
<1>1. UNCHANGED <<device, checked, view>>
  BY DEF ParseGptEntries
<1>2. call.header \in Header
  BY DEF ParseGptEntries, Inv, CallOK
<1>3. CallOK(call') /\ ReturnOK(returned') /\ nested' = FALSE
  <2>1. CASE Return(Refused)
    BY <2>1 DEF Return, Refused, Idle, CallOK, ReturnOK
  <2>2. ASSUME NEW slots \in SlotReads(call.header), ParsesSlots(call.header, slots)
        PROVE  CallOK(call') /\ ReturnOK(returned') /\ nested' = FALSE
    <3>1. /\ call.header.num_entries \in Nat
          /\ slots \in [1..call.header.num_entries -> Slot]
      BY <1>2, SlotReadsType
    <3>2. CASE \E i \in DOMAIN slots : SlotPanics(call.header, slots[i])
      BY <2>2, <3>2 DEF ParsesSlots, Panic, Stopped, Nothing, CallOK, ReturnOK
    <3>3. CASE ~ \E i \in DOMAIN slots : SlotPanics(call.header, slots[i])
      <4>1. \A e \in GptEntries(slots) : EntryOK(e)
        BY <3>1, <3>3, GptEntriesOK
      <4>2. call' = Idle /\ returned' = Listed(GptEntries(slots)) /\ nested' = FALSE
        BY <2>2, <3>3 DEF ParsesSlots, Return
      <4>3. QED
        BY <4>1, <4>2 DEF Idle, Listed, CallOK, ReturnOK
    <3>4. QED
      BY <3>2, <3>3
  <2>3. QED
    BY <2>1, <2>2 DEF ParseGptEntries
<1>4. quiet' \in BOOLEAN
  BY Zenon DEF ParseGptEntries
<1>5. QED
  BY <1>1, <1>3, <1>4, CallStep

LEMMA ParseMbrStep == Inv /\ ParseMbr => Inv'
<1> SUFFICES ASSUME Inv, ParseMbr PROVE Inv'
  OBVIOUS
<1>1. UNCHANGED <<device, checked, view>> /\ quiet' \in BOOLEAN
  BY Zenon DEF ParseMbr
<1>2. CallOK(call') /\ ReturnOK(returned') /\ nested' = FALSE
  <2>1. CASE Return(Refused)
    BY <2>1 DEF Return, Refused, Idle, CallOK, ReturnOK
  <2>2. CASE Return(Listed(MbrEntries(mbr)))
    <3>1. \A e \in MbrEntries(mbr) : EntryOK(e)
      BY MbrEntriesOK DEF Inv, DeviceOK
    <3>2. QED
      BY <2>2, <3>1 DEF Return, Listed, Idle, CallOK, ReturnOK
  <2>3. QED
    BY <2>1, <2>2 DEF ParseMbr
<1>3. QED
  BY <1>1, <1>2, CallStep

LEMMA NewViewStep == Inv /\ NewView => Inv'
<1> SUFFICES ASSUME Inv, NewView PROVE Inv'
  OBVIOUS
<1>1. UNCHANGED <<device, checked>> /\ quiet' = FALSE
  BY DEF NewView
<1>2. PICK e \in returned.list :
        IF checked /\ Overflows({StartOffset(e), SizeBytes(e)})
          THEN Panic /\ UNCHANGED view
          ELSE /\ Return(Nothing)
               /\ view' = [offset |-> Wrapped(StartOffset(e)),
                           size   |-> Wrapped(SizeBytes(e)), entry |-> e]
  BY DEF NewView
<1>3. EntryOK(e)
  BY DEF NewView, Inv, ReturnOK
<1>4. CASE checked /\ Overflows({StartOffset(e), SizeBytes(e)})
  <2>1. Panic /\ UNCHANGED view
    BY <1>2, <1>4
  <2>2. QED
    BY <1>1, <2>1
       DEF Panic, Stopped, Nothing, Inv, device, DeviceOK, CallOK, ReturnOK, EntryOK, ViewOK
<1>5. CASE ~ (checked /\ Overflows({StartOffset(e), SizeBytes(e)}))
  <2>1. StartOffset(e) \in Nat /\ SizeBytes(e) \in Nat
    BY <1>3, U64IsNat, ProductIsNat DEF EntryOK, Entry, StartOffset, SizeBytes
  <2>2. /\ Wrapped(StartOffset(e)) \in U64 /\ Wrapped(SizeBytes(e)) \in U64
        /\ StartOffset(e) \in U64 => Wrapped(StartOffset(e)) = StartOffset(e)
        /\ SizeBytes(e) \in U64 => Wrapped(SizeBytes(e)) = SizeBytes(e)
    BY <2>1, WrappedProperties
  <2>3. checked => StartOffset(e) \in U64 /\ SizeBytes(e) \in U64
    BY <1>5 DEF Overflows
  <2>4. view' = [offset |-> Wrapped(StartOffset(e)),
                 size   |-> Wrapped(SizeBytes(e)), entry |-> e]
    BY <1>2, <1>5
  <2>5. ViewOK(view')
    BY <1>3, <2>2, <2>3, <2>4 DEF ViewOK, View, EntryOK
  <2>6. call' = Idle /\ returned' = Nothing /\ nested' = FALSE
    BY <1>2, <1>5 DEF Return
  <2>7. QED
    BY <1>1, <2>5, <2>6
       DEF Inv, device, DeviceOK, Idle, Nothing, CallOK, ReturnOK, EntryOK, ViewOK
<1>6. QED
  BY <1>4, <1>5

LEMMA AccessStep ==
  ASSUME Inv, NEW offset, NEW len, <<offset, len>> \in Requests, Access(offset, len)
  PROVE  Inv'
<1>1. UNCHANGED <<device, checked, view>> /\ quiet' = FALSE /\ view # NoView
  BY DEF Access
<1>2. <<offset, len>> \in U64 \X (0..(Half - 1))
  BY DeviceAssumption
<1>3. ViewOK(view)
  BY <1>1 DEF Inv
<1>4. view.offset + offset \in Int
  <2>1. view.offset \in Nat
    BY <1>3, U64IsNat DEF ViewOK, View
  <2>2. offset \in Nat
    BY <1>2, U64IsNat
  <2>3. QED
    BY <2>1, <2>2
<1>5. CASE Panic
  BY <1>1, <1>5
     DEF Panic, Stopped, Nothing, Inv, device, DeviceOK, CallOK, ReturnOK, EntryOK, ViewOK
<1>6. CASE Return(OutOfBounds(offset, len))
  BY <1>1, <1>6 DEF Return, Idle, OutOfBounds, Inv, device, DeviceOK, CallOK, ReturnOK,
                    EntryOK, ViewOK
<1>7. CASE /\ Fits(offset, len)
           /\ checked => offset + len \in U64 /\ view.offset + offset \in U64
           /\ Return(Accessed(offset, len, Wrapped(view.offset + offset)))
  <2>1. checked => Wrapped(view.offset + offset) = view.offset + offset
    BY <1>4, <1>7, WrappedProperties
  <2>2. AccessOK(Accessed(offset, len, Wrapped(view.offset + offset)))
    BY <1>1, <1>2, <1>7, <2>1 DEF AccessOK, Accessed
  <2>3. /\ call' = Idle /\ nested' = FALSE
        /\ returned' = Accessed(offset, len, Wrapped(view.offset + offset))
    BY <1>7 DEF Return
  <2>4. CallOK(call') /\ ReturnOK(returned')
    BY <2>2, <2>3 DEF Idle, CallOK, ReturnOK, Accessed
  <2>5. QED
    BY <1>1, <2>3, <2>4, CallStep
<1>8. QED
  BY <1>5, <1>6, <1>7 DEF Access, Overflows

LEMMA OtherSteps ==
  ASSUME Inv,
         \/ Rewrite \/ DetectPartitions \/ DetectGpt \/ DetectGptFaulty \/ DetectMbr \/ DetectMbrFaulty
         \/ ParseGptHeader \/ UNCHANGED vars
  PROVE  Inv'
<1>1. CASE Rewrite
  <2>1. DeviceOK'
    BY <1>1, DeviceAssumption DEF Rewrite, Inv, DeviceOK
  <2>2. QED
    BY <1>1, <2>1 DEF Rewrite, Inv, CallOK, ReturnOK, AccessOK, Fits, EntryOK, ViewOK
<1>2. CASE DetectPartitions \/ DetectGpt \/ DetectGptFaulty \/ DetectMbr \/ DetectMbrFaulty
  <2>1. UNCHANGED <<device, checked, view>> /\ quiet' \in BOOLEAN
    BY <1>2 DEF DetectPartitions, DetectGpt, DetectGptFaulty, DetectMbr, DetectMbrFaulty, Inv
  <2>2. \/ DetectPartitions
        \/ Continue(ReadsMbr)
        \/ \E s : \/ Return(Detected(s))
                  \/ Return(Listed({}))
                  \/ Continue(Parses(s))
    BY Zenon, <1>2 DEF DetectGpt, DetectGptFaulty, DetectMbr, DetectMbrFaulty, Found
  <2>3. CallOK(call') /\ ReturnOK(returned')
    BY <2>2 DEF DetectPartitions, Return, Continue, Detected, Listed, Nothing, Idle, Detects,
                ReadsMbr, Parses, CallOK, ReturnOK
  <2>4. nested' \in BOOLEAN
    BY Zenon, <2>2 DEF DetectPartitions, Return, Continue, Inv
  <2>5. QED
    BY <2>1, <2>3, <2>4, CallStep
<1>3. CASE ParseGptHeader
  <2>1. UNCHANGED <<device, checked, view>> /\ quiet' \in BOOLEAN
    BY Zenon, <1>3 DEF ParseGptHeader
  <2>2. \/ Panic
        \/ \E h \in HeaderReads : Continue(ReadsEntries(h))
        \/ Return(Refused)
    BY <1>3 DEF ParseGptHeader
  <2>3. \A h \in HeaderReads : h \in Header
    BY HeaderReadsType
  <2>4. CallOK(call') /\ ReturnOK(returned')
    BY <2>2, <2>3 DEF Panic, Continue, Return, Stopped, Nothing, ReadsEntries, Refused, Idle,
                      CallOK, ReturnOK
  <2>5. nested' \in BOOLEAN
    BY Zenon, <2>2 DEF Panic, Return, Continue, Inv
  <2>6. QED
    BY <2>1, <2>4, <2>5, CallStep
<1>4. CASE UNCHANGED vars
  BY <1>4 DEF vars, device, Inv, DeviceOK, CallOK, ReturnOK, AccessOK, Fits, EntryOK, ViewOK
<1>5. QED
  BY <1>1, <1>2, <1>3, <1>4

LEMMA InitInv == DeviceInit => Inv
<1> SUFFICES ASSUME DeviceInit PROVE Inv
  OBVIOUS
<1>1. DeviceOK
  BY DeviceAssumption DEF DeviceInit, DeviceOK
<1>2. checked \in BOOLEAN /\ nested \in BOOLEAN /\ quiet \in BOOLEAN
  BY Zenon, DeviceAssumption DEF DeviceInit
<1>3. CallOK(call) /\ ReturnOK(returned)
  BY DEF DeviceInit, Idle, Nothing, CallOK, ReturnOK
<1>4. view = NoView
  BY DEF DeviceInit
<1>5. QED
  BY <1>1, <1>2, <1>3, <1>4 DEF Inv

LEMMA InvStep == Inv /\ [DeviceNext]_vars => Inv'
<1> SUFFICES ASSUME Inv, [DeviceNext]_vars PROVE Inv'
  OBVIOUS
<1>1. ASSUME NEW request \in Requests, Access(request[1], request[2])
      PROVE  Inv'
  <2>1. request = <<request[1], request[2]>>
    BY DeviceAssumption
  <2>2. QED
    BY <1>1, <2>1, AccessStep
<1>2. QED
  BY <1>1, OtherSteps, ParseGptEntriesStep, ParseMbrStep, NewViewStep DEF DeviceNext

(* In every reachable state the numbers of entries and views are what their *)
(* sums and products, wrapped or not, have made of the table.              *)
THEOREM PartitionsInvariant == DeviceSpec => []Inv
  BY InitInv, InvStep, PTL DEF DeviceSpec

(* The entries and views the calls make have the types of their fields,    *)
(* however the table is cut off or mixed up by short reads and rewrites.   *)
THEOREM PartitionsTypeCorrect == DeviceSpec => []PartitionsTypeOK
  BY PartitionsInvariant, InvImpliesTypeOK, PTL

-----------------------------------------------------------------------------
(* Views.                                                                  *)

(* The view of an exact entry has the bytes of the entry. *)
LEMMA ExactView ==
  ASSUME NEW v, ViewOK(v), Exact(v.entry) \/ checked
  PROVE  /\ v.entry.start_lba \in Nat /\ v.entry.end \in Nat
         /\ v.entry.start_lba <= v.entry.end
         /\ v.offset = v.entry.start_lba * SectorSize
         /\ v.size = (v.entry.end - v.entry.start_lba) * SectorSize
         /\ v.offset + v.size = v.entry.end * SectorSize
         /\ v.offset \in Nat /\ v.size \in Nat
<1> DEFINE e == v.entry
           s == e.start_lba
           n == e.sector_count
<1>1. s \in Nat /\ n \in Nat /\ e.end \in Nat /\ SectorSize \in Nat \ {0}
  BY U64IsNat DEF ViewOK, EntryOK, Entry
<1>2. /\ n = Wrapped(e.end - s)
      /\ checked => s + n = e.end
      /\ v.offset = Wrapped(s * SectorSize) /\ v.size = Wrapped(n * SectorSize)
      /\ checked => v.offset = s * SectorSize /\ v.size = n * SectorSize
  BY DEF ViewOK, EntryOK, StartOffset, SizeBytes
<1> HIDE DEF s, n, e
<1>3. s + n = e.end /\ v.offset = s * SectorSize /\ v.size = n * SectorSize
  <2>1. CASE checked
    BY <1>2, <2>1
  <2>2. CASE Exact(e)
    <3>1. s < e.end /\ e.end * SectorSize \in U64
      BY <2>2 DEF Exact, s
    <3> DEFINE d == e.end - s
    <3>2. d \in Nat /\ s + d = e.end
      BY <1>1, <3>1
    <3> HIDE DEF d
    <3>3. s * SectorSize + d * SectorSize = e.end * SectorSize
      BY <1>1, <3>2, ProductOfSum
    <3>4. s * SectorSize \in Nat /\ d * SectorSize \in Nat
      BY <1>1, <3>2, ProductIsNat
    <3>5. s * SectorSize \in U64 /\ d * SectorSize \in U64
      BY <3>1, <3>3, <3>4, U64IsNat DEF U64
    <3>6. d \in U64
      BY <1>1, <3>2, <3>5, ProductIsLarger, U64IsNat DEF U64
    <3>7. n = d
      BY <1>2, <3>2, <3>6, WrappedProperties DEF d
    <3>8. QED
      BY <1>2, <3>2, <3>4, <3>5, <3>7, WrappedProperties
  <2>3. QED
    BY <2>1, <2>2 DEF e
<1>4. v.offset + v.size = e.end * SectorSize
  BY <1>1, <1>3, ProductOfSum
<1>5. n = e.end - s /\ s <= e.end
  BY <1>1, <1>3
<1>6. v.offset \in Nat /\ v.size \in Nat
  BY <1>1, <1>3, ProductIsNat
<1>7. QED
  BY <1>1, <1>3, <1>4, <1>5, <1>6 DEF e, s

LEMMA InvImpliesViewConfined == Inv => ViewConfined
<1> SUFFICES ASSUME Inv, returned.kind = "access",
                    \/ checked
                    \/ Exact(view.entry) /\ returned.offset + returned.len \in U64
             PROVE  Inside(returned)
  BY DEF ViewConfined
<1> DEFINE o == returned.offset
           n == returned.len
           e == view.entry
<1>1. ViewOK(view) /\ AccessOK(returned)
  BY DEF Inv, ReturnOK, AccessOK
<1>2. o \in Nat /\ n \in Nat
  <2>1. <<o, n>> \in U64 \X (0..(Half - 1))
    BY <1>1 DEF AccessOK
  <2>2. QED
    BY <2>1, RequestIsNat
<1>3. /\ e.start_lba \in Nat /\ e.end \in Nat
      /\ view.offset = e.start_lba * SectorSize
      /\ view.offset + view.size = e.end * SectorSize
      /\ view.offset \in Nat /\ view.size \in Nat
  BY <1>1, ExactView
<1>4. o + n \in U64
  BY <1>1 DEF AccessOK
<1>5. Wrapped(o + n) <= view.size /\ returned.at = Wrapped(view.offset + o)
  BY <1>1 DEF AccessOK, Fits
<1> HIDE DEF o, n, e
<1>6. o + n <= view.size
  <2>1. Wrapped(o + n) = o + n
    BY <1>2, <1>4, WrappedProperties
  <2>2. QED
    BY <1>5, <2>1
<1>7. returned.at = view.offset + o
  <2>1. CASE checked
    BY <1>1, <2>1 DEF AccessOK, o
  <2>2. CASE Exact(e)
    <3>1. e.end * SectorSize \in U64
      BY <2>2 DEF Exact
    <3>2. view.offset + o \in U64
      BY <1>2, <1>3, <1>6, <3>1, U64IsNat DEF U64
    <3>3. QED
      BY <1>5, <3>2, WrappedU64
  <2>3. QED
    BY <2>1, <2>2 DEF e
<1>8. /\ view.offset <= returned.at
      /\ returned.at + n <= view.offset + view.size
  BY <1>2, <1>3, <1>6, <1>7
<1>9. QED
  BY <1>3, <1>8 DEF Inside, e, n

(* A view never touches a byte outside its partition: with overflow checks  *)
(* for every table and request, without them for an exact entry and a       *)
(* request whose end a u64 can hold.                                        *)
THEOREM PartitionsViewConfined == DeviceSpec => []ViewConfined
  BY PartitionsInvariant, InvImpliesViewConfined, PTL

LEMMA ServedRequest ==
  ASSUME Inv, NEW offset, NEW len, <<offset, len>> \in Requests, Access(offset, len),
         Exact(view.entry),
         offset + len <= (view.entry.end - view.entry.start_lba) * SectorSize
  PROVE  returned' = Accessed(offset, len, view.entry.start_lba * SectorSize + offset)
<1> DEFINE e == view.entry
<1>1. ViewOK(view)
  BY DEF Access, Inv
<1>2. offset \in Nat /\ len \in Nat
  <2>1. <<offset, len>> \in U64 \X (0..(Half - 1))
    BY DeviceAssumption
  <2>2. QED
    BY <2>1, RequestIsNat
<1>3. /\ view.offset = e.start_lba * SectorSize
      /\ view.size = (e.end - e.start_lba) * SectorSize
      /\ view.offset + view.size = e.end * SectorSize
      /\ view.offset \in Nat /\ view.size \in Nat
  BY <1>1, ExactView
<1>4. e.end * SectorSize \in U64
  BY DEF Exact
<1>5. offset + len <= view.size
  BY <1>3
<1> HIDE DEF e
<1>6. offset + len \in U64 /\ view.offset + offset \in U64
  BY <1>2, <1>3, <1>4, <1>5, U64IsNat DEF U64
<1>7. Wrapped(offset + len) = offset + len /\ Wrapped(view.offset + offset) = view.offset + offset
  BY <1>6, WrappedU64
<1>8. Fits(offset, len)
  BY <1>5, <1>7 DEF Fits
<1>9. Return(Accessed(offset, len, Wrapped(view.offset + offset)))
  BY <1>6, <1>8 DEF Access, Overflows
<1>10. QED
  BY <1>3, <1>7, <1>9 DEF Return, e

(* A view serves every request inside an exact partition, at its place.    *)
THEOREM PartitionsViewServesAll == DeviceSpec => ViewServesAll
<1>1. ASSUME Inv, [DeviceNext]_vars
      PROVE  [\A request \in Requests :
                LET offset == request[1]
                    len == request[2]
                    e == view.entry
                    size == (e.end - e.start_lba) * SectorSize
                IN  Access(offset, len) /\ Exact(e) /\ offset + len <= size =>
                      returned' = Accessed(offset, len, e.start_lba * SectorSize + offset)]_vars
  <2>1. ASSUME NEW request \in Requests
        PROVE  request = <<request[1], request[2]>>
    BY DeviceAssumption
  <2>2. QED
    BY <1>1, <2>1, ServedRequest
<1>2. QED
  BY <1>1, PartitionsInvariant, PTL DEF DeviceSpec, ViewServesAll

-----------------------------------------------------------------------------
(* Detection.                                                              *)

(* What an undisturbed detection has found stays true until a parser of    *)
(* detect_partitions reads it again.                                       *)
DetectionInv ==
  /\ quiet =>
       /\ call = ReadsMbr => ~ header.signed
       /\ call = Parses("Gpt") => header.signed
       /\ call = Parses("Mbr") => mbr.signed /\ ~ header.signed
       /\ call.at = "entries" => header.signed /\ call.header = header
  /\ DetectionAgrees
  /\ DetectionLists

(* A partition table without entries has no entry of another kind.         *)
LEMMA NoEntriesNoPartitions ==
  ASSUME NEW m \in Mbr, ~ HasEntries(m)
  PROVE  MbrEntries(m) = {}
<1>1. \A i \in 1..4 : m.slots[i].type = Unused
  BY DEF HasEntries, EmptyMbrSlot
<1>2. Used(m.slots) = {}
  BY <1>1 DEF Used, Mbr
<1>3. QED
  BY <1>2 DEF MbrEntries

(* DetectionInv of a state that is not quiet says nothing. *)
LEMMA DetectionDisturbed ==
  ASSUME quiet' = FALSE
  PROVE  DetectionInv'
  BY DEF DetectionInv, DetectionAgrees, DetectionLists

(* What the detection finds is returned, or handed on to the right parser. *)
LEMMA FoundStep ==
  ASSUME Inv, UNCHANGED device, NEW s \in {"Gpt", "Mbr", "None"}, Found(s),
         s = "Gpt" => header.signed,
         s = "Mbr" => mbr.signed /\ HasEntries(mbr) /\ ~ header.signed,
         s = "None" => ~ header.signed /\ ~ (mbr.signed /\ HasEntries(mbr))
  PROVE  DetectionInv'
<1>1. header' = header /\ mbr' = mbr /\ MbrEntries(mbr') = MbrEntries(mbr)
  BY DEF device
<1>2. s = "None" => (mbr.signed => MbrEntries(mbr) = {})
  BY NoEntriesNoPartitions DEF Inv, DeviceOK
<1>3. CASE Return(Detected(s))
  <2>1. call' = Idle /\ returned'.kind = "scheme" /\ returned'.scheme = s
    BY <1>3 DEF Return, Detected
  <2>2. DetectionAgrees'
    BY <1>1, <1>2, <2>1 DEF DetectionAgrees
  <2>3. DetectionLists'
    BY <2>1 DEF DetectionLists
  <2>4. QED
    BY <2>1, <2>2, <2>3 DEF DetectionInv, Idle, ReadsMbr, Parses
<1>4. CASE s = "None" /\ Return(Listed({}))
  <2>1. call' = Idle /\ returned' = Listed({}) /\ returned'.kind = "list"
    BY <1>4 DEF Return, Listed
  <2>2. DetectionAgrees'
    BY <2>1 DEF DetectionAgrees
  <2>3. ~ header'.signed /\ (mbr'.signed => Listed(MbrEntries(mbr')) = Listed({}))
    BY <1>1, <1>2, <1>4
  <2>4. DetectionLists'
    BY <2>1, <2>3 DEF DetectionLists
  <2>5. QED
    BY <2>1, <2>2, <2>4 DEF DetectionInv, Idle, ReadsMbr, Parses
<1>5. CASE s # "None" /\ Continue(Parses(s))
  <2>1. call' = Parses(s) /\ returned'.kind = "nothing" /\ s \in {"Gpt", "Mbr"}
    BY <1>5 DEF Continue, Nothing
  <2>2. DetectionAgrees' /\ DetectionLists'
    BY <2>1 DEF DetectionAgrees, DetectionLists
  <2>3. QED
    BY <1>1, <2>1, <2>2 DEF DetectionInv, ReadsMbr, Parses
<1>6. QED
  BY <1>3, <1>4, <1>5 DEF Found

(* The header read again undisturbed is the header that was detected. *)
LEMMA ParseGptHeaderDetection ==
  ASSUME Inv, DetectionInv, ParseGptHeader, quiet'
  PROVE  DetectionInv'
<1>1. quiet /\ call = Parses("Gpt") /\ UNCHANGED <<header, array, mbr>>
  BY DEF ParseGptHeader, device
<1>2. header.signed
  BY <1>1 DEF DetectionInv
<1>3. PICK h \in HeaderReads : h = header /\ (Panic \/ Continue(ReadsEntries(h)))
  BY <1>2 DEF ParseGptHeader
<1>4. /\ returned'.kind = "nothing"
      /\ call' = Stopped \/ call' = ReadsEntries(header)
  BY <1>3 DEF Panic, Continue, Nothing
<1>5. DetectionAgrees' /\ DetectionLists'
  BY <1>4 DEF DetectionAgrees, DetectionLists
<1>6. QED
  BY <1>1, <1>2, <1>4, <1>5 DEF DetectionInv, Stopped, ReadsEntries, ReadsMbr, Parses

(* So are the entries, read whole.                                         *)
LEMMA ParseGptEntriesDetection ==
  ASSUME Inv, DetectionInv, ParseGptEntries, quiet'
  PROVE  DetectionInv'
<1>1. PICK slots \in SlotReads(call.header) :
        /\ ParsesSlots(call.header, slots)
        /\ quiet' = (quiet /\ (FindsArray(call.header) => slots = ArraySlots(call.header)))
  BY DEF ParseGptEntries
<1>2. quiet /\ (FindsArray(call.header) => slots = ArraySlots(call.header))
  BY <1>1
<1>3. header.signed /\ call.header = header
  BY <1>2 DEF DetectionInv, ParseGptEntries
<1>4. UNCHANGED <<header, array, mbr>>
  BY DEF ParseGptEntries, device
<1>5. FindsArray(header)' = FindsArray(header) /\ ArraySlots(header)' = ArraySlots(header)
  BY <1>4 DEF FindsArray, ArraySlots, EntriesOffset
<1>6. CASE Panic
  <2>1. call' = Stopped /\ returned'.kind = "nothing"
    BY <1>6 DEF Panic, Nothing
  <2>2. QED
    BY <2>1 DEF DetectionInv, DetectionAgrees, DetectionLists, Stopped, ReadsMbr, Parses
<1>7. CASE Return(Listed(GptEntries(slots)))
  <2>1. call' = Idle /\ returned' = Listed(GptEntries(slots)) /\ returned'.kind = "list"
    BY <1>7 DEF Return, Listed
  <2>2. DetectionAgrees'
    BY <2>1 DEF DetectionAgrees
  <2>3. FindsArray(header)' => returned' = Listed(GptEntries(ArraySlots(header)'))
    BY <1>2, <1>3, <1>5, <2>1
  <2>4. DetectionLists'
    BY <1>3, <1>4, <2>1, <2>3 DEF DetectionLists
  <2>5. QED
    BY <2>1, <2>2, <2>4 DEF DetectionInv, Idle, ReadsMbr, Parses
<1>8. QED
  BY <1>1, <1>6, <1>7 DEF ParsesSlots

(* And the partition table.                                                *)
LEMMA ParseMbrDetection ==
  ASSUME Inv, DetectionInv, ParseMbr, quiet'
  PROVE  DetectionInv'
<1>1. quiet /\ call = Parses("Mbr") /\ UNCHANGED <<header, mbr>>
  BY DEF ParseMbr, device
<1>2. mbr.signed /\ ~ header.signed
  BY <1>1 DEF DetectionInv
<1>3. Return(Listed(MbrEntries(mbr)))
  BY <1>2 DEF ParseMbr
<1>4. call' = Idle /\ returned' = Listed(MbrEntries(mbr)) /\ returned'.kind = "list"
  BY <1>3 DEF Return, Listed
<1>5. MbrEntries(mbr') = MbrEntries(mbr)
  BY <1>1
<1>6. DetectionAgrees' /\ DetectionLists'
  BY <1>1, <1>2, <1>4, <1>5 DEF DetectionAgrees, DetectionLists
<1>7. QED
  BY <1>4, <1>6 DEF DetectionInv, Idle, ReadsMbr, Parses

LEMMA DetectionStep == Inv /\ DetectionInv /\ [DeviceNext]_vars => DetectionInv'
<1> SUFFICES ASSUME Inv, DetectionInv, [DeviceNext]_vars PROVE DetectionInv'
  OBVIOUS
<1>1. CASE quiet' = FALSE
  BY <1>1, DetectionDisturbed
<1>2. CASE DetectGpt
  <2>1. CASE header.signed /\ Found("Gpt")
    BY <1>2, <2>1, FoundStep DEF DetectGpt
  <2>2. CASE ~ header.signed /\ Continue(ReadsMbr)
    <3>1. /\ call' = ReadsMbr /\ returned'.kind = "nothing"
          /\ ~ header'.signed
      BY <1>2, <2>2 DEF DetectGpt, device, Continue, Nothing
    <3>2. QED
      BY <3>1 DEF DetectionInv, DetectionAgrees, DetectionLists, ReadsMbr, Parses
  <2>3. QED
    BY <1>2, <2>1, <2>2 DEF DetectGpt
<1>3. CASE DetectMbr /\ quiet
  <2>1. UNCHANGED device /\ ~ header.signed
    BY <1>3 DEF DetectMbr, DetectionInv
  <2>2. CASE mbr.signed /\ HasEntries(mbr)
    <3>1. Found("Mbr")
      BY <1>3, <2>2 DEF DetectMbr
    <3>2. QED
      BY <2>1, <2>2, <3>1, FoundStep
  <2>3. CASE ~ (mbr.signed /\ HasEntries(mbr))
    <3>1. Found("None")
      BY <1>3, <2>3 DEF DetectMbr
    <3>2. QED
      BY <2>1, <2>3, <3>1, FoundStep
  <2>4. QED
    BY <2>2, <2>3
<1>4. CASE UNCHANGED vars
  BY <1>4 DEF vars, device, DetectionInv, DetectionAgrees, DetectionLists, FindsArray,
              ArraySlots, EntriesOffset
<1>5. CASE (ParseGptHeader \/ ParseGptEntries \/ ParseMbr) /\ quiet'
  BY <1>5, ParseGptHeaderDetection, ParseGptEntriesDetection, ParseMbrDetection
<1>6. CASE \/ Rewrite \/ DetectPartitions \/ DetectGptFaulty \/ DetectMbrFaulty
           \/ DetectMbr /\ ~ quiet
           \/ NewView
           \/ \E request \in Requests : Access(request[1], request[2])
  <2>1. quiet' = FALSE
    BY <1>6 DEF Rewrite, DetectPartitions, DetectGptFaulty, DetectMbr, DetectMbrFaulty,
                NewView, Access, Inv
  <2>2. QED
    BY <1>1, <2>1
<1>7. quiet' \in BOOLEAN
  BY InvStep DEF Inv
<1>8. QED
  BY <1>1, <1>2, <1>3, <1>4, <1>5, <1>6, <1>7 DEF DeviceNext

(* Without faults and rewrites the detected scheme is the one whose parser  *)
(* accepts the device, and "None" means that no parser lists a partition.   *)
THEOREM PartitionsDetectionAgrees == DeviceSpec => []DetectionAgrees
<1>1. DeviceInit => DetectionInv
  BY DEF DeviceInit, DetectionInv, DetectionAgrees, DetectionLists
<1>2. QED
  BY <1>1, DetectionStep, PartitionsInvariant, PTL DEF DeviceSpec, DetectionInv

(* Without faults and rewrites detect_partitions lists the one table that   *)
(* its own parser finds on the device.                                      *)
THEOREM PartitionsDetectionLists == DeviceSpec => []DetectionLists
<1>1. DeviceInit => DetectionInv
  BY DEF DeviceInit, DetectionInv, DetectionAgrees, DetectionLists
<1>2. QED
  BY <1>1, DetectionStep, PartitionsInvariant, PTL DEF DeviceSpec, DetectionInv

-----------------------------------------------------------------------------
(* The entries of a GPT.                                                   *)

(* How many of U lie in front of i.                                        *)
Before(U, i) == Cardinality({j \in U : j < i})

(* Counting what lies in front numbers a set of positions without a gap    *)
(* and without giving a number twice.                                      *)
LEMMA BeforeNumbers ==
  ASSUME NEW n \in Nat, NEW U \in SUBSET (1..n)
  PROVE  /\ IsFiniteSet(U) /\ Cardinality(U) \in Nat
         /\ \A i, k \in U : Before(U, i) = Before(U, k) => i = k
         /\ {Before(U, i) : i \in U} = 0..(Cardinality(U) - 1)
<1>1. IsFiniteSet(U) /\ Cardinality(U) \in Nat
  <2>1. IsFiniteSet(1..n)
    BY FS_Interval
  <2>2. IsFiniteSet(U)
    BY <2>1, FS_Subset
  <2>3. QED
    BY <2>2, FS_CardinalityType
<1>2. PICK c \in Nat : c = Cardinality(U)
  BY <1>1
<1>3. ASSUME NEW T, IsFiniteSet(T), NEW S \in SUBSET T, NEW x \in T, x \notin S
      PROVE  Cardinality(S) \in Nat /\ Cardinality(T) \in Nat /\ Cardinality(S) < Cardinality(T)
  <2>1. IsFiniteSet(S) /\ Cardinality(S) <= Cardinality(T)
        /\ (Cardinality(T) = Cardinality(S) => T = S)
    BY <1>3, FS_Subset
  <2>2. Cardinality(S) \in Nat /\ Cardinality(T) \in Nat
    BY <1>3, <2>1, FS_CardinalityType
  <2>3. T # S
    BY <1>3
  <2>4. QED
    BY <2>1, <2>2, <2>3
<1>4. ASSUME NEW i \in U
      PROVE  Before(U, i) \in 0..(c - 1)
  <2>1. {j \in U : j < i} \in SUBSET U /\ i \notin {j \in U : j < i}
    OBVIOUS
  <2>2. Cardinality({j \in U : j < i}) \in Nat /\ Cardinality({j \in U : j < i}) < Cardinality(U)
    BY <1>1, <1>3, <2>1
  <2>3. QED
    BY <1>2, <2>2 DEF Before
<1>5. ASSUME NEW i \in U, NEW k \in U, i < k
      PROVE  Before(U, i) # Before(U, k)
  <2> DEFINE S == {j \in U : j < i}
             T == {j \in U : j < k}
  <2>1. S \in SUBSET T /\ i \in T /\ i \notin S /\ T \in SUBSET U
    <3>1. \A j \in U : j \in Nat
      OBVIOUS
    <3>2. S \subseteq U /\ T \subseteq U /\ i \in T /\ i \notin S
      BY <1>5, <3>1
    <3>3. \A j \in U : j < i => j < k
      BY <1>5, <3>1
    <3>4. QED
      BY <3>2, <3>3
  <2>2. IsFiniteSet(T)
    BY <1>1, <2>1, FS_Subset
  <2>3. Before(U, i) = Cardinality(S) /\ Before(U, k) = Cardinality(T)
    BY DEF Before
  <2> HIDE DEF S, T
  <2>4. Cardinality(S) \in Nat /\ Cardinality(T) \in Nat /\ Cardinality(S) < Cardinality(T)
    BY <1>3, <2>1, <2>2
  <2>5. QED
    BY <2>3, <2>4
<1>6. \A i, k \in U : Before(U, i) = Before(U, k) => i = k
  BY <1>5
<1> DEFINE f == [i \in U |-> Before(U, i)]
<1>7. f \in Injection(U, 0..(c - 1))
  <2>1. f \in [U -> 0..(c - 1)]
    BY <1>4
  <2>2. \A i, k \in U : f[i] = f[k] => i = k
    BY <1>6
  <2> HIDE DEF f
  <2>3. QED
    BY <2>1, <2>2 DEF Injection, IsInjective
<1>8. IsFiniteSet(0..(c - 1)) /\ Cardinality(0..(c - 1)) = c
  BY FS_Interval
<1>9. f \in Surjection(U, 0..(c - 1))
  <2> HIDE DEF f
  <2>1. QED
    BY <1>2, <1>7, <1>8, FS_Injection
<1>10. \A r \in 0..(c - 1) : \E i \in U : Before(U, i) = r
  <2>1. \A r \in 0..(c - 1) : \E i \in U : f[i] = r
    <3> HIDE DEF f
    <3>1. QED
      BY <1>9 DEF Surjection
  <2>2. QED
    BY <2>1
<1>11. {Before(U, i) : i \in U} = 0..(c - 1)
  BY <1>4, <1>10
<1>12. QED
  BY <1>1, <1>2, <1>6, <1>11

(* The arithmetic of a valid entry neither panics nor wraps.               *)
LEMMA ValidSlot ==
  ASSUME NEW h, NEW slot \in Slot, h.entry_size \in Nat, h.entry_size >= 56,
         slot.type # Unused => /\ slot.first <= slot.last
                               /\ (slot.last + 1) * SectorSize \in U64
  PROVE  /\ ~ SlotPanics(h, slot)
         /\ slot.type # Unused =>
              /\ Wrapped(SectorCount(slot)) = SectorCount(slot)
              /\ slot.first + SectorCount(slot) = slot.last + 1
<1>1. slot.first \in Nat /\ slot.last \in Nat
  BY U64IsNat DEF Slot
<1>2. ASSUME slot.type # Unused
      PROVE  slot.last - slot.first \in U64 /\ SectorCount(slot) \in U64
  <2>1. slot.last + 1 \in Nat /\ slot.last + 1 <= (slot.last + 1) * SectorSize
    BY <1>1, U64IsNat, ProductIsLarger
  <2>2. (slot.last + 1) * SectorSize \in Nat /\ (slot.last + 1) * SectorSize < Word
    BY <1>2, U64IsNat DEF U64
  <2>3. slot.last + 1 < Word
    BY <2>1, <2>2, U64IsNat
  <2>4. QED
    BY <1>1, <1>2, <2>3, U64IsNat DEF SectorCount, U64
<1>3. slot.type # Unused => /\ Wrapped(SectorCount(slot)) = SectorCount(slot)
                            /\ slot.first + SectorCount(slot) = slot.last + 1
  <2>1. SectorCount(slot) = slot.last - slot.first + 1
    BY DEF SectorCount
  <2>2. QED
    BY <1>1, <1>2, <2>1, WrappedU64
<1>4. ~ SlotPanics(h, slot)
  BY <1>2 DEF SlotPanics, Overflows
<1>5. QED
  BY <1>3, <1>4

(* The second read of parse_gpt lists a valid table in full.               *)
LEMMA ValidGptStep ==
  ASSUME Inv, call.at = "entries",
         NEW h, h = call.header, NEW slots, slots = ArraySlots(h),
         FindsArray(h), ValidEntries(h, slots), ParsesSlots(h, slots),
         NEW list, list = returned'.list
  PROVE  /\ Cardinality(list) = Cardinality(Used(slots))
         /\ {e.index : e \in list} = 0..(Cardinality(list) - 1)
         /\ \A i \in Used(slots) : \E e \in list :
              IsEntryOf(e, slots[i], Cardinality({j \in Used(slots) : j < i}))
<1>1. h \in Header
  BY DEF Inv, CallOK
<1>2. slots \in SlotReads(h)
  BY DEF SlotReads, CutSlots
<1>3. PICK n \in Nat : slots \in [1..n -> Slot]
  BY <1>1, <1>2, SlotReadsType
<1> DEFINE U == Used(slots)
<1>4. U \in SUBSET (1..n) /\ \A i \in U : slots[i] \in Slot /\ slots[i].type # Unused
  BY <1>3 DEF Used
<1>5. /\ h.entry_size \in Nat /\ h.entry_size >= 56
      /\ \A i \in U : /\ slots[i].first <= slots[i].last
                       /\ (slots[i].last + 1) * SectorSize \in U64
  BY <1>1 DEF Header, ValidEntries
<1>6. ASSUME NEW i \in 1..n
      PROVE  /\ ~ SlotPanics(h, slots[i])
             /\ i \in U =>
                  /\ Wrapped(SectorCount(slots[i])) = SectorCount(slots[i])
                  /\ slots[i].first + SectorCount(slots[i]) = slots[i].last + 1
  <2>1. slots[i] \in Slot /\ (i \in U <=> slots[i].type # Unused)
    BY <1>3 DEF Used
  <2> HIDE DEF U
  <2>2. QED
    BY <1>5, <2>1, ValidSlot
<1>7. list = GptEntries(slots)
  <2>1. DOMAIN slots = 1..n
    BY <1>3
  <2>2. Return(Listed(GptEntries(slots)))
    BY <1>6, <2>1 DEF ParsesSlots
  <2>3. QED
    BY <2>2 DEF Return, Listed
<1> DEFINE E(i) == [index        |-> Before(U, i),
                    start_lba    |-> slots[i].first,
                    sector_count |-> Wrapped(SectorCount(slots[i])),
                    type_id      |-> slots[i].type,
                    end          |-> slots[i].last + 1]
<1>8. list = {E(i) : i \in U}
  BY <1>7 DEF GptEntries, EntryIndex, Before
<1>9. \A i : /\ E(i).index = Before(U, i)
             /\ E(i).start_lba = slots[i].first
             /\ E(i).sector_count = Wrapped(SectorCount(slots[i]))
             /\ E(i).type_id = slots[i].type
  OBVIOUS
<1> HIDE DEF U, E
<1>10. /\ IsFiniteSet(U) /\ Cardinality(U) \in Nat
       /\ \A i, k \in U : Before(U, i) = Before(U, k) => i = k
       /\ {Before(U, i) : i \in U} = 0..(Cardinality(U) - 1)
  BY <1>4, BeforeNumbers
<1>11. Cardinality(list) = Cardinality(U)
  <2> DEFINE f == [i \in U |-> E(i)]
  <2>1. f \in Bijection(U, list)
    <3>1. f \in [U -> list] /\ \A e \in list : \E i \in U : f[i] = e
      BY <1>8
    <3>2. \A i, k \in U : f[i] = f[k] => i = k
      BY <1>9, <1>10
    <3> HIDE DEF f
    <3>3. QED
      BY <3>1, <3>2 DEF Bijection, Injection, Surjection, IsInjective
  <2>2. QED
    BY <1>10, <2>1, FS_Bijection DEF ExistsBijection
<1>12. {e.index : e \in list} = {Before(U, i) : i \in U}
  BY <1>8, <1>9
<1>13. ASSUME NEW i \in U
       PROVE  \E e \in list : IsEntryOf(e, slots[i], Before(U, i))
  <2>1. E(i) \in list
    BY <1>8
  <2>2. IsEntryOf(E(i), slots[i], Before(U, i))
    BY <1>4, <1>6, <1>9 DEF IsEntryOf
  <2>3. QED
    BY <2>1, <2>2
<1>14. QED
  BY <1>10, <1>11, <1>12, <1>13 DEF U, Before

(* parse_gpt of a valid array, read whole, lists every entry in use once,  *)
(* with its sectors up to the last one, and numbers them without a gap,    *)
(* for arrays of every length and words of every size.                     *)
THEOREM PartitionsValidGptIsListed == DeviceSpec => ValidGptIsListed
<1>1. ASSUME Inv, [DeviceNext]_vars
      PROVE  [LET h == call.header
                  slots == ArraySlots(h)
                  list == returned'.list
              IN  /\ call.at = "entries"
                  /\ FindsArray(h) /\ ValidEntries(h, slots)
                  /\ ParsesSlots(h, slots)
                  => /\ Cardinality(list) = Cardinality(Used(slots))
                     /\ {e.index : e \in list} = 0..(Cardinality(list) - 1)
                     /\ \A i \in Used(slots) : \E e \in list :
                          IsEntryOf(e, slots[i], Cardinality({j \in Used(slots) : j < i}))]_vars
  BY <1>1, ValidGptStep
<1>2. QED
  BY <1>1, PartitionsInvariant, PTL DEF DeviceSpec, ValidGptIsListed
=============================================================================
