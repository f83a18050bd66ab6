----------------------------- MODULE Partitions -----------------------------
(***************************************************************************)
(* Partition tables and partition views of src/device.rs.  A kernel calls  *)
(* detect_partition_scheme, parse_gpt and parse_mbr on a device, or has    *)
(* Vfs::detect_partitions call the first and then one of the others; it    *)
(* makes a Partition of an entry and reads and writes through it.  The     *)
(* device is shared: what another user of it writes shows between two      *)
(* reads of one call.  A read may fail, and may fill less than the buffer, *)
(* whose rest stays zero: the callers never look at the number of bytes.   *)
(***************************************************************************)
EXTENDS Words, FiniteSets, Sequences

CONSTANTS
  SectorSize,
  Headers,    \* what may be at LBA 1
  Arrays,     \* what may be in the GPT entry array
  Mbrs,       \* what may be at LBA 0
  Types,      \* partition types, GUIDs or bytes
  Unused,     \* the type of an empty entry: zero
  Garbage,    \* what bytes that are no entry array read as
  Requests,   \* the pairs <<offset, length>> that a view is used with
  Builds      \* TRUE: built with overflow checks, FALSE: without

Slot == [type : Types \cup {Unused}, first : U64, last : U64]

EmptySlot == [type |-> Unused, first |-> 0, last |-> 0]

Header == [signed : BOOLEAN, entries_lba : U64, num_entries : Nat, entry_size : Nat]

EntryArray == [lba : U64, entry_size : Nat, slots : Seq(Slot)]

MbrSlot == [type : Types \cup {Unused}, start : U64, count : U64]

EmptyMbrSlot == [type |-> Unused, start |-> 0, count |-> 0]

Mbr == [signed : BOOLEAN, slots : [1..4 -> MbrSlot]]

(* A PartitionEntry; end, the sector behind the last one by what the table *)
(* says, is the model's own.                                               *)
Entry == [index : Nat, start_lba : U64, sector_count : U64, type_id : Types, end : Nat]

View == [offset : U64, size : U64, entry : Entry]

ASSUME DeviceAssumption ==
  /\ SectorSize \in U64 \ {0}
  /\ Unused \notin Types
  /\ Headers \subseteq Header
  /\ Arrays \subseteq EntryArray
  /\ Mbrs \subseteq Mbr
  /\ Garbage \subseteq Slot
  /\ Requests \subseteq U64 \X (0..(Half - 1))
  /\ Builds \subseteq BOOLEAN

VARIABLES
  header, array, mbr,  \* the device
  checked,             \* the build
  call,                \* what is left to do of a call
  nested,              \* the call is made by detect_partitions
  quiet,               \* no fault and no rewrite since the detection began
  returned,            \* what the last call has returned
  view                 \* the Partition in use

device == <<header, array, mbr>>

vars == <<device, checked, call, nested, quiet, returned, view>>

Idle == [at |-> "idle"]
Detects == [at |-> "detect"]
Parses(s) == [at |-> "parse", scheme |-> s]
ReadsMbr == [at |-> "mbr"]
ReadsEntries(h) == [at |-> "entries", header |-> h]
Stopped == [at |-> "panic"]

Nothing == [kind |-> "nothing"]
Detected(s) == [kind |-> "scheme", scheme |-> s]
Listed(l) == [kind |-> "list", list |-> l]
OutOfBounds(o, n) == [kind |-> "out of bounds", offset |-> o, len |-> n]
Accessed(o, n, p) == [kind |-> "access", offset |-> o, len |-> n, at |-> p]
Refused == [kind |-> "error"]

NoView == [offset |-> 0, size |-> 0]

(* One of the results of a call's arithmetic is not a u64. *)
Overflows(results) == ~ results \subseteq U64

Return(r) == call' = Idle /\ returned' = r /\ nested' = FALSE

(* The kernel that embeds the crate halts. *)
Panic == call' = Stopped /\ returned' = Nothing /\ nested' = FALSE

Continue(c) == call' = c /\ returned' = Nothing /\ UNCHANGED nested

-----------------------------------------------------------------------------
(* The device and what is read of it.                                      *)

Rewrite ==
  /\ call # Stopped
  /\ \/ header' \in Headers /\ UNCHANGED <<array, mbr>>
     \/ array' \in Arrays /\ UNCHANGED <<header, mbr>>
     \/ mbr' \in Mbrs /\ UNCHANGED <<header, array>>
  /\ quiet' = FALSE
  /\ UNCHANGED <<checked, call, nested, returned, view>>

(* The header as a read that stops between two of its fields shows it. *)
HeaderReads ==
  {header,
   [header EXCEPT !.entry_size = 0],
   [header EXCEPT !.entry_size = 0, !.num_entries = 0],
   [header EXCEPT !.entry_size = 0, !.num_entries = 0, !.entries_lba = 0]}

(* Slots as a read that stops within slot i, or before it, shows them. *)
Cut(slots, i, cut) ==
  [j \in DOMAIN slots |->
     CASE j < i -> slots[j]
       [] j = i -> cut
       [] j > i -> EmptySlot]

CutSlots(slots) ==
  {slots} \cup
  UNION {{Cut(slots, i, EmptySlot),
          Cut(slots, i, [slots[i] EXCEPT !.first = 0, !.last = 0]),
          Cut(slots, i, [slots[i] EXCEPT !.last = 0])} : i \in DOMAIN slots}

EntriesOffset(h) == h.entries_lba * SectorSize

(* The read goes to the array, in the pieces the array was written in. *)
FindsArray(h) ==
  /\ Wrapped(EntriesOffset(h)) = Wrapped(array.lba * SectorSize)
  /\ h.entry_size = array.entry_size
  /\ h.num_entries <= Len(array.slots)

ArraySlots(h) == SubSeq(array.slots, 1, h.num_entries)

SlotReads(h) ==
  IF FindsArray(h) THEN CutSlots(ArraySlots(h)) ELSE [1..h.num_entries -> Garbage]

-----------------------------------------------------------------------------
(* detect_partitions calls detect_partition_scheme, and the parser of the  *)
(* scheme that it finds; without one it returns an empty list.             *)

DetectPartitions ==
  /\ call = Idle
  /\ call' = Detects /\ returned' = Nothing /\ nested' = TRUE
  /\ quiet' = FALSE
  /\ UNCHANGED <<device, checked, view>>

Found(s) ==
  \/ ~ nested /\ Return(Detected(s))
  \/ nested /\ s = "None" /\ Return(Listed({}))
  \/ nested /\ s # "None" /\ Continue(Parses(s))

-----------------------------------------------------------------------------
(* detect_partition_scheme: LBA 1, then LBA 0.                             *)

DetectGpt ==
  /\ call \in {Idle, Detects}
  /\ \/ header.signed /\ Found("Gpt")
     \/ ~ header.signed /\ Continue(ReadsMbr)
  /\ quiet' = TRUE
  /\ UNCHANGED <<device, checked, view>>

(* A read that fails, or ends before the signature, is as good as none. *)
DetectGptFaulty ==
  /\ call \in {Idle, Detects}
  /\ Continue(ReadsMbr)
  /\ quiet' = FALSE
  /\ UNCHANGED <<device, checked, view>>

HasFirstEntry(m) == m.slots[1] # EmptyMbrSlot  \* mutant: looks at one entry

HasEntries(m) == \E i \in 1..4 : m.slots[i] # EmptyMbrSlot

DetectMbr ==
  /\ call = ReadsMbr
  /\ Found(IF mbr.signed /\ HasEntries(mbr) THEN "Mbr" ELSE "None")
  /\ UNCHANGED <<device, checked, quiet, view>>

DetectMbrFaulty ==
  /\ call = ReadsMbr
  /\ Found("None")
  /\ quiet' = FALSE
  /\ UNCHANGED <<device, checked, view>>

-----------------------------------------------------------------------------
(* parse_gpt: the header, then the entries.  A read that fails, or stops   *)
(* before the signature, is an error.                                      *)

ParseGptHeader ==
  /\ call \in {Idle, Parses("Gpt")}
  /\ \/ \E h \in HeaderReads :
          /\ h.signed
          /\ IF checked /\ Overflows({EntriesOffset(h)})
               THEN Panic
               ELSE Continue(ReadsEntries(h))
          /\ quiet' = (call # Idle /\ quiet /\ h = header)
     \/ ~ header.signed /\ Return(Refused) /\ quiet' = (call # Idle /\ quiet)
     \/ Return(Refused) /\ quiet' = FALSE
  /\ UNCHANGED <<device, checked, view>>

AllSlots(slots) == DOMAIN slots   \* mutant: empty entries are not skipped

Used(slots) == {i \in DOMAIN slots : slots[i].type # Unused}

LastMinusFirst(slot) == slot.last - slot.first   \* mutant: forgets the + 1

SectorCount(slot) == slot.last - slot.first + 1

(* Slices that end behind the entry, and overflow where it is checked. *)
SlotPanics(h, slot) ==
  \/ h.entry_size < 16
  \/ slot.type # Unused /\ h.entry_size < 56
  \/ /\ checked /\ slot.type # Unused
     /\ Overflows({slot.last - slot.first, SectorCount(slot)})

IndexOfSlot(slots, i) == i - 1   \* mutant: the slot's number

(* The entries pushed before slot i. *)
EntryIndex(slots, i) == Cardinality({j \in Used(slots) : j < i})

GptEntries(slots) ==
  {[index        |-> EntryIndex(slots, i),
    start_lba    |-> slots[i].first,
    sector_count |-> Wrapped(SectorCount(slots[i])),
    type_id      |-> slots[i].type,
    end          |-> slots[i].last + 1] : i \in Used(slots)}

ParsesSlots(h, slots) ==
  IF \E i \in DOMAIN slots : SlotPanics(h, slots[i])
    THEN Panic
    ELSE Return(Listed(GptEntries(slots)))

ParseGptEntries ==
  /\ call.at = "entries"
  /\ \/ \E slots \in SlotReads(call.header) :
          /\ ParsesSlots(call.header, slots)
          /\ quiet' = (quiet /\ (FindsArray(call.header) => slots = ArraySlots(call.header)))
     \/ Return(Refused) /\ quiet' = FALSE
  /\ UNCHANGED <<device, checked, view>>

(* parse_mbr.  A short read ends before the signature and is an error.     *)
MbrEntries(m) ==
  {[index        |-> EntryIndex(m.slots, i),
    start_lba    |-> m.slots[i].start,
    sector_count |-> m.slots[i].count,
    type_id      |-> m.slots[i].type,
    end          |-> m.slots[i].start + m.slots[i].count] : i \in Used(m.slots)}

ParseMbr ==
  /\ call \in {Idle, Parses("Mbr")}
  /\ \/ mbr.signed /\ Return(Listed(MbrEntries(mbr))) /\ quiet' = (call # Idle /\ quiet)
     \/ ~ mbr.signed /\ Return(Refused) /\ quiet' = (call # Idle /\ quiet)
     \/ Return(Refused) /\ quiet' = FALSE
  /\ UNCHANGED <<device, checked, view>>

-----------------------------------------------------------------------------
(* Partition: new, then read_bytes and write_bytes.                        *)

StartOffset(e) == e.start_lba * SectorSize

SizeBytes(e) == e.sector_count * SectorSize

NewView ==
  /\ call = Idle
  /\ returned.kind = "list"
  /\ \E e \in returned.list :
       IF checked /\ Overflows({StartOffset(e), SizeBytes(e)})
         THEN Panic /\ UNCHANGED view
         ELSE /\ Return(Nothing)
              /\ view' = [offset |-> Wrapped(StartOffset(e)),
                          size   |-> Wrapped(SizeBytes(e)), entry |-> e]
  /\ quiet' = FALSE
  /\ UNCHANGED <<device, checked>>

FitsByOffset(offset, len) == Wrapped(offset) <= view.size   \* mutant: len is not counted

Fits(offset, len) == Wrapped(offset + len) <= view.size

Access(offset, len) ==
  /\ call = Idle
  /\ view # NoView
  /\ CASE checked /\ Overflows({offset + len}) -> Panic
       [] ~ (checked /\ Overflows({offset + len})) /\ ~ Fits(offset, len) ->
            Return(OutOfBounds(offset, len))
       [] OTHER ->
            IF checked /\ Overflows({view.offset + offset})
              THEN Panic
              ELSE Return(Accessed(offset, len, Wrapped(view.offset + offset)))
  /\ quiet' = FALSE
  /\ UNCHANGED <<device, checked, view>>

-----------------------------------------------------------------------------
DeviceInit ==
  /\ header \in Headers
  /\ array \in Arrays
  /\ mbr \in Mbrs
  /\ checked \in Builds
  /\ call = Idle
  /\ nested = FALSE
  /\ quiet = FALSE
  /\ returned = Nothing
  /\ view = NoView

DeviceNext ==
  \/ Rewrite
  \/ DetectPartitions
  \/ DetectGpt \/ DetectGptFaulty \/ DetectMbr \/ DetectMbrFaulty
  \/ ParseGptHeader \/ ParseGptEntries \/ ParseMbr
  \/ NewView
  \/ \E request \in Requests : Access(request[1], request[2])

DeviceSpec == DeviceInit /\ [][DeviceNext]_vars

-----------------------------------------------------------------------------
(***************************************************************************)
(* Properties.                                                             *)
(***************************************************************************)

(* The entries and views the calls make have the types of their fields,    *)
(* whatever is on the device and however little a read has returned.       *)
PartitionsTypeOK ==
  /\ header \in Header /\ array \in EntryArray /\ mbr \in Mbr
  /\ checked \in BOOLEAN /\ nested \in BOOLEAN /\ quiet \in BOOLEAN
  /\ call.at = "entries" => call.header \in Header
  /\ returned.kind = "list" => returned.list \subseteq Entry
  /\ view # NoView => view \in View

(* The sectors of the entry, from start_lba to the end the table states,   *)
(* are all on a device whose bytes a u64 can count.                        *)
Exact(e) == e.start_lba < e.end /\ e.end * SectorSize \in U64

(* What a view has just been asked for lies inside the sectors that the    *)
(* table gave the partition.                                               *)
Inside(r) ==
  LET e == view.entry
  IN  /\ e.start_lba * SectorSize <= r.at
      /\ r.at + r.len <= e.end * SectorSize

(* A view never touches a byte outside its partition: in a build with      *)
(* overflow checks whatever the table says and the caller asks, in any     *)
(* other if the entry is exact and the request does not overflow.          *)
ViewConfined ==
  returned.kind = "access" =>
    \/ Inside(returned)
    \/ ~ checked /\ ~ (Exact(view.entry) /\ returned.offset + returned.len \in U64)

(* "A view of a block device restricted to a single partition" (Partition): *)
(* a request that is not refused touches no byte outside an exact one.     *)
ViewRestricted == returned.kind = "access" /\ Exact(view.entry) => Inside(returned)

(* A view serves every request that lies inside an exact partition, its    *)
(* last byte included, at the place where the partition has it: no build   *)
(* refuses it, shifts it or panics.                                        *)
ViewServesAll ==
  [][\A request \in Requests :
       LET offset == request[1]
           len == request[2]
           e == view.entry
           size == (e.end - e.start_lba) * SectorSize
       IN  Access(offset, len) /\ Exact(e) /\ offset + len <= size =>
             returned' = Accessed(offset, len, e.start_lba * SectorSize + offset)]_vars

(* Every entry that is in use holds its fields and lies on the device. *)
ValidEntries(h, slots) ==
  /\ h.entry_size >= 56
  /\ \A i \in Used(slots) :
       slots[i].first <= slots[i].last /\ (slots[i].last + 1) * SectorSize \in U64

(* The entry that a slot should be listed as, behind n others. *)
IsEntryOf(e, slot, n) ==
  /\ e.index = n
  /\ e.type_id = slot.type
  /\ e.start_lba = slot.first
  /\ e.start_lba + e.sector_count = slot.last + 1

(* parse_gpt of a valid array that is read whole never panics and lists    *)
(* every entry in use once, in order, with its sectors up to the last one, *)
(* and index counts the entries listed, not the slots.                     *)
ValidGptIsListed ==
  [][LET h == call.header
         slots == ArraySlots(h)
         list == returned'.list
     IN  /\ call.at = "entries"
         /\ FindsArray(h) /\ ValidEntries(h, slots)
         /\ ParsesSlots(h, slots)
         => /\ Cardinality(list) = Cardinality(Used(slots))
            /\ {e.index : e \in list} = 0..(Cardinality(list) - 1)
            /\ \A i \in Used(slots) : \E e \in list :
                 IsEntryOf(e, slots[i], Cardinality({j \in Used(slots) : j < i}))]_vars

(* Without a fault or a rewrite the parsers agree with what the detection  *)
(* found: the scheme's own parser does not refuse the device, a GPT device *)
(* is not taken for the MBR that protects it, and where no scheme is found *)
(* no parser lists a partition.                                            *)
DetectionAgrees ==
  quiet /\ returned.kind = "scheme" =>
    CASE returned.scheme = "Gpt"  -> header.signed
      [] returned.scheme = "Mbr"  -> mbr.signed /\ ~ header.signed
      [] returned.scheme = "None" ->
           ~ header.signed /\ (mbr.signed => MbrEntries(mbr) = {})

(* Without a fault or a rewrite detect_partitions, where it does not panic,*)
(* returns no error and lists the table that is on the device: the array   *)
(* of the GPT, if its header leads to one; without a GPT the MBR, an empty *)
(* first entry or not; nothing where there is neither.                     *)
DetectionLists ==
  quiet /\ returned.kind \in {"list", "error"} =>
    CASE header.signed ->
           /\ returned.kind = "list"
           /\ FindsArray(header) => returned = Listed(GptEntries(ArraySlots(header)))
      [] ~ header.signed /\ mbr.signed -> returned = Listed(MbrEntries(mbr))
      [] ~ header.signed /\ ~ mbr.signed -> returned = Listed({})
=============================================================================
