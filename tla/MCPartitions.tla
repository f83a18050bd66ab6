---------------------------- MODULE MCPartitions ----------------------------
(***************************************************************************)
(* An instance of Partitions with words of four bits: Half is 8, a sector  *)
(* has two bytes, and a device of exactly 2^64 bytes has eight sectors.    *)
(***************************************************************************)
EXTENDS Partitions

GptHeader(lba, n, size) ==
  [signed |-> TRUE, entries_lba |-> lba, num_entries |-> n, entry_size |-> size]

NoGpt == [signed |-> FALSE, entries_lba |-> 0, num_entries |-> 0, entry_size |-> 0]

(* A table, one whose entries_lba overflows onto the same place, one with  *)
(* entries too small for their fields.                                     *)
MCHeaders == {GptHeader(2, 3, 128), GptHeader(10, 2, 128), GptHeader(2, 1, 32), NoGpt}

Part(t, first, last) == [type |-> t, first |-> first, last |-> last]

(* An unused slot between two partitions; partitions that end before they  *)
(* start and at the largest LBA; small slots.                              *)
MCArrays ==
  {[lba |-> 2, entry_size |-> 128,
    slots |-> <<Part("linux", 3, 4), EmptySlot, Part("efi", 5, 6)>>],
   [lba |-> 2, entry_size |-> 128,
    slots |-> <<Part("linux", 4, 2), Part("efi", 0, 15), EmptySlot>>],
   [lba |-> 2, entry_size |-> 32, slots |-> <<Part("efi", 3, 3)>>]}

MCGarbage == {EmptySlot, Part("efi", 7, 5)}

MbrPart(t, start, count) == [type |-> t, start |-> start, count |-> count]

MbrOf(a, b) == [i \in 1..4 |-> IF i = 1 THEN a ELSE IF i = 3 THEN b ELSE EmptyMbrSlot]

(* A protective MBR, one whose first entry is empty, a boot sector alone.  *)
MCMbrs ==
  {[signed |-> TRUE, slots |-> MbrOf(MbrPart("protective", 1, 7), EmptyMbrSlot)],
   [signed |-> TRUE, slots |-> MbrOf(EmptyMbrSlot, MbrPart("linux", 2, 3))],
   [signed |-> TRUE, slots |-> MbrOf(EmptyMbrSlot, EmptyMbrSlot)],
   [signed |-> FALSE, slots |-> MbrOf(EmptyMbrSlot, EmptyMbrSlot)]}

(* Within a partition, up to its last byte, past it, and sums that wrap.   *)
MCRequests == {<<0, 4>>, <<3, 1>>, <<4, 1>>, <<14, 3>>, <<0, 0>>}
=============================================================================
