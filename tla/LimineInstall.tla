--------------------------- MODULE LimineInstall ---------------------------
(***************************************************************************)
(* limine_install/main.c: the boot loader is embedded into a GPT disk by   *)
(* shortening both partition arrays and putting the two halves of its      *)
(* second stage behind them.  Every write of a sector is a step, between   *)
(* any two of which the machine may stop; the program is then run again.   *)
(*                                                                         *)
(* A partition array is a sequence of sectors: the entries in one sector   *)
(* are abstracted to one slot, and number_of_partition_entries counts      *)
(* slots.  A CRC is represented by the sequence it was computed from.      *)
(***************************************************************************)
EXTENDS Integers, Sequences

CONSTANTS
    ArraySectors,  \* sectors of a partition array (32 in the code)
    EntryLba,      \* partition_entry_lba of the primary header (2 on a usual disk)
    SizeLimit,     \* sectors that a uint16_t cannot count in bytes (128 in the code)
    Stage2,        \* sectors of the second stage of each loader image
    MaxRuns        \* bound: runs of the program

ASSUME SizeAssumption ==
    /\ ArraySectors \in Nat \ {0} /\ EntryLba \in Nat /\ SizeLimit \in Nat \ {0}
    /\ DOMAIN Stage2 # {} /\ Stage2 \in [DOMAIN Stage2 -> Nat]
    /\ MaxRuns \in Nat

Loaders == DOMAIN Stage2
Slots == 0 .. ArraySectors - 1

(* What a sector of an array may hold: an entry in use, entries without a  *)
(* GUID that are empty or not, or a sector of a second stage.  Data is the *)
(* first usable sector, which follows the primary array.                   *)
Partition(i) == [kind |-> "partition", slot |-> i]
Zero == [kind |-> "zero"]
Stale == [kind |-> "stale"]
Data == [kind |-> "data"]
Code(l, n) == [kind |-> "code", loader |-> l, n |-> n]

(* stage2_size_a and stage2_size_b, in sectors: they are 16 bits wide.     *)
SizeA(l) == (Stage2[l] \div 2 + (Stage2[l] % 2)) % SizeLimit
SizeB(l) == (Stage2[l] \div 2) % SizeLimit

(* Mutant of LocA: stage2_loc_a is computed from 33 sectors.               *)
LocAOneFurther(l) == ArraySectors + 1 - SizeA(l)

(* stage2_loc_a and stage2_loc_b, from the start of their array: a half    *)
(* that is larger than the array begins before it.                         *)
LocA(l) == ArraySectors - SizeA(l)
LocB(l) == ArraySectors - SizeB(l)

VARIABLES
    lba0,      \* the loader the MBR starts, or "none"
    lba1,      \* the primary header
    entries,   \* the primary array
    entries2,  \* the secondary array
    alternate, \* the secondary header, which follows its array
    spoiled,   \* whether the end of the last partition, before it, is overwritten
    original,  \* the array when the disk was partitioned
    pc, loader, \* the run: where it is, what it installs,
    at,        \* the sectors of the current write that are done,
    header, header2, buffer3, new_count, \* and its buffers
    runs, crashes

disk == <<lba0, lba1, entries, entries2, alternate, spoiled>>
ram == <<header, header2, buffer3, new_count>>
vars == <<disk, original, pc, loader, at, ram, runs, crashes>>

Running == {"read", "read2", "plan", "array", "array2", "header", "header2", "mbr", "stage2a",
            "stage2b"}
Ended == {"invalid", "aborted", "undefined", "done"}

(* A sector that is no header fails the signature check.                   *)
NoHeader == [signature |-> FALSE, count |-> 0, crc |-> << >>]
Covered(array, count) == [i \in 0 .. count - 1 |-> array[i]]
NewHeader(array, count) == [signature |-> TRUE, count |-> count, crc |-> Covered(array, count)]

Valid(h, array) == h.signature /\ h.crc = Covered(array, h.count)

(* A disk another tool partitioned: both copies are valid and equal.       *)
Init ==
    /\ \E used \in SUBSET Slots : \E stale \in SUBSET (Slots \ used) :
          original = [i \in Slots |-> IF i \in used THEN Partition(i)
                                     ELSE IF i \in stale THEN Stale ELSE Zero]
    /\ entries = original /\ entries2 = original
    /\ lba1 = NewHeader(entries, ArraySectors) /\ alternate = lba1
    /\ lba0 = "none" /\ spoiled = FALSE
    /\ pc = "off" /\ loader \in Loaders /\ at = 0
    /\ header = NoHeader /\ header2 = NoHeader /\ buffer3 = << >> /\ new_count = 0
    /\ runs = 0 /\ crashes = 0

-----------------------------------------------------------------------------

Start(l) ==
    /\ pc \in {"off", "invalid", "aborted", "done"} /\ runs < MaxRuns
    /\ loader' = l /\ pc' = "read" /\ at' = 0 /\ runs' = runs + 1
    /\ UNCHANGED <<disk, original, ram, crashes>>

ReadHeader ==
    /\ pc = "read"
    /\ header' = lba1
    /\ pc' = IF lba1.signature THEN "read2" ELSE "invalid"
    /\ UNCHANGED <<disk, original, loader, at, header2, buffer3, new_count, runs, crashes>>

ReadHeader2 ==
    /\ pc = "read2"
    /\ header2' = alternate
    /\ pc' = IF alternate.signature THEN "plan" ELSE "invalid"
    /\ UNCHANGED <<disk, original, loader, at, header, buffer3, new_count, runs, crashes>>

(* num_entries_sectors: always one more than the entries fill.             *)
Sectors(h) == h.count + 1

ReadArray(h) == [i \in 0 .. Sectors(h) - 1 |->
                    IF i \in Slots THEN entries[i] ELSE Data]

(* Beyond max_partition_entry_used: the entries counted before this slot   *)
(* are all those with a GUID.                                              *)
Unused == {Zero, Stale}

(* Mutant of BeyondUsed: one entry too few is kept.                        *)
BeyondUsedOffByOne(h, array, i) == \A j \in 0 .. h.count - 1 : array[j] \notin Unused => j <= i

BeyondUsed(h, array, i) == \A j \in 0 .. h.count - 1 : array[j] \notin Unused => j < i

(* The plan: read the array, check that the entries in use fit into the    *)
(* shorter one and clear the others.  A first half larger than the array   *)
(* leaves a negative count, which is refused, unless stage2_loc_a itself   *)
(* wraps around and the count is huge.  A count beyond the buffer makes    *)
(* the memset run over its end: what happens then is not modelled.         *)
Plan ==
    /\ pc = "plan"
    /\ LET array == ReadArray(header)
           wraps == EntryLba + LocA(loader) < 0
           beyond == wraps \/ new_count' > Sectors(header)
       IN  /\ new_count' = LocA(loader)
           /\ pc' = IF ~wraps /\ (new_count' < 0 \/ ~BeyondUsed(header, array, new_count'))
                    THEN "aborted" ELSE IF beyond THEN "undefined" ELSE "array"
           /\ buffer3' = [i \in DOMAIN array |->
                             IF BeyondUsed(header, array, i) /\ i < new_count' THEN Zero
                             ELSE array[i]]
    /\ at' = 0
    /\ UNCHANGED <<disk, original, loader, header, header2, runs, crashes>>

(* The next sector of a write of n sectors, and what follows the last one. *)
Advance(n, next) ==
    IF at + 1 < n THEN at' = at + 1 /\ UNCHANGED pc ELSE at' = 0 /\ pc' = next

(* The sector behind the primary array is rewritten with what was read.    *)
WriteArray ==
    /\ pc = "array"
    /\ entries' = [i \in Slots |-> IF i = at THEN buffer3[i] ELSE entries[i]]
    /\ Advance(Sectors(header), "array2")
    /\ UNCHANGED <<lba0, lba1, entries2, alternate, spoiled, original, loader, ram, runs, crashes>>

(* The one behind the secondary array is the secondary header.             *)
WriteArray2 ==
    /\ pc = "array2"
    /\ entries2' = [i \in Slots |-> IF i = at THEN buffer3[i] ELSE entries2[i]]
    /\ alternate' = IF at \in Slots THEN alternate ELSE NoHeader
    /\ Advance(Sectors(header), "header")
    /\ UNCHANGED <<lba0, lba1, entries, spoiled, original, loader, ram, runs, crashes>>

(* Mutant of WriteHeader: the CRC is left as it was.                       *)
WriteHeaderOldCrc ==
    /\ pc = "header"
    /\ lba1' = [NewHeader(buffer3, new_count) EXCEPT !.crc = header.crc]
    /\ pc' = "header2"
    /\ UNCHANGED <<lba0, entries, entries2, alternate, spoiled, original, loader, at, ram, runs, crashes>>

WriteHeader ==
    /\ pc = "header"
    /\ lba1' = NewHeader(buffer3, new_count)
    /\ pc' = "header2"
    /\ UNCHANGED <<lba0, entries, entries2, alternate, spoiled, original, loader, at, ram, runs, crashes>>

(* Mutant of WriteHeader2: it is not written back.                         *)
WriteHeader2Skipped ==
    /\ pc = "header2"
    /\ pc' = "mbr"
    /\ UNCHANGED <<disk, original, loader, at, ram, runs, crashes>>

WriteHeader2 ==
    /\ pc = "header2"
    /\ alternate' = NewHeader(buffer3, new_count)
    /\ pc' = "mbr"
    /\ UNCHANGED <<lba0, lba1, entries, entries2, spoiled, original, loader, at, ram, runs, crashes>>

(* The next half to be written, from the given one on: a write of no       *)
(* sectors is none.                                                        *)
Unwritten(half) ==
    IF half = "stage2a" /\ SizeA(loader) # 0 THEN "stage2a"
    ELSE IF SizeB(loader) # 0 THEN "stage2b" ELSE "done"

WriteMbr ==
    /\ pc = "mbr"
    /\ lba0' = loader
    /\ pc' = Unwritten("stage2a") /\ at' = 0
    /\ UNCHANGED <<lba1, entries, entries2, alternate, spoiled, original, loader, ram, runs, crashes>>

WriteStage2a ==
    /\ pc = "stage2a"
    /\ entries' = [entries EXCEPT ![LocA(loader) + at] = Code(loader, at)]
    /\ Advance(SizeA(loader), Unwritten("stage2b"))
    /\ UNCHANGED <<lba0, lba1, entries2, alternate, spoiled, original, loader, ram, runs, crashes>>

(* Mutant of WriteStage2b: the second half goes to stage2_loc_a.           *)
WriteStage2bAtA ==
    /\ pc = "stage2b"
    /\ LET i == LocA(loader) + at IN
          /\ entries2' = [j \in Slots |-> IF j = i THEN Code(loader, SizeA(loader) + at) ELSE entries2[j]]
          /\ spoiled' = (spoiled \/ i < 0)
    /\ Advance(SizeB(loader), "done")
    /\ UNCHANGED <<lba0, lba1, entries, alternate, original, loader, ram, runs, crashes>>

(* The second half may begin before the array, where the last partition    *)
(* ends.                                                                   *)
WriteStage2b ==
    /\ pc = "stage2b"
    /\ LET i == LocB(loader) + at IN
          /\ entries2' = [j \in Slots |-> IF j = i THEN Code(loader, SizeA(loader) + at) ELSE entries2[j]]
          /\ spoiled' = (spoiled \/ i < 0)
    /\ Advance(SizeB(loader), "done")
    /\ UNCHANGED <<lba0, lba1, entries, alternate, original, loader, ram, runs, crashes>>

(* The machine stops between two sectors.                                  *)
Crash ==
    /\ pc \in Running
    /\ pc' = "off" /\ crashes' = crashes + 1 /\ at' = 0
    /\ header' = NoHeader /\ header2' = NoHeader /\ buffer3' = << >> /\ new_count' = 0
    /\ UNCHANGED <<disk, original, loader, runs>>

Step ==
    \/ ReadHeader \/ ReadHeader2 \/ Plan
    \/ WriteArray \/ WriteArray2 \/ WriteHeader \/ WriteHeader2
    \/ WriteMbr \/ WriteStage2a \/ WriteStage2b

Next == (\E l \in Loaders : Start(l)) \/ Step \/ Crash

Spec == Init /\ [][Next]_vars

-----------------------------------------------------------------------------
Sector == {Partition(i) : i \in Slots} \cup {Zero, Stale, Data}
          \cup {Code(l, n) : l \in Loaders, n \in 0 .. 2 * SizeLimit}

TypeOK ==
    /\ lba0 \in Loaders \cup {"none"}
    /\ entries \in [Slots -> Sector] /\ entries2 \in [Slots -> Sector]
    /\ \A h \in {lba1, alternate, header, header2} :
          /\ h.signature \in BOOLEAN /\ h.count \in 0 .. ArraySectors
          /\ DOMAIN h.crc = IF h.signature THEN 0 .. h.count - 1 ELSE {}
    /\ original \in [Slots -> Sector]
    /\ pc \in {"off"} \cup Running \cup Ended
    /\ loader \in Loaders /\ spoiled \in BOOLEAN
    /\ new_count \in Int /\ new_count <= ArraySectors
    /\ at \in Nat /\ at < ArraySectors + SizeLimit
    /\ runs \in Nat /\ crashes \in Nat

(* Of an image with one sector more than the two sizes can count, the      *)
(* first half has size 0 and the second one its full size.                 *)
Swapped(l) == SizeA(l) < SizeB(l)

(* No partition entry is lost, however often the installation is repeated, *)
(* interrupted or refused, whatever the sizes of the images (the check     *)
(* against max_partition_entry_used, the clearing of the entries above it  *)
(* and the place of both halves).  Only the second half of a swapped image *)
(* covers entries of the secondary array and the end of a partition.       *)
PartitionsKept ==
    /\ \A i \in Slots : original[i] = Partition(i) =>
          /\ entries[i] = Partition(i)
          /\ \/ entries2[i] = Partition(i)
             \/ \E l \in Loaders : Swapped(l) /\ entries2[i] = Code(l, SizeA(l) + i - LocB(l))
    /\ spoiled => \E l \in Loaders : Swapped(l)

(* Where the unused entries were empty, every interruption leaves a disk   *)
(* whose primary header and array agree: arrays first, then headers, and   *)
(* the second stage only behind what the header covers.                    *)
PrimaryValid == (\A i \in Slots : original[i] # Stale) => Valid(lba1, entries)

(* The sizes of both halves fit into stage2_size_a and stage2_size_b.      *)
Counted(l) == Stage2[l] <= 2 * (SizeLimit - 1)

(* A sector of the second stage is where the MBR looks for it.             *)
InPlace(l, n) ==
    IF n < SizeA(l) THEN entries[LocA(l) + n] = Code(l, n)
    ELSE entries2[LocB(l) + n - SizeA(l)] = Code(l, n)

(* An installation that ends well leaves a valid primary copy, the same    *)
(* header twice and the MBR of this loader.  If the sizes of its halves    *)
(* fit into 16 bits, the secondary copy is valid too and the whole second  *)
(* stage is where the MBR looks.                                           *)
Installed ==
    pc = "done" =>
        /\ Valid(lba1, entries) /\ lba1 = alternate /\ lba0 = loader
        /\ Counted(loader) => /\ Valid(alternate, entries2)
                              /\ \A n \in 0 .. Stage2[loader] - 1 : InPlace(loader, n)

(* The signature checks refuse a disk only after an interruption: the one  *)
(* header a run destroys, it restores.                                     *)
RefusedAfterCrash == pc = "invalid" => crashes > 0
=============================================================================
