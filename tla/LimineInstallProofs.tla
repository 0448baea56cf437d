------------------------ MODULE LimineInstallProofs ------------------------
(***************************************************************************)
(* What holds of LimineInstall for every size of the partition array, all  *)
(* loader images, of whatever size, and any number of runs and             *)
(* interruptions.  The argument:                                           *)
(* while sectors are written, the buffer holds every entry in use below    *)
(* the new count, and what the primary header covers is what the buffer    *)
(* and the disk agree on.                                                  *)
(***************************************************************************)
EXTENDS LimineInstall, TLAPS

(* Where the buffers are filled, and where the old header is still there.  *)
Planned == {"array", "array2", "header", "header2", "mbr", "stage2a", "stage2b"}
BeforeHeader == {"array", "array2", "header"}

DiskOK ==
    /\ original \in [Slots -> Sector] /\ entries \in [Slots -> Sector]
    /\ entries2 \in [Slots -> Sector]
    /\ lba0 \in Loaders \cup {"none"} /\ loader \in Loaders /\ spoiled \in BOOLEAN

HeaderOK(h) ==
    /\ h.signature \in BOOLEAN /\ h.count \in 0 .. ArraySectors
    /\ DOMAIN h.crc = IF h.signature THEN 0 .. h.count - 1 ELSE {}

RamOK ==
    /\ HeaderOK(lba1) /\ HeaderOK(alternate) /\ HeaderOK(header) /\ HeaderOK(header2)
    /\ pc \in {"off"} \cup Running \cup Ended
    /\ new_count \in Int /\ new_count <= ArraySectors
    /\ at \in Nat /\ at < ArraySectors + SizeLimit
    /\ runs \in Nat /\ crashes \in Nat

InUse(i) == original[i] = Partition(i)

(* The primary header covers every entry in use.                           *)
Reach == \A i \in Slots : InUse(i) => i < lba1.count

(* The plan of a run.                                                      *)
PlanOK ==
    /\ pc \in {"read2", "plan"} \cup BeforeHeader => header = lba1
    /\ pc \in Planned => /\ new_count = LocA(loader) /\ new_count >= 0
                         /\ new_count <= header.count + 1
                         /\ DOMAIN buffer3 = 0 .. header.count
                         /\ \A i \in 0 .. header.count : buffer3[i] \in Sector
                         /\ \A i \in Slots : InUse(i) => i < new_count /\ i \in DOMAIN buffer3
                                                        /\ buffer3[i] = Partition(i)
    /\ pc \in Planned \ BeforeHeader => lba1.count = new_count
    /\ pc \in {"array", "array2"} => at <= header.count
    /\ pc = "stage2a" => at < SizeA(loader)
    /\ pc = "stage2b" => at < SizeB(loader)

IInv == DiskOK /\ RamOK /\ Reach /\ PlanOK /\ PartitionsKept

-----------------------------------------------------------------------------
(* The halves of an image, and what 16 bits leave of their sizes.          *)
LEMMA Half == \A n \in Nat : /\ n \div 2 \in Nat /\ n % 2 \in 0 .. 1
                            /\ 2 * (n \div 2) + (n % 2) = n
OBVIOUS

LEMMA ModRange == ASSUME NEW a \in Nat, NEW w \in Nat \ {0} PROVE a % w \in 0 .. w - 1
OBVIOUS

LEMMA ModSmall == ASSUME NEW a \in Nat, NEW w \in Nat \ {0}, a < w PROVE a % w = a
<1>1. a = w * (a \div w) + (a % w) /\ a % w \in 0 .. w - 1 /\ a \div w \in Nat
  OBVIOUS
<1>2. a \div w = 0
  <2> SUFFICES ASSUME a \div w >= 1 PROVE FALSE
    BY <1>1
  <2>1. w * (a \div w) = w + w * (a \div w - 1) /\ w * (a \div w - 1) >= 0
    BY <1>1
  <2> QED BY <1>1, <2>1
<1> QED BY <1>1, <1>2

(* Both halves end where the arrays do, and the first one is the larger if *)
(* its size is not cut.                                                    *)
LEMMA Halves ==
    ASSUME NEW l \in Loaders
    PROVE  /\ SizeA(l) \in 0 .. SizeLimit - 1 /\ SizeB(l) \in 0 .. SizeLimit - 1
           /\ LocA(l) \in Int /\ LocB(l) \in Int /\ LocA(l) <= ArraySectors
           /\ LocA(l) + SizeA(l) = ArraySectors /\ LocB(l) + SizeB(l) = ArraySectors
           /\ Counted(l) => SizeA(l) + SizeB(l) = Stage2[l] /\ ~Swapped(l)
<1> DEFINE n == Stage2[l]
           m == SizeLimit
           b == n \div 2
           a == b + (n % 2)
<1>1. n \in Nat /\ ArraySectors \in Nat \ {0} /\ m \in Nat \ {0}
  BY SizeAssumption DEF Loaders
<1>2. b \in Nat /\ a \in Nat /\ a + b = n /\ b <= a
  BY <1>1, Half
<1>3. SizeA(l) = a % m /\ SizeB(l) = b % m
  BY DEF SizeA, SizeB
<1>8. Counted(l) => n <= 2 * (m - 1)
  BY DEF Counted
<1>9. a <= b + 1
  BY <1>1, Half
<1> HIDE DEF n, m, a, b
<1>4. SizeA(l) \in 0 .. m - 1 /\ SizeB(l) \in 0 .. m - 1
  BY <1>1, <1>2, <1>3, ModRange
<1>5. ASSUME Counted(l) PROVE SizeA(l) = a /\ SizeB(l) = b
  <2>1. a < m /\ b < m
    BY <1>1, <1>2, <1>5, <1>8, <1>9
  <2> QED BY <1>1, <1>2, <1>3, <2>1, ModSmall
<1>6. Counted(l) => SizeA(l) + SizeB(l) = n /\ ~Swapped(l)
  BY <1>2, <1>4, <1>5 DEF Swapped
<1>7. QED
  BY <1>1, <1>4, <1>6 DEF LocA, LocB, n, m

LEMMA Kinds ==
    /\ \A i : Partition(i) \notin Unused
    /\ \A l, n : Code(l, n) # Stale
    /\ \A i \in Slots : Partition(i) \in Sector
    /\ Zero \in Sector /\ Data \in Sector /\ Zero # Stale
    /\ \A l \in Loaders, n \in 0 .. 2 * SizeLimit : Code(l, n) \in Sector
<1>1. ASSUME NEW i PROVE Partition(i).kind = "partition"
  BY DEF Partition
<1>2. ASSUME NEW l, NEW n PROVE Code(l, n).kind = "code"
  BY DEF Code
<1>3. Zero.kind = "zero" /\ Stale.kind = "stale"
  BY DEF Zero, Stale
<1>4. /\ \A i : Partition(i) \notin Unused
      /\ \A l, n : Code(l, n) # Stale
      /\ Zero # Stale
  BY <1>1, <1>2, <1>3 DEF Unused
<1>5. QED
  BY <1>4 DEF Sector

LEMMA HeadersOK ==
    /\ HeaderOK(NoHeader)
    /\ \A array, count : count \in 0 .. ArraySectors => HeaderOK(NewHeader(array, count))
<1>1. ArraySectors \in Nat
  BY SizeAssumption
<1>2. HeaderOK(NoHeader)
  BY <1>1 DEF HeaderOK, NoHeader
<1>3. ASSUME NEW array, NEW count \in 0 .. ArraySectors PROVE HeaderOK(NewHeader(array, count))
  BY <1>1 DEF HeaderOK, NewHeader, Covered
<1>4. QED
  BY <1>2, <1>3

LEMMA InitIInv == Init => IInv
<1> SUFFICES ASSUME Init PROVE IInv
  OBVIOUS
<1>1. PICK used \in SUBSET Slots, stale \in SUBSET Slots :
         original = [i \in Slots |-> IF i \in used THEN Partition(i)
                                    ELSE IF i \in stale THEN Stale ELSE Zero]
  BY DEF Init
<1>2. original \in [Slots -> Sector]
  BY <1>1 DEF Sector
<1>3. DiskOK
  BY <1>2 DEF Init, DiskOK
<1>4. RamOK
  BY HeadersOK, SizeAssumption DEF Init, RamOK, Slots, Running, Ended
<1>5. Reach
  BY SizeAssumption DEF Init, Reach, NewHeader, Slots
<1>6. PlanOK
  BY DEF Init, PlanOK, Planned, BeforeHeader
<1>7. PartitionsKept
  BY DEF Init, PartitionsKept
<1>8. QED
  BY <1>3, <1>4, <1>5, <1>6, <1>7 DEF IInv

(* A step that writes nothing and plans nothing.                           *)
LEMMA QuietStep ==
    ASSUME IInv, UNCHANGED <<disk, original>>, loader' \in Loaders, RamOK',
           pc' \notin Planned, pc' \in {"read2", "plan"} => header' = lba1
    PROVE  IInv'
<1>1. DiskOK' /\ Reach' /\ PartitionsKept'
  BY DEF IInv, DiskOK, Reach, PartitionsKept, InUse, disk
<1>2. PlanOK'
  BY DEF PlanOK, Planned, BeforeHeader, disk
<1>3. QED
  BY <1>1, <1>2 DEF IInv

LEMMA StartIInv == \A l \in Loaders : IInv /\ Start(l) => IInv'
<1> SUFFICES ASSUME NEW l \in Loaders, IInv, Start(l) PROVE IInv'
  OBVIOUS
<1>1. RamOK'
  BY SizeAssumption, SMTT(30) DEF IInv, RamOK, Start, HeaderOK, disk, ram, Running
<1>2. QED
  BY <1>1, QuietStep DEF Start, Planned

LEMMA ReadIInv == IInv /\ (ReadHeader \/ ReadHeader2) => IInv'
<1> SUFFICES ASSUME IInv, ReadHeader \/ ReadHeader2 PROVE IInv'
  OBVIOUS
<1>1. RamOK'
  BY DEF IInv, RamOK, ReadHeader, ReadHeader2, HeaderOK, disk, Running, Ended
<1>2. pc' \notin Planned /\ (pc' \in {"read2", "plan"} => header' = lba1)
  BY DEF ReadHeader, ReadHeader2, Planned, IInv, PlanOK, BeforeHeader
<1>3. QED
  BY <1>1, <1>2, QuietStep DEF ReadHeader, ReadHeader2, IInv, DiskOK

LEMMA CrashIInv == IInv /\ Crash => IInv'
<1> SUFFICES ASSUME IInv, Crash PROVE IInv'
  OBVIOUS
<1>1. HeaderOK(lba1)' /\ HeaderOK(alternate)' /\ HeaderOK(header)' /\ HeaderOK(header2)'
  BY HeadersOK DEF IInv, RamOK, Crash, HeaderOK, disk
<1>2. crashes' \in Nat /\ runs' \in Nat /\ at' = 0 /\ new_count' = 0
  BY DEF IInv, RamOK, Crash
<1>3. RamOK'
  BY <1>1, <1>2, SizeAssumption DEF RamOK, Crash, Slots
<1>4. QED
  BY <1>3, QuietStep DEF Crash, IInv, DiskOK, Planned

LEMMA PlanIInv == IInv /\ Plan => IInv'
<1> SUFFICES ASSUME IInv, Plan PROVE IInv'
  OBVIOUS
<1> DEFINE array == ReadArray(header)
<1>1. /\ header = lba1 /\ header.count \in 0 .. ArraySectors /\ ArraySectors \in Nat
      /\ loader \in Loaders /\ LocA(loader) \in Int /\ LocA(loader) <= ArraySectors
      /\ EntryLba \in Nat /\ SizeLimit \in Nat \ {0}
  BY SizeAssumption, Halves DEF IInv, PlanOK, RamOK, HeaderOK, DiskOK, Plan
<1>2. /\ DOMAIN array = 0 .. header.count
      /\ \A i \in 0 .. header.count : array[i] = IF i \in Slots THEN entries[i] ELSE Data
  BY <1>1 DEF ReadArray, Sectors
<1>3. DOMAIN buffer3' = 0 .. header.count
  BY <1>2 DEF Plan
<1>4. ASSUME NEW i \in 0 .. header.count
      PROVE  buffer3'[i] = IF BeyondUsed(header, array, i) /\ i < new_count'
                           THEN Zero ELSE array[i]
  BY <1>2 DEF Plan
<1>5. \A i \in 0 .. header.count : array[i] \in Sector
  BY <1>2, Kinds DEF IInv, DiskOK
<1>6. \A i \in 0 .. header.count : buffer3'[i] \in Sector
  BY <1>4, <1>5, Kinds
<1>7. ASSUME NEW i \in Slots, InUse(i)
      PROVE  i \in 0 .. header.count - 1 /\ array[i] = Partition(i) /\ array[i] \notin Unused
  <2>1. i \in 0 .. header.count - 1
    BY <1>1, <1>7 DEF IInv, Reach, Slots
  <2>2. array[i] = Partition(i)
    BY <1>1, <1>2, <1>7, <2>1 DEF IInv, PartitionsKept, InUse
  <2>3. QED
    BY <2>1, <2>2, Kinds
<1>8. pc' = "array" => /\ BeyondUsed(header, array, new_count')
                       /\ new_count' >= 0 /\ new_count' <= header.count + 1
  BY <1>1 DEF Plan, Sectors
<1>9. ASSUME pc' = "array", NEW i \in Slots, InUse(i)
      PROVE  i < new_count' /\ i \in DOMAIN buffer3' /\ buffer3'[i] = Partition(i)
  <2>1. i < new_count'
    BY <1>7, <1>8, <1>9 DEF BeyondUsed
  <2>2. ~ BeyondUsed(header, array, i)
    BY <1>1, <1>7, <1>9 DEF BeyondUsed, Slots
  <2>3. i \in 0 .. header.count
    BY <1>1, <1>7, <1>9
  <2>4. QED
    BY <1>3, <1>4, <1>7, <1>9, <2>1, <2>2, <2>3
<1> HIDE DEF array
<1>10. pc' \in {"aborted", "undefined", "array"} /\ new_count' = LocA(loader) /\ at' = 0
  BY DEF Plan
<1>11. DiskOK' /\ Reach' /\ PartitionsKept'
  BY DEF Plan, disk, IInv, DiskOK, Reach, PartitionsKept, InUse
<1>12. RamOK'
  BY <1>1, <1>10 DEF Plan, disk, IInv, RamOK, HeaderOK, Running, Ended
<1>13. UNCHANGED <<disk, original, loader, header>>
  BY DEF Plan
<1>14. PlanOK'
  <2>1. pc' \in {"read2", "plan"} \cup BeforeHeader => header' = lba1'
    BY <1>1, <1>13 DEF disk
  <2>2. ASSUME pc' = "array"
        PROVE  /\ new_count' = LocA(loader)' /\ new_count' >= 0 /\ new_count' <= header'.count + 1
               /\ DOMAIN buffer3' = 0 .. header'.count
               /\ \A i \in 0 .. header'.count : buffer3'[i] \in Sector
               /\ at' <= header'.count
    BY <1>1, <1>3, <1>6, <1>8, <1>10, <1>13, <2>2 DEF LocA, SizeA
  <2>3. ASSUME pc' = "array", NEW i \in Slots, InUse(i)'
        PROVE  i < new_count' /\ i \in DOMAIN buffer3' /\ buffer3'[i] = Partition(i)
    BY <1>9, <1>13, <2>3 DEF InUse
  <2>4. QED
    BY <1>10, <2>1, <2>2, <2>3 DEF PlanOK, Planned, BeforeHeader
<1>15. QED
  BY <1>11, <1>12, <1>14 DEF IInv

(* What Advance does to the place of the run and the sectors done.         *)
LEMMA Advances ==
    ASSUME NEW n \in Nat, NEW next, at \in Nat, Advance(n, next)
    PROVE  \/ pc' = pc /\ at' \in Nat /\ at' < n
           \/ pc' = next /\ at' = 0
BY DEF Advance

LEMMA ArrayIInv == IInv /\ (WriteArray \/ WriteArray2) => IInv'
<1> SUFFICES ASSUME IInv, WriteArray \/ WriteArray2 PROVE IInv'
  OBVIOUS
<1>1. /\ header.count \in 0 .. ArraySectors /\ ArraySectors \in Nat /\ at \in 0 .. header.count
      /\ pc \in {"array", "array2"} /\ loader \in Loaders /\ header = lba1
  BY SizeAssumption DEF IInv, PlanOK, RamOK, HeaderOK, DiskOK, WriteArray, WriteArray2, BeforeHeader
<1>2. /\ new_count = LocA(loader) /\ new_count >= 0 /\ new_count <= header.count + 1
      /\ DOMAIN buffer3 = 0 .. header.count
      /\ \A i \in 0 .. header.count : buffer3[i] \in Sector
      /\ \A i \in Slots : InUse(i) => i < new_count /\ i \in DOMAIN buffer3
                                       /\ buffer3[i] = Partition(i)
  BY <1>1 DEF IInv, PlanOK, Planned
<1>3. UNCHANGED <<original, loader, ram, lba0, lba1, spoiled, runs, crashes>>
  BY DEF WriteArray, WriteArray2
<1>4. \/ pc' = pc /\ at' \in Nat /\ at' < header.count + 1
      \/ pc' \in {"array2", "header"} /\ at' = 0
  BY <1>1, Advances DEF WriteArray, WriteArray2, Sectors
<1>5. at' \in 0 .. header.count /\ pc' \in {"array", "array2", "header"}
  BY <1>1, <1>4
<1>6. DiskOK'
  BY <1>1, <1>2, <1>3 DEF IInv, DiskOK, WriteArray, WriteArray2
<1>7. HeaderOK(alternate)'
  BY <1>1, HeadersOK DEF IInv, RamOK, WriteArray, WriteArray2, HeaderOK
<1>12. at' \in Nat /\ at' < ArraySectors + SizeLimit
  BY <1>1, <1>5, SizeAssumption
<1>8. RamOK'
  BY <1>3, <1>5, <1>7, <1>12 DEF IInv, RamOK, HeaderOK, ram, Running, Ended
<1>9. Reach' /\ PartitionsKept'
  BY <1>1, <1>2, <1>3 DEF IInv, Reach, PartitionsKept, InUse, WriteArray, WriteArray2
<1>10. PlanOK'
  BY <1>1, <1>2, <1>3, <1>5 DEF PlanOK, ram, InUse, LocA, SizeA, Planned, BeforeHeader
<1>11. QED
  BY <1>6, <1>8, <1>9, <1>10 DEF IInv

(* Writing the headers and the MBR.                                        *)
LEMMA HeaderIInv == IInv /\ (WriteHeader \/ WriteHeader2 \/ WriteMbr) => IInv'
<1> SUFFICES ASSUME IInv, WriteHeader \/ WriteHeader2 \/ WriteMbr PROVE IInv'
  OBVIOUS
<1>1. /\ ArraySectors \in Nat /\ loader \in Loaders /\ pc \in {"header", "header2", "mbr"}
      /\ new_count \in 0 .. ArraySectors /\ new_count = LocA(loader)
      /\ \A i \in Slots : InUse(i) => i < new_count
  BY SizeAssumption DEF IInv, DiskOK, RamOK, PlanOK, Planned, WriteHeader, WriteHeader2, WriteMbr
<1>2. UNCHANGED <<entries, entries2, spoiled, original, loader, ram, runs, crashes>>
  BY DEF WriteHeader, WriteHeader2, WriteMbr
<1>3. HeaderOK(NewHeader(buffer3, new_count)) /\ NewHeader(buffer3, new_count).count = new_count
  BY <1>1, HeadersOK DEF NewHeader
<1>4. DiskOK' /\ PartitionsKept'
  BY <1>2 DEF IInv, DiskOK, PartitionsKept, WriteHeader, WriteHeader2, WriteMbr
<1>5. /\ pc = "header" => lba1'.count = new_count /\ pc' = "header2"
      /\ pc = "header2" => lba1' = lba1 /\ pc' = "mbr"
      /\ pc = "mbr" => /\ lba1' = lba1 /\ at' = 0 /\ pc' \in {"stage2a", "stage2b", "done"}
                       /\ pc' = "stage2a" => SizeA(loader) # 0
                       /\ pc' = "stage2b" => SizeB(loader) # 0
      /\ at' \in {0, at}
  BY <1>1, <1>3 DEF WriteHeader, WriteHeader2, WriteMbr, Unwritten
<1>6. HeaderOK(lba1)' /\ HeaderOK(alternate)'
  BY <1>3 DEF WriteHeader, WriteHeader2, WriteMbr, IInv, RamOK, HeaderOK
<1>12. at' \in Nat /\ at' < ArraySectors + SizeLimit
  BY <1>5, SizeAssumption DEF IInv, RamOK
<1>13. pc' \in Running \cup Ended
  BY <1>1, <1>5 DEF Running, Ended
<1>7. RamOK'
  BY <1>2, <1>6, <1>12, <1>13 DEF IInv, RamOK, HeaderOK, ram, Running, Ended
<1>8. Reach'
  BY <1>1, <1>2, <1>5 DEF IInv, Reach, InUse
<1>9. SizeA(loader) \in Nat /\ SizeB(loader) \in Nat
  BY <1>1, Halves, SizeAssumption
<1>10. PlanOK'
  <2>1. pc' \in {"header2", "mbr", "stage2a", "stage2b", "done"} /\ lba1'.count = new_count'
    BY <1>1, <1>2, <1>5 DEF IInv, PlanOK, Planned, BeforeHeader, ram
  <2>2. /\ pc' = "stage2a" => at' < SizeA(loader)
        /\ pc' = "stage2b" => at' < SizeB(loader)
    BY <1>1, <1>5, <1>9
  <2>3. QED
    BY <1>1, <1>2, <2>1, <2>2
    DEF IInv, PlanOK, Planned, BeforeHeader, ram, InUse, LocA, SizeA, SizeB
<1>11. QED
  BY <1>4, <1>7, <1>8, <1>10 DEF IInv

(* Both halves lie behind the entries that the new header covers, but for  *)
(* a second half that is the larger one.                                   *)
LEMMA StageIInv == IInv /\ (WriteStage2a \/ WriteStage2b) => IInv'
<1> SUFFICES ASSUME IInv, WriteStage2a \/ WriteStage2b PROVE IInv'
  OBVIOUS
<1>1. /\ ArraySectors \in Nat /\ SizeLimit \in Nat \ {0} /\ loader \in Loaders
      /\ pc \in {"stage2a", "stage2b"} /\ at \in Nat /\ new_count = LocA(loader) /\ new_count >= 0
      /\ \A i \in Slots : InUse(i) => i < new_count
  BY SizeAssumption DEF IInv, DiskOK, RamOK, PlanOK, Planned, WriteStage2a, WriteStage2b
<1>2. /\ SizeA(loader) \in 0 .. SizeLimit - 1 /\ SizeB(loader) \in 0 .. SizeLimit - 1
      /\ SizeA(loader) <= ArraySectors /\ LocA(loader) \in Nat /\ LocB(loader) \in Int
      /\ LocA(loader) + SizeA(loader) = ArraySectors
      /\ LocB(loader) + SizeB(loader) = ArraySectors
  BY <1>1, Halves
<1>3. /\ pc = "stage2a" => at < SizeA(loader)
      /\ pc = "stage2b" => at < SizeB(loader)
  BY DEF IInv, PlanOK
<1>4. UNCHANGED <<original, loader, ram, lba0, lba1, alternate, runs, crashes>>
  BY DEF WriteStage2a, WriteStage2b
<1>5. at \in 0 .. SizeLimit - 1 /\ SizeA(loader) + at \in 0 .. 2 * SizeLimit
  BY <1>1, <1>2, <1>3
<1>6. Code(loader, at) \in Sector /\ Code(loader, SizeA(loader) + at) \in Sector
  <2>1. at \in 0 .. 2 * SizeLimit
    BY <1>1, <1>5
  <2> QED BY <1>1, <1>5, <2>1, Kinds
<1>7. DiskOK'
  BY <1>4, <1>6 DEF IInv, DiskOK, WriteStage2a, WriteStage2b
<1>8. PartitionsKept'
  <2>1. CASE WriteStage2a
    <3>1. entries' = [entries EXCEPT ![LocA(loader) + at] = Code(loader, at)]
          /\ entries2' = entries2 /\ spoiled' = spoiled
      BY <2>1 DEF WriteStage2a
    <3>2. ASSUME NEW i \in Slots, InUse(i) PROVE i # LocA(loader) + at
      BY <1>1, <1>2, <3>2 DEF Slots
    <3>3. ASSUME NEW i \in Slots, InUse(i) PROVE entries'[i] = Partition(i)
      BY <3>1, <3>2, <3>3 DEF IInv, DiskOK, PartitionsKept, InUse
    <3> QED BY <1>4, <3>1, <3>3 DEF IInv, PartitionsKept, InUse
  <2>2. CASE WriteStage2b
    <3> DEFINE p == LocB(loader) + at
               code == Code(loader, SizeA(loader) + at)
    <3>1. /\ \A j \in Slots : entries2'[j] = IF j = p THEN code ELSE entries2[j]
          /\ spoiled' = (spoiled \/ p < 0) /\ entries' = entries
      BY <2>2 DEF WriteStage2b
    <3>2. p \in Int /\ (p < LocA(loader) => Swapped(loader))
      BY <1>1, <1>2 DEF Swapped
    <3>3. ASSUME NEW i \in Slots, i = p, InUse(i)
          PROVE  Swapped(loader) /\ entries2'[i] = Code(loader, SizeA(loader) + i - LocB(loader))
      <4>1. SizeA(loader) + i - LocB(loader) = SizeA(loader) + at
        BY <1>1, <1>2, <3>3
      <4>2. i < LocA(loader)
        BY <1>1, <3>3
      <4> QED BY <3>1, <3>2, <3>3, <4>1, <4>2
    <3>4. p < 0 => Swapped(loader)
      BY <1>2, <3>2
    <3> HIDE DEF p, code
    <3>5. ASSUME NEW i \in Slots, InUse(i)
          PROVE  \/ entries2'[i] = Partition(i)
                 \/ \E l \in Loaders : Swapped(l) /\ entries2'[i] = Code(l, SizeA(l) + i - LocB(l))
      <4>1. CASE i = p
        BY <1>1, <3>3, <3>5, <4>1
      <4>2. CASE i # p
        BY <3>1, <3>5, <4>2 DEF IInv, PartitionsKept, InUse
      <4> QED BY <4>1, <4>2
    <3>6. spoiled' => \E l \in Loaders : Swapped(l)
      BY <1>1, <3>1, <3>4 DEF IInv, PartitionsKept
    <3> QED BY <1>4, <3>1, <3>5, <3>6 DEF IInv, PartitionsKept, InUse
  <2> QED BY <2>1, <2>2
<1>9. /\ pc' \in {"stage2a", "stage2b", "done"}
      /\ at' \in 0 .. SizeLimit - 1
      /\ pc' = "stage2a" => at' < SizeA(loader)
      /\ pc' = "stage2b" => at' < SizeB(loader)
  <2>1. CASE WriteStage2a
    <3>1. pc = "stage2a" /\ Advance(SizeA(loader), Unwritten("stage2b"))
      BY <2>1 DEF WriteStage2a
    <3>2. \/ pc' = pc /\ at' \in Nat /\ at' < SizeA(loader)
          \/ pc' = Unwritten("stage2b") /\ at' = 0
      BY <1>1, <1>2, <3>1, Advances
    <3>3. /\ Unwritten("stage2b") \in {"stage2b", "done"}
          /\ Unwritten("stage2b") = "stage2b" => SizeB(loader) # 0
      BY DEF Unwritten
    <3>4. QED
      BY <1>1, <1>2, <3>1, <3>2, <3>3
  <2>2. CASE WriteStage2b
    <3>1. pc = "stage2b" /\ Advance(SizeB(loader), "done")
      BY <2>2 DEF WriteStage2b
    <3>2. \/ pc' = pc /\ at' \in Nat /\ at' < SizeB(loader)
          \/ pc' = "done" /\ at' = 0
      BY <1>1, <1>2, <3>1, Advances
    <3>3. QED
      BY <1>1, <1>2, <3>1, <3>2
  <2>3. QED
    BY <2>1, <2>2
<1>10. RamOK'
  BY <1>1, <1>4, <1>9 DEF IInv, RamOK, HeaderOK, ram, Running, Ended
<1>11. Reach'
  BY <1>4 DEF IInv, Reach, InUse
<1>12. PlanOK'
  BY <1>1, <1>4, <1>9
  DEF IInv, PlanOK, Planned, BeforeHeader, ram, InUse, LocA, SizeA, SizeB
<1>13. QED
  BY <1>7, <1>8, <1>10, <1>11, <1>12 DEF IInv

LEMMA Inductive == IInv /\ [Next]_vars => IInv'
<1>1. IInv /\ UNCHANGED vars => IInv'
  BY DEF vars, disk, ram, IInv, DiskOK, RamOK, HeaderOK, Reach, PlanOK, PartitionsKept, InUse,
         LocA, SizeA, SizeB
<1>2. QED
  BY <1>1, StartIInv, ReadIInv, PlanIInv, ArrayIInv, HeaderIInv, StageIInv, CrashIInv
  DEF Next, Step

(* No partition entry is lost in the primary array, for any size of the    *)
(* arrays and images of any size, however often the installation is        *)
(* repeated, interrupted between two sectors or refused; in the secondary  *)
(* one, and at the end of the partition before it, only the second half of *)
(* a swapped image writes where it must not.                               *)
THEOREM PartitionsSafe == Spec => []PartitionsKept
<1>1. IInv => PartitionsKept
  BY DEF IInv
<1>2. QED
  BY <1>1, InitIInv, Inductive, PTL DEF Spec

(* The types of disk, buffers and run.                                     *)
THEOREM TypeCorrect == Spec => []TypeOK
<1>1. IInv => TypeOK
  BY DEF IInv, DiskOK, RamOK, HeaderOK, TypeOK
<1>2. QED
  BY <1>1, InitIInv, Inductive, PTL DEF Spec

-----------------------------------------------------------------------------
(* Where no unused entry held anything, clearing the buffer changes nothing *)
(* below the old count: until the header is written, disk and buffer agree *)
(* there, and from the end of the first write also in the sector behind.   *)
Clean == \A i \in Slots : original[i] # Stale

NoStale ==
    /\ \A i \in Slots : entries[i] # Stale
    /\ pc \in Planned => \A i \in 0 .. header.count : buffer3[i] # Stale

Agree ==
    /\ pc \in BeforeHeader => \A i \in 0 .. header.count - 1 : buffer3[i] = entries[i]
    /\ pc = "array" => \A i \in Slots : i < at => entries[i] = buffer3[i]
    /\ pc \in {"array2", "header"} =>
          \A i \in Slots : i <= header.count => entries[i] = buffer3[i]

CleanInv == Clean => NoStale /\ Agree /\ Valid(lba1, entries)

LEMMA CoveredSame ==
    ASSUME NEW a, NEW b, NEW count, \A i \in 0 .. count - 1 : a[i] = b[i]
    PROVE  Covered(a, count) = Covered(b, count)
BY DEF Covered

LEMMA InitClean == Init => CleanInv
<1> SUFFICES ASSUME Init, Clean PROVE NoStale /\ Agree /\ Valid(lba1, entries)
  BY DEF CleanInv
<1>1. NoStale
  BY DEF Init, Clean, NoStale, Planned
<1>2. Agree
  BY DEF Init, Agree, BeforeHeader
<1>3. Valid(lba1, entries)
  BY DEF Init, Valid, NewHeader
<1>4. QED
  BY <1>1, <1>2, <1>3

(* A step that neither writes nor fills the buffer.                        *)
LEMMA QuietClean ==
    ASSUME CleanInv, UNCHANGED <<entries, lba1, original>>, pc' \notin Planned
    PROVE  CleanInv'
BY DEF CleanInv, Clean, NoStale, Agree, Valid, Planned, BeforeHeader

LEMMA PlanClean == IInv /\ CleanInv /\ Plan => CleanInv'
<1> SUFFICES ASSUME IInv, CleanInv, Plan, Clean PROVE CleanInv'
  BY DEF CleanInv, Clean, Plan
<1> DEFINE array == ReadArray(header)
<1>1. /\ header = lba1 /\ header.count \in 0 .. ArraySectors /\ ArraySectors \in Nat
  BY SizeAssumption DEF IInv, PlanOK, RamOK, HeaderOK, Plan
<1>2. /\ DOMAIN array = 0 .. header.count
      /\ \A i \in 0 .. header.count : array[i] = IF i \in Slots THEN entries[i] ELSE Data
  BY <1>1 DEF ReadArray, Sectors
<1>3. ASSUME NEW i \in 0 .. header.count
      PROVE  buffer3'[i] = IF BeyondUsed(header, array, i) /\ i < new_count'
                           THEN Zero ELSE array[i]
  BY <1>2 DEF Plan
<1>4. Data.kind = "data" /\ Zero.kind = "zero" /\ Stale.kind = "stale"
  BY DEF Data, Zero, Stale
<1>5. \A i \in 0 .. header.count : array[i] # Stale
  BY <1>2, <1>4 DEF CleanInv, NoStale
<1>6. \A i \in 0 .. header.count : buffer3'[i] # Stale
  BY <1>3, <1>4, <1>5
<1>7. ASSUME NEW i \in 0 .. header.count - 1 PROVE buffer3'[i] = entries[i]
  <2>1. i \in Slots /\ i \in 0 .. header.count
    BY <1>1 DEF Slots
  <2>2. array[i] = entries[i]
    BY <1>2, <2>1
  <2>3. BeyondUsed(header, array, i) => array[i] = Zero
    BY <1>1, <1>5, <2>1 DEF BeyondUsed, Unused
  <2>4. QED
    BY <1>3, <2>1, <2>2, <2>3
<1> HIDE DEF array
<1>8. UNCHANGED <<entries, lba1, original, header>> /\ at' = 0
      /\ pc' \in {"aborted", "undefined", "array"}
  BY DEF Plan, disk
<1>9. NoStale'
  BY <1>6, <1>8 DEF CleanInv, NoStale
<1>10. Agree'
  BY <1>7, <1>8 DEF Agree, Slots
<1>11. Valid(lba1, entries)'
  BY <1>8 DEF CleanInv, Valid
<1>12. QED
  BY <1>9, <1>10, <1>11 DEF CleanInv

LEMMA ArrayClean == IInv /\ CleanInv /\ (WriteArray \/ WriteArray2) => CleanInv'
<1> SUFFICES ASSUME IInv, CleanInv, WriteArray \/ WriteArray2, Clean PROVE CleanInv'
  BY DEF CleanInv, Clean, WriteArray, WriteArray2
<1>1. /\ header.count \in 0 .. ArraySectors /\ ArraySectors \in Nat /\ at \in 0 .. header.count
      /\ header = lba1
  BY SizeAssumption DEF IInv, PlanOK, RamOK, HeaderOK, WriteArray, WriteArray2, BeforeHeader
<1>2. UNCHANGED <<original, ram, lba1>>
  BY DEF WriteArray, WriteArray2
<1>3. \/ pc' = pc /\ at' \in Nat /\ at' < header.count + 1
      \/ pc' \in {"array2", "header"} /\ at' = 0
  BY <1>1, Advances DEF WriteArray, WriteArray2, Sectors
<1>4. pc \in {"array", "array2"} /\ pc' \in {"array", "array2", "header"}
  BY <1>3 DEF WriteArray, WriteArray2
<1>5. \A i \in 0 .. header.count - 1 : buffer3[i] = entries[i]
  BY <1>4 DEF CleanInv, Agree, BeforeHeader
<1>6. \A i \in 0 .. header.count : buffer3[i] # Stale
  BY <1>4 DEF CleanInv, NoStale, Planned
<1>7. \A i \in Slots : entries[i] # Stale
  BY DEF CleanInv, NoStale
<1>8. \A i \in Slots : entries'[i] = entries[i] \/ (i = at /\ entries'[i] = buffer3[i])
  BY DEF WriteArray, WriteArray2
<1>9. NoStale'
  BY <1>1, <1>2, <1>6, <1>7, <1>8 DEF NoStale, ram
<1>10. \A i \in 0 .. header.count - 1 : buffer3[i] = entries'[i] /\ entries'[i] = entries[i]
  BY <1>1, <1>5, <1>8 DEF Slots
<1>11. Valid(lba1, entries)'
  BY <1>1, <1>2, <1>10, CoveredSame DEF CleanInv, Valid
<1>12. ASSUME pc' = "array", NEW i \in Slots, i < at' PROVE entries'[i] = buffer3[i]
  <2>1. WriteArray /\ at' = at + 1
    BY <1>1, <1>12 DEF WriteArray, WriteArray2, Advance
  <2>2. CASE i = at
    BY <2>1, <2>2 DEF WriteArray
  <2>3. CASE i # at
    BY <1>1, <1>12, <2>1, <2>3 DEF WriteArray, CleanInv, Agree, Slots
  <2>4. QED
    BY <2>2, <2>3
<1>13. ASSUME pc' \in {"array2", "header"}, NEW i \in Slots, i <= header.count
       PROVE  entries'[i] = buffer3[i]
  <2>1. CASE WriteArray
    <3>1. at = header.count /\ pc = "array"
      BY <1>1, <1>13, <2>1 DEF WriteArray, Advance, Sectors
    <3>2. CASE i = at
      BY <2>1, <3>2 DEF WriteArray
    <3>3. CASE i # at
      BY <1>1, <1>13, <2>1, <3>1, <3>3 DEF WriteArray, CleanInv, Agree, Slots
    <3>4. QED
      BY <3>2, <3>3
  <2>2. CASE WriteArray2
    BY <1>13, <2>2 DEF WriteArray2, CleanInv, Agree
  <2>3. QED
    BY <2>1, <2>2
<1>14. Agree'
  BY <1>2, <1>4, <1>10, <1>12, <1>13 DEF Agree, ram, BeforeHeader
<1>15. QED
  BY <1>9, <1>11, <1>14 DEF CleanInv

LEMMA HeaderClean ==
    IInv /\ CleanInv /\ (WriteHeader \/ WriteHeader2 \/ WriteMbr) => CleanInv'
<1> SUFFICES ASSUME IInv, CleanInv, WriteHeader \/ WriteHeader2 \/ WriteMbr, Clean PROVE CleanInv'
  BY DEF CleanInv, Clean, WriteHeader, WriteHeader2, WriteMbr
<1>1. /\ pc \in {"header", "header2", "mbr"} /\ pc' \in {"header2", "mbr", "stage2a", "stage2b", "done"}
      /\ UNCHANGED <<entries, original, ram>>
  BY DEF WriteHeader, WriteHeader2, WriteMbr, Unwritten
<1>2. NoStale'
  BY <1>1 DEF CleanInv, NoStale, Planned, ram
<1>3. Agree'
  BY <1>1 DEF Agree, BeforeHeader
<1>4. CASE WriteHeader
  <2>1. /\ header.count \in 0 .. ArraySectors /\ ArraySectors \in Nat
        /\ new_count \in 0 .. ArraySectors /\ new_count <= header.count + 1 /\ pc = "header"
    BY <1>4, SizeAssumption DEF IInv, RamOK, HeaderOK, PlanOK, Planned, WriteHeader
  <2>2. \A i \in 0 .. new_count - 1 : buffer3[i] = entries[i]
    BY <2>1 DEF CleanInv, Agree, Slots
  <2>3. lba1' = NewHeader(buffer3, new_count) /\ entries' = entries
    BY <1>4 DEF WriteHeader
  <2>4. /\ lba1'.signature /\ lba1'.count = new_count
        /\ lba1'.crc = Covered(buffer3, new_count)
    BY <2>3 DEF NewHeader
  <2>5. Valid(lba1, entries)'
    BY <2>2, <2>3, <2>4, CoveredSame DEF Valid
  <2>6. QED
    BY <1>2, <1>3, <2>5 DEF CleanInv
<1>5. CASE WriteHeader2 \/ WriteMbr
  <2>1. Valid(lba1, entries)'
    BY <1>1, <1>5 DEF CleanInv, Valid, WriteHeader2, WriteMbr
  <2>2. QED
    BY <1>2, <1>3, <2>1 DEF CleanInv
<1>6. QED
  BY <1>4, <1>5

LEMMA StageClean == IInv /\ CleanInv /\ (WriteStage2a \/ WriteStage2b) => CleanInv'
<1> SUFFICES ASSUME IInv, CleanInv, WriteStage2a \/ WriteStage2b, Clean PROVE CleanInv'
  BY DEF CleanInv, Clean, WriteStage2a, WriteStage2b
<1>9. /\ pc \in {"stage2a", "stage2b"} /\ UNCHANGED <<original, ram, lba1>>
      /\ ArraySectors \in Nat /\ at \in Nat /\ loader \in Loaders
  BY SizeAssumption DEF IInv, DiskOK, RamOK, WriteStage2a, WriteStage2b
<1>10. lba1.count = LocA(loader) /\ LocA(loader) >= 0
  BY <1>9 DEF IInv, PlanOK, Planned, BeforeHeader
<1>1. /\ pc \in {"stage2a", "stage2b"} /\ UNCHANGED <<original, ram, lba1>>
      /\ ArraySectors \in Nat /\ at \in Nat
      /\ lba1.count = LocA(loader) /\ LocA(loader) \in 0 .. ArraySectors
  BY <1>9, <1>10, Halves
<1>2. pc' \in {"stage2a", "stage2b", "done"}
  BY <1>1 DEF WriteStage2a, WriteStage2b, Advance, Unwritten
<1>3. ASSUME NEW i \in Slots
      PROVE  \/ entries'[i] = entries[i]
             \/ entries'[i] = Code(loader, at) /\ i >= LocA(loader)
  BY <1>1 DEF WriteStage2a, WriteStage2b, IInv, DiskOK, Slots
<1>4. NoStale'
  BY <1>1, <1>2, <1>3, Kinds DEF CleanInv, NoStale, Planned, ram
<1>5. Agree'
  BY <1>2 DEF Agree, BeforeHeader
<1>6. \A i \in 0 .. lba1.count - 1 : entries'[i] = entries[i]
  BY <1>1, <1>3 DEF Slots
<1>7. Valid(lba1, entries)'
  BY <1>1, <1>6, CoveredSame DEF CleanInv, Valid
<1>8. QED
  BY <1>4, <1>5, <1>7 DEF CleanInv

LEMMA InductiveClean == IInv /\ CleanInv /\ [Next]_vars => CleanInv'
<1> SUFFICES ASSUME IInv, CleanInv, [Next]_vars PROVE CleanInv'
  OBVIOUS
<1>1. ASSUME NEW l \in Loaders, Start(l) PROVE CleanInv'
  BY <1>1, QuietClean DEF Start, disk, Planned
<1>2. CASE ReadHeader \/ ReadHeader2
  BY <1>2, QuietClean DEF ReadHeader, ReadHeader2, disk, Planned
<1>3. CASE Crash
  BY <1>3, QuietClean DEF Crash, disk, Planned
<1>4. CASE UNCHANGED vars
  BY <1>4
  DEF vars, disk, ram, CleanInv, Clean, NoStale, Agree, Valid
<1>5. QED
  BY <1>1, <1>2, <1>3, <1>4, PlanClean, ArrayClean, HeaderClean, StageClean DEF Next, Step

(* Where the unused entries were empty, the primary header and array agree *)
(* after every single sector written: an interruption always leaves a      *)
(* readable primary partition table, whatever happened to the second copy. *)
THEOREM PrimaryStaysValid == Spec => []PrimaryValid
<1>1. CleanInv => PrimaryValid
  BY DEF CleanInv, Clean, PrimaryValid
<1>2. QED
  BY <1>1, InitIInv, Inductive, InitClean, InductiveClean, PTL DEF Spec

(* The signature checks refuse a disk only after an interruption: between  *)
(* two runs, the header that a run overwrites is there again.              *)
THEOREM RefusalNeedsCrash == Spec => []RefusedAfterCrash
<1> DEFINE Signed == /\ lba1.signature
                     /\ crashes = 0 => /\ pc # "invalid"
                                       /\ pc \notin {"array2", "header", "header2"}
                                             => alternate.signature
<1>1. Init => Signed
  BY DEF Init, NewHeader
<1>2. IInv /\ Signed /\ [Next]_vars => Signed'
  <2> SUFFICES ASSUME IInv, Signed, [Next]_vars PROVE Signed'
    OBVIOUS
  <2>1. ASSUME NEW l \in Loaders, Start(l) PROVE Signed'
    BY <2>1 DEF Start, disk
  <2>2. CASE ReadHeader \/ ReadHeader2
    BY <2>2 DEF ReadHeader, ReadHeader2, disk
  <2>3. CASE Plan
    BY <2>3 DEF Plan, disk
  <2>4. CASE WriteArray \/ WriteArray2
    <3>1. header.count \in Nat /\ at \in 0 .. header.count /\ header = lba1
          /\ header.count \in 0 .. ArraySectors /\ ArraySectors \in Nat
      BY <2>4, SizeAssumption
      DEF IInv, RamOK, HeaderOK, PlanOK, BeforeHeader, WriteArray, WriteArray2
    <3>2. pc' \in {"array", "array2", "header"} /\ UNCHANGED <<lba1, crashes>>
          /\ (pc' = "array" => pc = "array" /\ alternate' = alternate)
      BY <2>4 DEF WriteArray, WriteArray2, Advance
    <3>3. QED
      BY <3>2
  <2>5. CASE WriteHeader \/ WriteHeader2 \/ WriteMbr
    BY <2>5 DEF WriteHeader, WriteHeader2, WriteMbr, NewHeader, Unwritten
  <2>6. CASE WriteStage2a \/ WriteStage2b
    BY <2>6 DEF WriteStage2a, WriteStage2b, Advance, Unwritten
  <2>7. CASE Crash
    BY <2>7 DEF Crash, disk, IInv, RamOK
  <2>8. CASE UNCHANGED vars
    BY <2>8 DEF vars, disk
  <2>9. QED
    BY <2>1, <2>2, <2>3, <2>4, <2>5, <2>6, <2>7, <2>8 DEF Next, Step
<1>3. IInv /\ Signed => RefusedAfterCrash
  BY DEF RefusedAfterCrash, IInv, RamOK
<1>4. QED
  BY <1>1, <1>2, <1>3, InitIInv, Inductive, PTL DEF Spec
-----------------------------------------------------------------------------
(* What a run has put on the disk so far.  It is read from the buffer, which *)
(* holds what both arrays get, and stays as it is until the next run.      *)
Covering(h) == h = NewHeader(buffer3, new_count)

Same(array, n) == \A i \in Slots : i < n => array[i] = buffer3[i]

HasHalf(array, place, first, n) ==
    \A m \in 0 .. SizeLimit : m < n => array[place + m] = Code(loader, first + m)

Progress ==
    /\ pc = "array" => Same(entries, at)
    /\ pc \in {"array2", "header"} => Same(entries, header.count + 1)
    /\ pc = "array2" => Same(entries2, at)
    /\ pc = "header" => Same(entries2, header.count + 1)
    /\ pc \in {"header2", "mbr", "stage2a", "stage2b", "done"} =>
          /\ Same(entries, new_count) /\ Covering(lba1)
          /\ ~Swapped(loader) => Same(entries2, new_count)
    /\ pc \in {"mbr", "stage2a", "stage2b", "done"} => Covering(alternate)
    /\ pc \in {"stage2a", "stage2b", "done"} => lba0 = loader /\ new_count = LocA(loader) /\ new_count >= 0
    /\ pc = "stage2a" => HasHalf(entries, LocA(loader), 0, at)
    /\ pc \in {"stage2b", "done"} => HasHalf(entries, LocA(loader), 0, SizeA(loader))
    /\ pc = "stage2b" /\ ~Swapped(loader) => HasHalf(entries2, LocB(loader), SizeA(loader), at)
    /\ pc = "done" /\ ~Swapped(loader) => HasHalf(entries2, LocB(loader), SizeA(loader), SizeB(loader))

(* Where the program counter is none of those above, nothing is claimed.   *)
LEMMA NoProgress ==
    ASSUME pc' \in {"off", "read", "read2", "plan", "invalid", "aborted", "undefined"}
    PROVE  Progress'
BY DEF Progress

LEMMA PlanProgress == IInv /\ Plan => Progress'
<1> SUFFICES ASSUME Plan PROVE Progress'
  OBVIOUS
<1>1. pc' \in {"aborted", "undefined", "array"} /\ at' = 0
  BY DEF Plan
<1>2. Same(entries, at)'
  BY <1>1 DEF Same, Slots
<1>3. QED
  BY <1>1, <1>2 DEF Progress

LEMMA ArrayProgress == IInv /\ Progress /\ (WriteArray \/ WriteArray2) => Progress'
<1> SUFFICES ASSUME IInv, Progress, WriteArray \/ WriteArray2 PROVE Progress'
  OBVIOUS
<1>1. /\ header.count \in 0 .. ArraySectors /\ ArraySectors \in Nat /\ at \in 0 .. header.count
  BY SizeAssumption DEF IInv, PlanOK, RamOK, HeaderOK, WriteArray, WriteArray2
<1>2. UNCHANGED <<header, buffer3>>
  BY DEF WriteArray, WriteArray2, ram
<1>3. CASE WriteArray
  <2>1. pc = "array" /\ Same(entries, at) /\ entries2' = entries2
    BY <1>3 DEF WriteArray, Progress
  <2>2. \A i \in Slots : entries'[i] = IF i = at THEN buffer3[i] ELSE entries[i]
    BY <1>3 DEF WriteArray
  <2>3. \/ at + 1 < header.count + 1 /\ at' = at + 1 /\ pc' = "array"
        \/ at = header.count /\ at' = 0 /\ pc' = "array2"
    BY <1>1, <1>3 DEF WriteArray, Advance, Sectors
  <2>4. CASE pc' = "array"
    <3>1. Same(entries, at)'
      BY <1>1, <1>2, <2>1, <2>2, <2>3, <2>4 DEF Same, Slots
    <3>2. QED
      BY <2>4, <3>1 DEF Progress
  <2>5. CASE pc' = "array2"
    <3>1. Same(entries, header.count + 1)' /\ Same(entries2, at)'
      BY <1>1, <1>2, <2>1, <2>2, <2>3, <2>5 DEF Same, Slots
    <3>2. QED
      BY <2>5, <3>1 DEF Progress
  <2>6. QED
    BY <2>3, <2>4, <2>5
<1>4. CASE WriteArray2
  <2>1. pc = "array2" /\ Same(entries2, at) /\ Same(entries, header.count + 1) /\ entries' = entries
    BY <1>4 DEF WriteArray2, Progress
  <2>2. \A i \in Slots : entries2'[i] = IF i = at THEN buffer3[i] ELSE entries2[i]
    BY <1>4 DEF WriteArray2
  <2>3. \/ at + 1 < header.count + 1 /\ at' = at + 1 /\ pc' = "array2"
        \/ at = header.count /\ at' = 0 /\ pc' = "header"
    BY <1>1, <1>4 DEF WriteArray2, Advance, Sectors
  <2>4. Same(entries, header.count + 1)'
    BY <1>2, <2>1 DEF Same
  <2>5. CASE pc' = "array2"
    <3>1. Same(entries2, at)'
      BY <1>1, <1>2, <2>1, <2>2, <2>3, <2>5 DEF Same, Slots
    <3>2. QED
      BY <2>4, <2>5, <3>1 DEF Progress
  <2>6. CASE pc' = "header"
    <3>1. Same(entries2, header.count + 1)'
      BY <1>1, <1>2, <2>1, <2>2, <2>3, <2>6 DEF Same, Slots
    <3>2. QED
      BY <2>4, <2>6, <3>1 DEF Progress
  <2>7. QED
    BY <2>3, <2>5, <2>6
<1>5. QED
  BY <1>3, <1>4

(* Nothing was written yet of a half that has just been begun.             *)
LEMMA NoHalf == \A array, place, first : HasHalf(array, place, first, 0)
BY SizeAssumption DEF HasHalf

LEMMA HeaderProgress ==
    IInv /\ Progress /\ (WriteHeader \/ WriteHeader2 \/ WriteMbr) => Progress'
<1> SUFFICES ASSUME IInv, Progress, WriteHeader \/ WriteHeader2 \/ WriteMbr PROVE Progress'
  OBVIOUS
<1>1. UNCHANGED <<header, buffer3, new_count, loader, entries, entries2>>
  BY DEF WriteHeader, WriteHeader2, WriteMbr, ram
<1>2. /\ pc \in {"header", "header2", "mbr"} /\ new_count \in 0 .. ArraySectors /\ new_count = LocA(loader)
      /\ new_count <= header.count + 1 /\ header.count \in 0 .. ArraySectors /\ ArraySectors \in Nat
  BY SizeAssumption DEF IInv, RamOK, HeaderOK, PlanOK, Planned, WriteHeader, WriteHeader2, WriteMbr
<1>3. Same(entries, new_count)' /\ (~Swapped(loader)' => Same(entries2, new_count)')
  <2>1. Same(entries, new_count) /\ (~Swapped(loader) => Same(entries2, new_count))
    BY <1>2 DEF Progress, Same, Slots
  <2>2. Swapped(loader)' <=> Swapped(loader)
    BY <1>1 DEF Swapped, SizeA, SizeB
  <2>3. QED
    BY <1>1, <2>1, <2>2 DEF Same
<1>4. CASE WriteHeader
  <2>1. Covering(lba1)' /\ pc' = "header2"
    BY <1>1, <1>4 DEF WriteHeader, Covering
  <2>2. QED
    BY <1>3, <2>1 DEF Progress
<1>5. CASE WriteHeader2
  <2>1. Covering(lba1)' /\ Covering(alternate)' /\ pc' = "mbr"
    BY <1>1, <1>5 DEF WriteHeader2, Progress, Covering
  <2>2. QED
    BY <1>3, <2>1 DEF Progress
<1>6. CASE WriteMbr
  <2>1. /\ Covering(lba1)' /\ Covering(alternate)' /\ lba0' = loader'
        /\ at' = 0 /\ pc' = Unwritten("stage2a")
    BY <1>1, <1>6 DEF WriteMbr, Progress, Covering
  <2>2. /\ pc' \in {"stage2a", "stage2b", "done"}
        /\ pc' # "stage2a" => SizeA(loader) = 0
        /\ pc' = "done" => SizeB(loader) = 0
    BY <2>1 DEF Unwritten
  <2>3. new_count' = LocA(loader)' /\ new_count' >= 0
    BY <1>1, <1>2 DEF LocA, SizeA
  <2>4. SizeA(loader)' = SizeA(loader) /\ SizeB(loader)' = SizeB(loader)
    BY <1>1 DEF SizeA, SizeB
  <2>5. /\ HasHalf(entries, LocA(loader), 0, at)'
        /\ HasHalf(entries2, LocB(loader), SizeA(loader), at)'
        /\ pc' # "stage2a" => HasHalf(entries, LocA(loader), 0, SizeA(loader))'
        /\ pc' = "done" => HasHalf(entries2, LocB(loader), SizeA(loader), SizeB(loader))'
    BY <2>1, <2>2, <2>4, SizeAssumption DEF HasHalf
  <2>6. QED
    BY <1>3, <2>1, <2>2, <2>3, <2>5 DEF Progress
<1>7. QED
  BY <1>4, <1>5, <1>6

LEMMA StageProgress == IInv /\ Progress /\ (WriteStage2a \/ WriteStage2b) => Progress'
<1> SUFFICES ASSUME IInv, Progress, WriteStage2a \/ WriteStage2b PROVE Progress'
  OBVIOUS
<1>1. /\ UNCHANGED <<buffer3, new_count, loader, lba0, lba1, alternate>>
      /\ UNCHANGED <<LocA(loader), LocB(loader), SizeA(loader), SizeB(loader), Swapped(loader)>>
  BY DEF WriteStage2a, WriteStage2b, ram, LocA, LocB, SizeA, SizeB, Swapped
<1>3. /\ at \in Nat /\ new_count = LocA(loader) /\ new_count >= 0
      /\ lba0 = loader /\ Covering(lba1) /\ Covering(alternate)
      /\ Same(entries, new_count) /\ (~Swapped(loader) => Same(entries2, new_count))
      /\ pc = "stage2a" => at < SizeA(loader) /\ HasHalf(entries, LocA(loader), 0, at)
      /\ pc = "stage2b" => /\ at < SizeB(loader)
                           /\ ~Swapped(loader) => HasHalf(entries2, LocB(loader), SizeA(loader), at)
                           /\ HasHalf(entries, LocA(loader), 0, SizeA(loader))
  BY DEF IInv, RamOK, PlanOK, Progress, WriteStage2a, WriteStage2b
<1>2. /\ SizeA(loader) \in 0 .. SizeLimit - 1 /\ SizeB(loader) \in 0 .. SizeLimit - 1
      /\ ArraySectors \in Nat /\ SizeLimit \in Nat
      /\ LocA(loader) + SizeA(loader) = ArraySectors /\ LocA(loader) \in Nat
      /\ LocB(loader) + SizeB(loader) = ArraySectors /\ LocB(loader) \in Int
      /\ ~Swapped(loader) => LocB(loader) >= LocA(loader)
  <2>1. loader \in Loaders /\ ArraySectors \in Nat /\ SizeLimit \in Nat
    BY SizeAssumption DEF IInv, DiskOK
  <2>2. /\ SizeA(loader) \in 0 .. SizeLimit - 1 /\ SizeB(loader) \in 0 .. SizeLimit - 1
        /\ LocA(loader) \in Int /\ LocB(loader) \in Int
        /\ LocA(loader) + SizeA(loader) = ArraySectors /\ LocB(loader) + SizeB(loader) = ArraySectors
    BY <2>1, Halves
  <2> QED BY <1>3, <2>1, <2>2 DEF Swapped
<1>4. /\ lba0' = loader' /\ new_count' = LocA(loader)' /\ new_count' >= 0
      /\ Covering(lba1)' /\ Covering(alternate)'
  BY <1>1, <1>3 DEF Covering
<1>5. DOMAIN entries = Slots /\ DOMAIN entries2 = Slots
  BY DEF IInv, DiskOK
<1>6. CASE WriteStage2a
  <2>1. pc = "stage2a" /\ entries2' = entries2
        /\ entries' = [entries EXCEPT ![LocA(loader) + at] = Code(loader, at)]
    BY <1>6 DEF WriteStage2a
  <2>2. Same(entries, new_count)' /\ (~Swapped(loader)' => Same(entries2, new_count)')
    BY <1>1, <1>2, <1>3, <1>5, <2>1 DEF Same, Slots
  <2>3. ASSUME NEW m \in 0 .. SizeLimit, m < at + 1
        PROVE  entries'[LocA(loader) + m] = Code(loader, 0 + m)
    <3>1. LocA(loader) + m \in Slots /\ (m = at \/ (m < at /\ LocA(loader) + m # LocA(loader) + at)) /\ 0 + m = m
      BY <1>2, <1>3, <2>1, <2>3 DEF Slots
    <3>2. m < at => entries[LocA(loader) + m] = Code(loader, 0 + m)
      BY <1>3, <2>1 DEF HasHalf
    <3> QED BY <1>5, <2>1, <3>1, <3>2
  <2>4. \/ pc' = "stage2a" /\ at' = at + 1
        \/ pc' = Unwritten("stage2b") /\ at' = 0 /\ SizeA(loader) = at + 1
    BY <1>2, <1>3, <1>6, <2>1 DEF WriteStage2a, Advance
  <2>5. CASE pc' = "stage2a"
    <3>1. at' = at + 1
      BY <2>4, <2>5 DEF Unwritten
    <3>2. HasHalf(entries, LocA(loader), 0, at)'
      BY <1>1, <2>3, <3>1 DEF HasHalf
    <3>3. QED
      BY <1>4, <2>2, <2>5, <3>2 DEF Progress
  <2>6. CASE pc' # "stage2a"
    <3>1. HasHalf(entries, LocA(loader), 0, SizeA(loader))'
      BY <1>1, <2>3, <2>4, <2>6 DEF HasHalf
    <3>2. at' = 0 /\ pc' \in {"stage2b", "done"} /\ (pc' = "done" => SizeB(loader) = 0)
      BY <2>4, <2>6 DEF Unwritten
    <3>3. /\ HasHalf(entries2, LocB(loader), SizeA(loader), at)'
          /\ pc' = "done" => HasHalf(entries2, LocB(loader), SizeA(loader), SizeB(loader))'
      BY <1>1, <1>2, <3>2 DEF HasHalf
    <3>4. QED
      BY <1>4, <2>2, <3>1, <3>2, <3>3 DEF Progress
  <2>7. QED
    BY <2>5, <2>6
<1>7. CASE WriteStage2b
  <2>1. /\ pc = "stage2b" /\ entries' = entries
        /\ \A j \in Slots : entries2'[j] = IF j = LocB(loader) + at THEN Code(loader, SizeA(loader) + at)
                                           ELSE entries2[j]
    BY <1>7 DEF WriteStage2b
  <2>2. Same(entries, new_count)' /\ (~Swapped(loader)' => Same(entries2, new_count)')
    BY <1>1, <1>2, <1>3, <2>1 DEF Same, Slots
  <2>3. ASSUME ~Swapped(loader), NEW m \in 0 .. SizeLimit, m < at + 1
        PROVE  entries2'[LocB(loader) + m] = Code(loader, SizeA(loader) + m)
    <3>1. LocB(loader) + m \in Slots /\ (m = at \/ (m < at /\ LocB(loader) + m # LocB(loader) + at))
      BY <1>2, <1>3, <2>1, <2>3 DEF Slots
    <3>2. m < at => entries2[LocB(loader) + m] = Code(loader, SizeA(loader) + m)
      BY <1>3, <2>1, <2>3 DEF HasHalf
    <3> QED BY <2>1, <3>1, <3>2
  <2>4. HasHalf(entries, LocA(loader), 0, SizeA(loader))'
    BY <1>1, <1>3, <2>1 DEF HasHalf
  <2>5. \/ pc' = "stage2b" /\ at' = at + 1
        \/ pc' = "done" /\ at' = 0 /\ SizeB(loader) = at + 1
    BY <1>2, <1>3, <1>7, <2>1 DEF WriteStage2b, Advance
  <2>6. ~Swapped(loader)' =>
          /\ pc' = "stage2b" => HasHalf(entries2, LocB(loader), SizeA(loader), at)'
          /\ pc' = "done" => HasHalf(entries2, LocB(loader), SizeA(loader), SizeB(loader))'
    BY <1>1, <2>3, <2>5 DEF HasHalf
  <2>7. QED
    BY <1>4, <2>2, <2>4, <2>5, <2>6 DEF Progress
<1>8. QED
  BY <1>6, <1>7

LEMMA InductiveProgress == IInv /\ Progress /\ [Next]_vars => Progress'
<1> SUFFICES ASSUME IInv, Progress, [Next]_vars PROVE Progress'
  OBVIOUS
<1>1. ASSUME NEW l \in Loaders, Start(l) PROVE Progress'
  BY <1>1, NoProgress DEF Start
<1>2. CASE ReadHeader \/ ReadHeader2 \/ Crash
  BY <1>2, NoProgress DEF ReadHeader, ReadHeader2, Crash
<1>3. CASE UNCHANGED vars
  BY <1>3 DEF vars, disk, ram, Progress, Same, HasHalf, Covering, Swapped,
         LocA, LocB, SizeA, SizeB
<1>4. QED
  BY <1>1, <1>2, <1>3, PlanProgress, ArrayProgress, HeaderProgress, StageProgress DEF Next, Step

(* An installation that ends well has installed, whatever was interrupted  *)
(* before: the primary copy of the table is valid, both headers are equal  *)
(* and the MBR is that of the loader; of an image whose halves 16 bits can *)
(* count, the secondary copy is valid too and every sector of the second   *)
(* stage is where the MBR looks.                                           *)
THEOREM EndsInstalled == Spec => []Installed
<1>1. Init => Progress
  BY NoProgress DEF Init, Progress
<1>2. ASSUME IInv, Progress, pc = "done" PROVE Installed
  <2>1. /\ lba1 = NewHeader(buffer3, new_count) /\ alternate = lba1 /\ lba0 = loader
        /\ Same(entries, new_count) /\ (~Swapped(loader) => Same(entries2, new_count))
        /\ new_count = LocA(loader) /\ new_count >= 0
    BY <1>2 DEF Progress, Covering
  <2>2. /\ lba1.signature /\ lba1.count = new_count /\ lba1.crc = Covered(buffer3, new_count)
    BY <2>1 DEF NewHeader
  <2>3. new_count \in 0 .. ArraySectors /\ ArraySectors \in Nat /\ loader \in Loaders /\ SizeLimit \in Nat
    BY <1>2, <2>1, SizeAssumption DEF IInv, RamOK, DiskOK
  <2>4. Valid(lba1, entries) /\ (~Swapped(loader) => Valid(alternate, entries2))
    BY <2>1, <2>2, <2>3, CoveredSame DEF Valid, Same, Slots
  <2>5. /\ SizeA(loader) \in 0 .. SizeLimit - 1 /\ SizeB(loader) \in 0 .. SizeLimit - 1
        /\ LocA(loader) \in Int /\ LocB(loader) \in Int
        /\ Counted(loader) => SizeA(loader) + SizeB(loader) = Stage2[loader] /\ ~Swapped(loader)
    BY <2>3, Halves
  <2>6. ASSUME Counted(loader), NEW n \in 0 .. Stage2[loader] - 1 PROVE InPlace(loader, n)
    <3>1. /\ HasHalf(entries, LocA(loader), 0, SizeA(loader))
          /\ HasHalf(entries2, LocB(loader), SizeA(loader), SizeB(loader))
      BY <1>2, <2>5, <2>6 DEF Progress
    <3>2. CASE n < SizeA(loader)
      <4>1. n \in 0 .. SizeLimit /\ 0 + n = n
        BY <2>3, <2>5, <2>6, <3>2
      <4> QED BY <3>1, <3>2, <4>1 DEF HasHalf, InPlace
    <3>3. CASE ~(n < SizeA(loader))
      <4> DEFINE m == n - SizeA(loader)
      <4>1. /\ m \in 0 .. SizeLimit /\ m < SizeB(loader) /\ SizeA(loader) + m = n
            /\ LocB(loader) + n - SizeA(loader) = LocB(loader) + m
        BY <2>3, <2>5, <2>6, <3>3
      <4> HIDE DEF m
      <4>2. entries2[LocB(loader) + m] = Code(loader, SizeA(loader) + m)
        BY <3>1, <4>1 DEF HasHalf
      <4> QED BY <3>3, <4>1, <4>2 DEF InPlace
    <3> QED BY <3>2, <3>3
  <2>7. QED
    BY <2>1, <2>4, <2>5, <2>6 DEF Installed
<1>3. IInv /\ Progress => Installed
  BY <1>2 DEF Installed
<1>4. QED
  BY <1>1, <1>3, InitIInv, Inductive, InductiveProgress, PTL DEF Spec
=============================================================================
