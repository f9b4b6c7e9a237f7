--------------------------- MODULE GuestSetupProofs ---------------------------
(***************************************************************************)
(* Theorems about what the guest finds when its first instruction runs:    *)
(* the layout of memory, for every size of RAM, kernel and initrd, and the *)
(* processors, for every table of CPUID leaves the host's KVM starts from. *)
(***************************************************************************)
EXTENDS BootLayout, CpuTopology, Sequences, TLAPS

------------------------------------------------------------------------------
(* The initrd *)

\* Where an initrd may lie: page aligned, above the kernel, inside RAM.
CanHold(ramEnd, kernelEnd, len, a) ==
    a % PageSize = 0 /\ kernelEnd <= a /\ a + len <= ramEnd

\* AlignDown yields the greatest multiple of the page size that is not greater.
LEMMA AlignDownIsGreatest ==
    ASSUME NEW n \in Nat
    PROVE  /\ AlignDown(n) \in Nat /\ AlignDown(n) <= n /\ AlignDown(n) % 4096 = 0
           /\ \A a \in Nat : a % 4096 = 0 /\ a <= n => a <= AlignDown(n)
BY SMT DEF AlignDown, PageSize

\* place_initrd finds a place whenever there is one, and the highest there is;
\* for no valid size of RAM does its 32-bit test refuse one.
THEOREM PlaceInitrdIsBest ==
    ASSUME NEW ramEnd \in Nat, ValidMemSize(ramEnd), NEW kernelEnd \in Nat,
           NEW len \in Nat \ {0}
    PROVE  IF InitrdFits(ramEnd, kernelEnd, len)
           THEN /\ CanHold(ramEnd, kernelEnd, len, InitrdAddr(ramEnd, len))
                /\ \A a \in Nat : CanHold(ramEnd, kernelEnd, len, a)
                                   => a <= InitrdAddr(ramEnd, len)
           ELSE \A a \in Nat : ~ CanHold(ramEnd, kernelEnd, len, a)
<1> DEFINE addr == InitrdAddr(ramEnd, len)
<1>1. addr \in Nat /\ addr % 4096 = 0
  BY SMT, AlignDownIsGreatest DEF InitrdAddr
<1>2. len <= ramEnd => /\ addr <= ramEnd - len
                       /\ \A a \in Nat : a % 4096 = 0 /\ a <= ramEnd - len => a <= addr
  BY SMT, AlignDownIsGreatest DEF InitrdAddr
<1>3. U32Max \in Nat /\ ramEnd <= U32Max
  BY SMT DEF ValidMemSize, GuestRamEnd, U32Max
<1>4. QED
  BY SMT, <1>1, <1>2, <1>3 DEF InitrdFits, CanHold, PageSize

------------------------------------------------------------------------------
(* The identity map *)

\* How many pages and page directories RAM takes: the last page starts inside
\* RAM and none reaches the device windows.
LEMMA TableCounts ==
    ASSUME NEW ramEnd \in Nat, ValidMemSize(ramEnd)
    PROVE  /\ Num2MiB(ramEnd) \in 1 .. 1664 /\ NumPd(ramEnd) \in 1 .. 4
           /\ ramEnd <= Num2MiB(ramEnd) * HugePage
           /\ Num2MiB(ramEnd) * HugePage <= GuestRamEnd
           /\ Num2MiB(ramEnd) <= NumPd(ramEnd) * PdEntries
<1> DEFINE n == Num2MiB(ramEnd)
<1>1. n \in 1 .. 1664 /\ ramEnd <= n * 2097152
  BY SMT DEF ValidMemSize, Num2MiB, CeilDiv, GuestRamEnd, HugePage
<1>2. n * 2097152 <= GuestRamEnd
  BY SMTT(60), <1>1 DEF GuestRamEnd
<1>3. NumPd(ramEnd) = (n + 511) \div 512
  BY SMT, <1>1 DEF NumPd, CeilDiv, PdEntries
<1> HIDE DEF n
<1>4. NumPd(ramEnd) \in 1 .. 4 /\ n <= NumPd(ramEnd) * 512
  BY SMT, <1>1, <1>3
<1>5. QED
  BY SMT, <1>1, <1>2, <1>4 DEF n, HugePage, PdEntries

\* setup_identity_map refuses no size of RAM that validate_mem_size accepts: its
\* page tables end well below the command line.
THEOREM IdentityMapSucceeds ==
    ASSUME NEW ramEnd \in Nat, ValidMemSize(ramEnd)
    PROVE  ~ IdentityMapFails(ramEnd)
BY SMT, TableCounts
   DEF IdentityMapFails, PtEnd, PdTablesStart, PageSize, CmdlineStart, PdEntries

\* The walk reads the directory entry of the page the address lies in.
LEMMA TranslateByPage ==
    ASSUME NEW ramEnd \in Nat, ValidMemSize(ramEnd), NEW a \in Nat
    PROVE  Translate(ramEnd, a) = IF a \div HugePage < Num2MiB(ramEnd) THEN a ELSE NotPresent
<1> DEFINE page == a \div HugePage
           i == page \div PdEntries
           j == page % PdEntries
<1>1. page \in Nat /\ a = page * HugePage + (a % HugePage) /\ page * HugePage \in Nat
  BY SMT DEF HugePage
<1>2. page \in Nat /\ i \in Nat /\ j \in 0 .. 511 /\ page = i * 512 + j
  BY SMT, <1>1 DEF PdEntries
<1>3. Num2MiB(ramEnd) \in Int /\ NumPd(ramEnd) \in Int /\ Num2MiB(ramEnd) <= NumPd(ramEnd) * 512
  <2>1. /\ Num2MiB(ramEnd) \in 1 .. 1664 /\ NumPd(ramEnd) \in 1 .. 4
        /\ Num2MiB(ramEnd) <= NumPd(ramEnd) * PdEntries
    BY TableCounts
  <2>2. QED
    BY SMTT(60), <2>1 DEF PdEntries
<1>4. Translate(ramEnd, a) =
        IF PdptEntry(ramEnd, i) # NotPresent /\ PdEntry(ramEnd, PdptEntry(ramEnd, i), j) # NotPresent
        THEN PdEntry(ramEnd, PdptEntry(ramEnd, i), j) + (a % HugePage) ELSE NotPresent
  BY Zenon DEF Translate
<1> HIDE DEF page, i, j
<1>5. CASE i < NumPd(ramEnd)
  <2>1. PdptEntry(ramEnd, i) = PdTablesStart + i * PageSize /\ PdptEntry(ramEnd, i) # NotPresent
    BY SMT, <1>2, <1>5 DEF PdptEntry, NotPresent, PdTablesStart, PageSize
  <2>2. ((PdTablesStart + i * PageSize) - PdTablesStart) \div PageSize = i
    BY SMT, <1>2 DEF PdTablesStart, PageSize
  <2>3. PdEntry(ramEnd, PdptEntry(ramEnd, i), j)
          = IF page < Num2MiB(ramEnd) THEN page * HugePage ELSE NotPresent
    BY <1>2, <2>1, <2>2 DEF PdEntry, PdEntries
  <2>4. page * HugePage # NotPresent
    BY SMT, <1>1 DEF NotPresent
  <2>5. QED
    BY Zenon, <1>1, <1>4, <2>1, <2>3, <2>4 DEF page
<1>6. CASE ~ (i < NumPd(ramEnd))
  <2>1. ~ (page < Num2MiB(ramEnd))
    <3>1. Num2MiB(ramEnd) <= i * 512
      BY SMT, <1>2, <1>3, <1>6
    <3>2. page \in Int /\ i * 512 \in Int /\ i * 512 <= page
      BY SMT, <1>2
    <3>3. QED
      BY SMT, <1>3, <3>1, <3>2
  <2>2. QED
    BY Zenon, <1>4, <1>6, <2>1 DEF PdptEntry, page
<1>7. QED
  BY <1>5, <1>6

\* Every byte of RAM is mapped, to itself.
THEOREM RamIsIdentityMapped ==
    ASSUME NEW ramEnd \in Nat, ValidMemSize(ramEnd), NEW a \in 0 .. ramEnd - 1
    PROVE  Translate(ramEnd, a) = a
<1>1. Num2MiB(ramEnd) \in 1 .. 1664 /\ ramEnd <= Num2MiB(ramEnd) * HugePage
  BY TableCounts
<1>2. a \in Nat /\ a \div HugePage < Num2MiB(ramEnd)
  BY SMTT(60), <1>1 DEF HugePage
<1>3. QED
  BY <1>2, TranslateByPage

\* Nothing above the largest RAM is mapped: a kernel that runs on these tables
\* does not reach device registers by accident.
THEOREM DevicesAreUnmapped ==
    ASSUME NEW ramEnd \in Nat, ValidMemSize(ramEnd), NEW a \in Nat, a >= GuestRamEnd
    PROVE  Translate(ramEnd, a) = NotPresent
<1>1. Num2MiB(ramEnd) \in 1 .. 1664 /\ Num2MiB(ramEnd) * HugePage <= GuestRamEnd
  BY TableCounts
<1>2. ~ (a \div HugePage < Num2MiB(ramEnd))
  BY SMTT(60), <1>1 DEF HugePage, GuestRamEnd
<1>3. QED
  BY <1>2, TranslateByPage

------------------------------------------------------------------------------
(* Boot data *)

\* Three devices and COM1 make a DSDT of a few hundred bytes.
MaxDsdt == 65536

\* The next table starts behind this one, less than 16 bytes later.
LEMMA NextTable ==
    ASSUME NEW start \in Nat, NEW len \in Nat
    PROVE  /\ AcpiNext(Region(start, len)) \in Nat
           /\ Region(start, len).end <= AcpiNext(Region(start, len))
           /\ AcpiNext(Region(start, len)) <= start + len + 15
<1> DEFINE r == Region(start, len)
<1>1. r.start = start /\ r.end = start + len
  BY SMT DEF Region
<1>2. r.end - r.start = len
  BY SMT, <1>1
<1>3. AlignUp(len, 16) \in Nat /\ len <= AlignUp(len, 16) /\ AlignUp(len, 16) <= len + 15
  BY SMT DEF AlignUp, CeilDiv
<1>4. AcpiNext(r) = start + AlignUp(len, 16)
  BY <1>1, <1>2 DEF AcpiNext
<1> HIDE DEF r
<1>5. AcpiNext(r) \in Nat /\ r.end <= AcpiNext(r) /\ AcpiNext(r) <= start + len + 15
  BY SMT, <1>1, <1>3, <1>4
<1>6. QED
  BY <1>5 DEF r

\* install_tables: the tables follow each other, and end before the kernel.
THEOREM AcpiTablesFit ==
    ASSUME NEW dsdtLen \in Nat, dsdtLen <= MaxDsdt, NEW n \in Nat, n <= 32
    PROVE  /\ Dsdt(dsdtLen).start = AcpiTablesBase
           /\ Before(Dsdt(dsdtLen), Fadt(dsdtLen))
           /\ Before(Fadt(dsdtLen), Madt(dsdtLen, n))
           /\ Before(Madt(dsdtLen, n), Xsdt(dsdtLen, n))
           /\ Before(Xsdt(dsdtLen, n), Rsdp(dsdtLen, n))
           /\ Rsdp(dsdtLen, n).end <= HimemStart
<1> DEFINE f == AcpiNext(Dsdt(dsdtLen))
           m == AcpiNext(Fadt(dsdtLen))
           x == AcpiNext(Madt(dsdtLen, n))
           p == AcpiNext(Xsdt(dsdtLen, n))
<1>1. f \in Nat /\ Dsdt(dsdtLen).end <= f /\ f <= AcpiTablesBase + dsdtLen + 15
  <2>1. AcpiTablesBase \in Nat
    BY SMT DEF AcpiTablesBase
  <2>2. QED
    BY Zenon, NextTable, <2>1 DEF Dsdt
<1>2. m \in Nat /\ Fadt(dsdtLen).end <= m /\ m <= f + FadtSize + 15
  <2>1. FadtSize \in Nat
    BY SMT DEF FadtSize
  <2>2. QED
    BY Zenon, NextTable, <1>1, <2>1 DEF Fadt
<1>3. x \in Nat /\ Madt(dsdtLen, n).end <= x /\ x <= m + MadtSize(n) + 15
  <2>1. MadtSize(n) \in Nat
    BY SMT DEF MadtSize
  <2>2. QED
    BY Zenon, NextTable, <1>2, <2>1 DEF Madt
<1>4. p \in Nat /\ Xsdt(dsdtLen, n).end <= p /\ p <= x + XsdtSize + 15
  <2>1. XsdtSize \in Nat
    BY SMT DEF XsdtSize
  <2>2. QED
    BY Zenon, NextTable, <1>3, <2>1 DEF Xsdt
<1>5. /\ Dsdt(dsdtLen).start = AcpiTablesBase
      /\ Fadt(dsdtLen).start = f /\ Madt(dsdtLen, n).start = m
      /\ Xsdt(dsdtLen, n).start = x /\ Rsdp(dsdtLen, n).start = p
      /\ Rsdp(dsdtLen, n).end = p + RsdpSize
  BY SMT DEF Dsdt, Fadt, Madt, Xsdt, Rsdp, Region
<1> HIDE DEF f, m, x, p
<1>6. p + RsdpSize <= HimemStart
  BY SMT, <1>1, <1>2, <1>3, <1>4
     DEF HimemStart, AcpiTablesBase, MaxDsdt, FadtSize, MadtSize, XsdtSize, RsdpSize
<1>7. QED
  BY SMT, <1>1, <1>2, <1>3, <1>4, <1>5, <1>6 DEF Before

\* load_kernel: of all that is written below the tables, each piece ends before
\* the next begins, whether it belongs to one boot protocol or to the other, and
\* the last ends inside the RAM the guest is told of.  The boot stack grows from
\* below the page tables towards the zero page.
THEOREM BootDataInOrder ==
    ASSUME NEW ramEnd \in Nat, ValidMemSize(ramEnd),
           NEW cmdlineLen \in Nat, cmdlineLen < CmdlineCapacity
    PROVE  LET r == LowRegions(ramEnd, cmdlineLen)
           IN  /\ \A i \in 1 .. 9 : Before(r[i], r[i + 1])
               /\ LowRam.start <= r[1].start /\ r[10].end <= LowRam.end
               /\ r[6].end < BootStackPointer /\ BootStackPointer <= r[7].start
<1> DEFINE r == LowRegions(ramEnd, cmdlineLen)
           pd == NumPd(ramEnd)
<1>1. pd \in Nat /\ pd <= 4
  <2>1. pd \in 1 .. 4
    BY TableCounts
  <2>2. QED
    BY SMT, <2>1
<1>2. /\ r[1] = Region(BootGdtOffset, 32) /\ r[2] = Region(BootIdtOffset, 8)
      /\ r[3] = Region(PvhInfoStart, 56) /\ r[4] = Region(PvhMemmapStart, 48)
      /\ r[5] = Region(PvhModlistStart, 32) /\ r[6] = Region(ZeroPageStart, 4096)
      /\ r[7] = Region(Pml4Start, 4096) /\ r[8] = Region(PdptStart, 4096)
      /\ r[9] = Region(PdTablesStart, pd * PageSize)
      /\ r[10] = Region(CmdlineStart, cmdlineLen + 1)
  BY SMT DEF LowRegions
<1> HIDE DEF r, pd
<1>3. /\ Before(r[1], r[2]) /\ Before(r[2], r[3]) /\ Before(r[3], r[4]) /\ Before(r[4], r[5])
      /\ Before(r[5], r[6]) /\ Before(r[6], r[7]) /\ Before(r[7], r[8]) /\ Before(r[8], r[9])
  BY SMT, <1>2 DEF Before, Region, BootGdtOffset, BootIdtOffset, PvhInfoStart, PvhMemmapStart,
     PvhModlistStart, ZeroPageStart, Pml4Start, PdptStart, PdTablesStart
<1>4. Before(r[9], r[10])
  BY SMT, <1>1, <1>2 DEF Before, Region, PdTablesStart, PageSize, CmdlineStart
<1>5. LowRam.start <= r[1].start /\ r[10].end <= LowRam.end
  BY SMT, <1>2 DEF LowRam, Region, BootGdtOffset, CmdlineStart, CmdlineCapacity, EbdaStart
<1>6. r[6].end < BootStackPointer /\ BootStackPointer <= r[7].start
  BY SMT, <1>2 DEF Region, ZeroPageStart, Pml4Start, BootStackPointer
<1>7. ASSUME NEW i \in 1 .. 9 PROVE Before(r[i], r[i + 1])
  BY SMT, <1>3, <1>4
<1>8. QED
  BY Zenon, <1>5, <1>6, <1>7 DEF r

\* The memory map handed to the guest offers it the kernel's RAM up to the last
\* byte, and neither ACPI tables nor device registers.
THEOREM MemoryMapIsSound ==
    ASSUME NEW ramEnd \in Nat, ValidMemSize(ramEnd), AcpiAccepts(ramEnd),
           NEW dsdtLen \in Nat, dsdtLen <= MaxDsdt, NEW n \in Nat, n <= 32
    PROVE  /\ LowRam.end <= Dsdt(dsdtLen).start
           /\ Before(Rsdp(dsdtLen, n), HighRam(ramEnd))
           /\ HighRam(ramEnd).start < HighRam(ramEnd).end /\ HighRam(ramEnd).end = ramEnd
           /\ \A kind \in MmioKinds : Before(HighRam(ramEnd), MmioWindow(kind))
<1>1. HighRam(ramEnd).start = HimemStart /\ HighRam(ramEnd).end = ramEnd /\ HimemStart < ramEnd
  BY SMT DEF HighRam, Region, AcpiAccepts, HimemStart
<1>2. LowRam.end <= AcpiTablesBase
  BY SMT DEF LowRam, Region, EbdaStart, AcpiTablesBase
<1>3. Dsdt(dsdtLen).start = AcpiTablesBase /\ Rsdp(dsdtLen, n).end <= HimemStart
  BY AcpiTablesFit
<1>4. ASSUME NEW kind \in MmioKinds PROVE ramEnd <= MmioWindow(kind).start
  <2>1. ramEnd <= GuestRamEnd /\ GuestRamEnd \in Nat
    BY SMT DEF ValidMemSize, GuestRamEnd
  <2>2. MmioWindow(kind).start \in {GuestRamEnd, GuestRamEnd + 4096, GuestRamEnd + 8192}
    BY SMT DEF MmioKinds, MmioWindow, Region
  <2>3. QED
    BY SMT, <2>1, <2>2
<1>5. QED
  BY <1>1, <1>2, <1>3, <1>4 DEF Before

\* No two devices share a register: an MMIO exit has one device to go to.
THEOREM MmioWindowsAreDisjoint ==
    ASSUME NEW a \in MmioKinds, NEW b \in MmioKinds, a # b
    PROVE  Before(MmioWindow(a), MmioWindow(b)) \/ Before(MmioWindow(b), MmioWindow(a))
<1>1. GuestRamEnd \in Nat
  BY SMT DEF GuestRamEnd
<1>2. /\ MmioWindow("block") = Region(GuestRamEnd, 4096)
      /\ MmioWindow("net") = Region(GuestRamEnd + 4096, 4096)
      /\ MmioWindow("vsock") = Region(GuestRamEnd + 8192, 4096)
  BY SMT DEF MmioWindow, MmioSize
<1>3. QED
  BY SMT, <1>1, <1>2 DEF Before, Region, MmioKinds

------------------------------------------------------------------------------
(* The processors: however a guest enumerates them, it finds the vCPUs that *)
(* Vmm::new created.                                                        *)

HostEntries ==
    [function : Nat, index : Nat, level : Nat, id : Nat, count : Nat, shift : Nat, share : Nat]

\* next_power_of_two of a number of vCPUs.
LEMMA NextPowerBounds ==
    ASSUME NEW n \in 1 .. 32
    PROVE  /\ NextPower(n) \in 1 .. 6
           /\ n <= Powers[NextPower(n)] /\ Powers[NextPower(n)] \in 1 .. 32
<1> DEFINE Least(i) == n <= Powers[i] /\ \A j \in 1 .. 8 : n <= Powers[j] => i <= j
<1>1. /\ Powers[1] = 1 /\ Powers[2] = 2 /\ Powers[3] = 4 /\ Powers[4] = 8
      /\ Powers[5] = 16 /\ Powers[6] = 32 /\ Powers[7] = 64 /\ Powers[8] = 128
  BY DEF Powers
<1>2. \E i \in 1 .. 8 : Least(i)
  <2>1. CASE n = 1
    <3>1. Least(1)
      BY <1>1, <2>1
    <3>2. QED
      BY <3>1
  <2>2. CASE n = 2
    <3>1. Least(2)
      BY <1>1, <2>2
    <3>2. QED
      BY <3>1
  <2>3. CASE n \in 3 .. 4
    <3>1. Least(3)
      BY <1>1, <2>3
    <3>2. QED
      BY <3>1
  <2>4. CASE n \in 5 .. 8
    <3>1. Least(4)
      BY <1>1, <2>4
    <3>2. QED
      BY <3>1
  <2>5. CASE n \in 9 .. 16
    <3>1. Least(5)
      BY <1>1, <2>5
    <3>2. QED
      BY <3>1
  <2>6. CASE n \in 17 .. 32
    <3>1. Least(6)
      BY <1>1, <2>6
    <3>2. QED
      BY <3>1
  <2>7. QED
    BY SMT, <2>1, <2>2, <2>3, <2>4, <2>5, <2>6
<1>3. NextPower(n) \in 1 .. 8 /\ Least(NextPower(n))
  BY <1>2 DEF NextPower
<1>4. n <= Powers[6] /\ 6 \in 1 .. 8
  BY <1>1
<1>5. NextPower(n) \in 1 .. 6 /\ n <= Powers[NextPower(n)]
  BY <1>3, <1>4
<1>6. QED
  BY <1>1, <1>5

\* The package of an APIC id is what is left of it behind the shift.
LEMMA ShiftIsFive == PackageIdShift = 5 /\ Powers[PackageIdShift + 1] = 32
<1>1. NextPower(32) \in 1 .. 6 /\ 32 <= Powers[NextPower(32)]
  BY NextPowerBounds
<1>2. NextPower(32) = 6
  BY SMT, <1>1 DEF Powers
<1>3. QED
  BY SMT, <1>2 DEF PackageIdShift, MaxVcpus, Powers

\* What an entry says after the loop of apply_cpu_topology.
SaysTopology(e, id, n) ==
    /\ e.function = MaxLeaf => e.level >= ExtTopology
    /\ e.function \in {Features, ExtTopology, AmdApicId} => e.id = id
    /\ e.function = Features => n <= e.count /\ (e.level = 1 <=> n > 1)
    /\ e.function = ExtTopology /\ e.index = 0 => e.level = 1 /\ e.count = 1 /\ e.shift = 0
    /\ e.function = ExtTopology /\ e.index = 1 => e.level = 2 /\ e.count = n /\ e.shift = 5
    /\ e.function = ExtTopology /\ e.index > 1 => e.level = 0
    /\ e.function = CacheLeaf /\ e.level \in 1 .. 3 => e.count = n /\ e.share = IF e.level = 3 THEN n ELSE 1
    /\ e.function = AmdSizes => e.count = n /\ e.shift = 5

\* The loop keeps the leaf of an entry and sets its numbers, none truncated.
LEMMA EntrySaysTopology ==
    ASSUME NEW e \in HostEntries, NEW n \in 1 .. 32, NEW id \in 0 .. n - 1
    PROVE  LET s == SetTopology(e, id, n)
           IN  /\ s \in HostEntries /\ s.function = e.function /\ s.index = e.index
               /\ SaysTopology(s, id, n)
<1> DEFINE s == SetTopology(e, id, n)
<1>1. /\ Bits(id, 256) = id /\ Bits(n, 65536) = n /\ Bits(1, 65536) = 1 /\ Bits(0, 32) = 0
      /\ Bits(5, 32) = 5 /\ Bits(n - 1, 64) + 1 = n /\ Bits(n - 1, 256) + 1 = n
      /\ Bits(n - 1, 4096) + 1 = n /\ Bits(0, 4096) + 1 = 1
  BY SMT DEF Bits
<1>2. MaxLogicalProcessors(n) \in 1 .. 32 /\ n <= MaxLogicalProcessors(n)
  BY NextPowerBounds DEF MaxLogicalProcessors
<1>3. Bits(MaxLogicalProcessors(n), 256) = MaxLogicalProcessors(n)
  BY SMT, <1>2 DEF Bits
<1>4. PackageIdShift = 5
  BY ShiftIsFive
<1> USE DEF HostEntries, SaysTopology, MaxLeaf, Features, CacheLeaf, ExtTopology, AmdSizes, AmdApicId
<1>5. CASE e.function = MaxLeaf
  BY SMT, <1>5 DEF SetTopology
<1>6. CASE e.function = Features
  BY SMT, <1>1, <1>2, <1>3, <1>6 DEF SetTopology, Entry
<1>7. CASE e.function = ExtTopology
  BY SMT, <1>1, <1>4, <1>7 DEF SetTopology, TopologyLevel, Entry
<1>8. CASE e.function = CacheLeaf
  BY SMT, <1>1, <1>8 DEF SetTopology, Cache, Entry
<1>9. CASE e.function = AmdSizes
  BY SMT, <1>1, <1>4, <1>9 DEF SetTopology, Entry
<1>10. CASE e.function = AmdApicId
  BY SMT, <1>10 DEF SetTopology
<1> HIDE DEF HostEntries, SaysTopology, MaxLeaf, Features, CacheLeaf, ExtTopology, AmdSizes, AmdApicId
<1>11. CASE e.function \notin {MaxLeaf, Features, ExtTopology, CacheLeaf, AmdSizes, AmdApicId}
  <2>1. SetTopology(e, id, n) = e
    BY Zenon, <1>11 DEF SetTopology
  <2>2. SaysTopology(e, id, n)
    BY Zenon, <1>11 DEF SaysTopology
  <2>3. QED
    BY Zenon, <2>1, <2>2
<1>12. QED
  BY Zenon, <1>5, <1>6, <1>7, <1>8, <1>9, <1>10, <1>11

\* The subleaves 0 and 1 of leaf 0xb are there for the loop to fill.
LEMMA CompleteTable ==
    ASSUME NEW entries \in SUBSET HostEntries
    PROVE  LET complete == EnsureSubleaf(EnsureSubleaf(entries, ExtTopology, 0), ExtTopology, 1)
           IN  /\ complete \in SUBSET HostEntries
               /\ \A i \in {0, 1} : \E e \in complete : e.function = ExtTopology /\ e.index = i
<1>1. ASSUME NEW es \in SUBSET HostEntries, NEW i \in {0, 1}
      PROVE  /\ EnsureSubleaf(es, ExtTopology, i) \in SUBSET HostEntries
             /\ es \subseteq EnsureSubleaf(es, ExtTopology, i)
             /\ \E e \in EnsureSubleaf(es, ExtTopology, i) : e.function = ExtTopology /\ e.index = i
  <2> DEFINE new == Entry(ExtTopology, i, 0, 0, 0, 0, 0)
  <2>1. new \in HostEntries /\ new.function = ExtTopology /\ new.index = i
    BY SMT DEF HostEntries, Entry, ExtTopology
  <2> HIDE DEF new
  <2>2. EnsureSubleaf(es, ExtTopology, i)
          = IF \E e \in es : e.function = ExtTopology /\ e.index = i THEN es ELSE es \cup {new}
    BY DEF EnsureSubleaf, new
  <2>3. QED
    BY Zenon, <2>1, <2>2
<1>2. 0 \in {0, 1} /\ 1 \in {0, 1}
  OBVIOUS
<1> DEFINE first == EnsureSubleaf(entries, ExtTopology, 0)
<1>3. first \in SUBSET HostEntries /\ \E e \in first : e.function = ExtTopology /\ e.index = 0
  BY Zenon, <1>1, <1>2
<1> HIDE DEF first
<1> DEFINE second == EnsureSubleaf(first, ExtTopology, 1)
<1>4. /\ second \in SUBSET HostEntries /\ first \subseteq second
      /\ \E e \in second : e.function = ExtTopology /\ e.index = 1
  BY Zenon, <1>1, <1>2, <1>3
<1> HIDE DEF second
<1>5. \A i \in {0, 1} : \E e \in second : e.function = ExtTopology /\ e.index = i
  BY Zenon, <1>3, <1>4
<1>6. QED
  BY Zenon, <1>4, <1>5 DEF first, second

------------------------------------------------------------------------------
\* The leaf an entry is about: 0x1f is read as 0xb is.
AsExtTopology(e) ==
    IF e.function = V2Topology
    THEN Entry(ExtTopology, e.index, e.level, e.id, e.count, e.shift, e.share)
    ELSE e

\* apply_cpu_topology: whatever the host's table, every leaf the guest may enumerate processors with
\* tells it the same: this vCPU's APIC id, which the MADT lists, n processors and one package.  Leaf
\* 0xb is always there to be read, and 0x1f holds nothing that the host had in it.
THEOREM LeavesAgree ==
    ASSUME NEW entries \in SUBSET HostEntries, NEW n \in 1 .. MaxVcpus, NEW id \in MadtIds(n)
    PROVE  LET table == ApplyCpuTopology(entries, id, n)
           IN  /\ \A e \in table : SaysTopology(AsExtTopology(e), id, n)
               /\ \A i \in {0, 1} : \E e \in table : e.function = ExtTopology /\ e.index = i
               /\ \A m \in MadtIds(n) : m < Powers[PackageIdShift + 1]
<1> DEFINE complete == EnsureSubleaf(EnsureSubleaf(entries, ExtTopology, 0), ExtTopology, 1)
           filled == {SetTopology(e, id, n) : e \in complete}
           table == MirrorTopology(filled)
<1>1. n \in 1 .. 32 /\ id \in 0 .. n - 1
  BY DEF MaxVcpus, MadtIds
<1>2. /\ complete \in SUBSET HostEntries
      /\ \A i \in {0, 1} : \E e \in complete : e.function = ExtTopology /\ e.index = i
  BY CompleteTable
<1> HIDE DEF complete
<1>3. \A e \in complete :
         LET s == SetTopology(e, id, n)
         IN  /\ s \in HostEntries /\ s.function = e.function /\ s.index = e.index
             /\ SaysTopology(s, id, n)
  BY <1>1, <1>2, EntrySaysTopology
<1>4. \A s \in filled : s \in HostEntries /\ SaysTopology(s, id, n)
  BY Zenon, <1>3
<1>5. \A i \in {0, 1} : \E s \in filled : s.function = ExtTopology /\ s.index = i
  BY Zenon, <1>2, <1>3
<1> HIDE DEF filled
<1>6. ExtTopology # V2Topology
  BY DEF ExtTopology, V2Topology
<1>7. ASSUME NEW e \in filled, e.function # V2Topology
      PROVE  e \in table /\ AsExtTopology(e) = e
  BY Zenon, <1>7 DEF MirrorTopology, AsExtTopology
<1>8. \A i \in {0, 1} : \E e \in table : e.function = ExtTopology /\ e.index = i
  <2> HIDE DEF table
  <2> QED BY Zenon, <1>5, <1>6, <1>7
<1>9. ASSUME NEW e \in table
      PROVE  \/ e \in filled /\ e.function # V2Topology
             \/ \E d \in filled : d.function = ExtTopology /\ e = [d EXCEPT !.function = V2Topology]
  BY Zenon DEF MirrorTopology
<1>10. ASSUME NEW e \in table
       PROVE  SaysTopology(AsExtTopology(e), id, n)
  <2>1. CASE e \in filled /\ e.function # V2Topology
    BY Zenon, <1>4, <1>7, <2>1
  <2>2. ASSUME NEW d \in filled, d.function = ExtTopology, e = [d EXCEPT !.function = V2Topology]
        PROVE  SaysTopology(AsExtTopology(e), id, n)
    <3>1. d \in HostEntries
      BY <1>4
    <3>2. /\ e.function = V2Topology /\ e.index = d.index /\ e.level = d.level
          /\ e.id = d.id /\ e.count = d.count /\ e.shift = d.shift /\ e.share = d.share
      BY SMT, <2>2, <3>1 DEF HostEntries
    <3>3. d = Entry(ExtTopology, d.index, d.level, d.id, d.count, d.shift, d.share)
      BY SMT, <2>2, <3>1 DEF HostEntries, Entry
    <3>4. AsExtTopology(e) = d
      BY Zenon, <3>2, <3>3 DEF AsExtTopology
    <3>5. QED
      BY <1>4, <3>4
  <2>3. QED
    BY Zenon, <1>9, <2>1, <2>2
<1>11. \A m \in MadtIds(n) : m < Powers[PackageIdShift + 1]
  BY SMT, <1>1, ShiftIsFive DEF MadtIds
<1>12. ApplyCpuTopology(entries, id, n) = table
  BY DEF ApplyCpuTopology, table, filled, complete
<1> HIDE DEF table
<1>13. QED
  BY Zenon, <1>8, <1>10, <1>11, <1>12

------------------------------------------------------------------------------
OneEntryPerLeaf(entries) ==
    \A d, e \in entries : d.function = e.function /\ d.index = e.index => d = e

\* apply_cpu_topology: a table with one entry per leaf keeps one per leaf.  A subleaf that was added
\* does not shadow the host's, and a copy in leaf 0x1f does not stand beside what was there.
THEOREM LeavesAreUnique ==
    ASSUME NEW entries \in SUBSET HostEntries, NEW n \in 1 .. MaxVcpus, NEW id \in MadtIds(n),
           OneEntryPerLeaf(entries)
    PROVE  OneEntryPerLeaf(ApplyCpuTopology(entries, id, n))
<1> DEFINE complete == EnsureSubleaf(EnsureSubleaf(entries, ExtTopology, 0), ExtTopology, 1)
           filled == {SetTopology(e, id, n) : e \in complete}
<1>1. n \in 1 .. 32 /\ id \in 0 .. n - 1
  BY DEF MaxVcpus, MadtIds
<1>2. complete \in SUBSET HostEntries
  BY CompleteTable
<1>3. ASSUME NEW es, OneEntryPerLeaf(es), NEW i
      PROVE  OneEntryPerLeaf(EnsureSubleaf(es, ExtTopology, i))
  <2> DEFINE new == Entry(ExtTopology, i, 0, 0, 0, 0, 0)
  <2>1. new.function = ExtTopology /\ new.index = i
    BY DEF Entry
  <2> HIDE DEF new
  <2>2. EnsureSubleaf(es, ExtTopology, i)
          = IF \E e \in es : e.function = ExtTopology /\ e.index = i THEN es ELSE es \cup {new}
    BY DEF EnsureSubleaf, new
  <2>3. CASE \E e \in es : e.function = ExtTopology /\ e.index = i
    BY Zenon, <1>3, <2>2, <2>3
  <2>4. CASE ~ \E e \in es : e.function = ExtTopology /\ e.index = i
    <3>1. EnsureSubleaf(es, ExtTopology, i) = es \cup {new}
      BY Zenon, <2>2, <2>4
    <3>2. ASSUME NEW d \in es \cup {new}, NEW e \in es \cup {new},
                 d.function = e.function, d.index = e.index
          PROVE  d = e
      <4>1. CASE d \in es /\ e \in es
        BY Zenon, <1>3, <3>2, <4>1 DEF OneEntryPerLeaf
      <4>2. CASE d = new \/ e = new
        BY SMT, <2>1, <2>4, <3>2, <4>2
      <4>3. QED
        BY Zenon, <4>1, <4>2
    <3>3. QED
      BY Zenon, <3>1, <3>2 DEF OneEntryPerLeaf
  <2>5. QED
    BY Zenon, <2>3, <2>4
<1>4. OneEntryPerLeaf(complete)
  BY Zenon, <1>3
<1> HIDE DEF complete
<1>5. \A e \in complete : /\ SetTopology(e, id, n) \in HostEntries
                          /\ SetTopology(e, id, n).function = e.function
                          /\ SetTopology(e, id, n).index = e.index
  BY <1>1, <1>2, EntrySaysTopology
<1>6. OneEntryPerLeaf(filled) /\ filled \in SUBSET HostEntries
  <2>1. ASSUME NEW a \in complete, NEW b \in complete,
               SetTopology(a, id, n).function = SetTopology(b, id, n).function,
               SetTopology(a, id, n).index = SetTopology(b, id, n).index
        PROVE  a = b
    <3>1. a.function = b.function /\ a.index = b.index
      BY SMT, <1>5, <2>1
    <3>2. QED
      BY Zenon, <1>4, <3>1 DEF OneEntryPerLeaf
  <2>2. filled \in SUBSET HostEntries
    BY Zenon, <1>5
  <2>3. ASSUME NEW d \in filled, NEW e \in filled, d.function = e.function, d.index = e.index
        PROVE  d = e
    <3>1. PICK a \in complete : d = SetTopology(a, id, n)
      BY Zenon
    <3>2. PICK b \in complete : e = SetTopology(b, id, n)
      BY Zenon
    <3>3. a = b
      BY Zenon, <2>1, <2>3, <3>1, <3>2
    <3>4. QED
      BY Zenon, <3>1, <3>2, <3>3
  <2>4. QED
    BY Zenon, <2>2, <2>3 DEF OneEntryPerLeaf
<1> HIDE DEF filled
<1>7. ApplyCpuTopology(entries, id, n) = MirrorTopology(filled)
  BY DEF ApplyCpuTopology, filled, complete
<1>8. CASE ~ \E e \in filled : e.function = V2Topology
  <2>1. MirrorTopology(filled) = filled
    BY Zenon, <1>8 DEF MirrorTopology
  <2>2. QED
    BY Zenon, <1>6, <1>7, <2>1
<1>9. CASE \E e \in filled : e.function = V2Topology
  <2> DEFINE kept == {e \in filled : e.function # V2Topology}
             ext == {d \in filled : d.function = ExtTopology}
             copy(e) == [e EXCEPT !.function = V2Topology]
  <2>1. MirrorTopology(filled) = kept \cup {copy(e) : e \in ext}
    BY Zenon, <1>9 DEF MirrorTopology
  <2>2. \A e \in ext : copy(e).function = V2Topology /\ copy(e).index = e.index
    BY SMT, <1>6 DEF HostEntries
  <2> HIDE DEF copy
  <2>3. ASSUME NEW d \in MirrorTopology(filled), NEW e \in MirrorTopology(filled),
               d.function = e.function, d.index = e.index
        PROVE  d = e
    <3>1. CASE d.function = V2Topology
      <4>1. PICK a \in ext : d = copy(a)
        BY Zenon, <2>1, <3>1
      <4>2. PICK b \in ext : e = copy(b)
        BY Zenon, <2>1, <2>3, <3>1
      <4>3. a.index = b.index
        BY Zenon, <2>2, <2>3, <4>1, <4>2
      <4>4. a = b
        BY Zenon, <1>6, <4>3 DEF OneEntryPerLeaf
      <4>5. QED
        BY Zenon, <4>1, <4>2, <4>4
    <3>2. CASE d.function # V2Topology
      <4>1. d \in filled /\ e \in filled
        BY SMT, <2>1, <2>2, <2>3, <3>2
      <4>2. QED
        BY Zenon, <1>6, <2>3, <4>1 DEF OneEntryPerLeaf
    <3>3. QED
      BY <3>1, <3>2
  <2>4. QED
    <3>1. OneEntryPerLeaf(MirrorTopology(filled))
      BY ZenonT(60), <2>3 DEF OneEntryPerLeaf
    <3>2. QED
      BY Zenon, <1>7, <3>1
<1>10. QED
  BY Zenon, <1>8, <1>9

==============================================================================
