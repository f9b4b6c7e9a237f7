----------------------------- MODULE BootLayout -----------------------------
(***************************************************************************)
(* Where kitsune puts things in guest memory before the vCPUs run: sizes   *)
(* of RAM (memory.rs), ACPI tables (acpi.rs), kernel, initrd, command line *)
(* and boot parameters (boot.rs), GDT and IDT (gdt.rs), page tables        *)
(* (vcpu.rs), device windows (devices).  Pure algorithms, as operators;    *)
(* addresses and lengths are in bytes.                                     *)
(***************************************************************************)
EXTENDS Integers

CeilDiv(a, b) == (a + b - 1) \div b
Region(start, len) == [start |-> start, end |-> start + len]

\* r comes before s, without a common byte.
Before(r, s) == r.end <= s.start

------------------------------------------------------------------------------
(* memory.rs *)

GuestRamEnd == 3489660928   \* 0xd000_0000
PageSize == 4096

\* validate_mem_size; RAM is [0, size), so that size is also last_addr() + 1.
ValidMemSize(size) == size # 0 /\ size % PageSize = 0 /\ size <= GuestRamEnd

------------------------------------------------------------------------------
(* devices: one page of registers each, right above the largest RAM *)

MmioSize == 4096
MmioWindow(kind) ==
    CASE kind = "block" -> Region(GuestRamEnd, MmioSize)
      [] kind = "net"   -> Region(GuestRamEnd + 4096, MmioSize)
      [] kind = "vsock" -> Region(GuestRamEnd + 8192, MmioSize)

MmioKinds == {"block", "net", "vsock"}

------------------------------------------------------------------------------
(* boot.rs, gdt.rs *)

HimemStart == 1048576        \* 0x10_0000
ZeroPageStart == 28672       \* 0x7000
PvhInfoStart == 24576        \* 0x6000
PvhMemmapStart == 24832      \* 0x6100
PvhModlistStart == 25088     \* 0x6200
CmdlineStart == 131072       \* 0x2_0000
CmdlineCapacity == 4096
BootStackPointer == 36848    \* 0x8ff0
EbdaStart == 654336          \* 0x9_fc00
BootGdtOffset == 1280        \* 0x500
BootIdtOffset == 1312        \* 0x520
U32Max == 4294967295

\* The two ranges of RAM the guest is told of: the hole between them keeps the
\* EBDA and the ACPI tables out of its allocator.
LowRam == Region(0, EbdaStart)
HighRam(ramEnd) == Region(HimemStart, (ramEnd - 1) - HimemStart + 1)

AlignDown(n) == n - (n % PageSize)

\* place_initrd: as high as it goes, or not at all.  A sum that overflows
\* exceeds ramEnd too.
InitrdAddr(ramEnd, len) == AlignDown(IF len <= ramEnd THEN ramEnd - len ELSE 0)
InitrdFits(ramEnd, kernelEnd, len) ==
    LET addr == InitrdAddr(ramEnd, len)
    IN  len # 0 /\ kernelEnd <= addr /\ addr + len <= ramEnd /\ addr <= U32Max

------------------------------------------------------------------------------
(* acpi.rs: install_tables *)

AcpiTablesBase == 917504     \* 0xe_0000

AlignUp(n, align) == CeilDiv(n, align) * align

\* What the acpi_tables crate makes of all tables but the DSDT: 8 bytes per
\* Local APIC in the MADT, two entries in the XSDT.
FadtSize == 276
MadtSize(n) == 56 + 8 * n
XsdtSize == 52
RsdpSize == 36

\* The tables in the order they are written, each at the next multiple of 16.
AcpiNext(r) == r.start + AlignUp(r.end - r.start, 16)
Dsdt(dsdtLen) == Region(AcpiTablesBase, dsdtLen)
Fadt(dsdtLen) == Region(AcpiNext(Dsdt(dsdtLen)), FadtSize)
Madt(dsdtLen, n) == Region(AcpiNext(Fadt(dsdtLen)), MadtSize(n))
Xsdt(dsdtLen, n) == Region(AcpiNext(Madt(dsdtLen, n)), XsdtSize)
Rsdp(dsdtLen, n) == Region(AcpiNext(Xsdt(dsdtLen, n)), RsdpSize)

\* install_tables refuses RAM that does not reach beyond the BIOS hole.
AcpiAccepts(ramEnd) == ramEnd - 1 >= HimemStart

------------------------------------------------------------------------------
(* vcpu.rs: setup_identity_map *)

Pml4Start == 36864           \* 0x9000
PdptStart == 40960           \* 0xa000
PdTablesStart == 45056       \* 0xb000
HugePage == 2097152          \* 0x20_0000
PdEntries == 512

Num2MiB(ramEnd) == CeilDiv(ramEnd, HugePage)
NumPd(ramEnd) == CeilDiv(Num2MiB(ramEnd), PdEntries)
PtEnd(ramEnd) == PdTablesStart + NumPd(ramEnd) * PageSize

IdentityMapFails(ramEnd) ==
    NumPd(ramEnd) = 0 \/ NumPd(ramEnd) > PdEntries \/ PtEnd(ramEnd) > CmdlineStart

\* An entry of a table is the address in it, or has no present bit.
NotPresent == -1

\* The PDPT, and the entries of the page directory that lies at `table`.
PdptEntry(ramEnd, i) == IF i < NumPd(ramEnd) THEN PdTablesStart + i * PageSize ELSE NotPresent
PdEntry(ramEnd, table, i) ==
    LET global == ((table - PdTablesStart) \div PageSize) * PdEntries + i
    IN  IF global < Num2MiB(ramEnd) THEN global * HugePage ELSE NotPresent

\* What the MMU makes of an address below 512 GiB: its third and second level
\* index, and its offset in the 2 MiB page.
Translate(ramEnd, a) ==
    LET pdpte == PdptEntry(ramEnd, (a \div HugePage) \div PdEntries)
        pde == PdEntry(ramEnd, pdpte, (a \div HugePage) % PdEntries)
    IN  IF pdpte # NotPresent /\ pde # NotPresent THEN pde + (a % HugePage) ELSE NotPresent

------------------------------------------------------------------------------
(* What load_kernel writes below the ACPI tables, in the order of addresses. *)

LowRegions(ramEnd, cmdlineLen) ==
    << Region(BootGdtOffset, 32), Region(BootIdtOffset, 8),
       Region(PvhInfoStart, 56), Region(PvhMemmapStart, 48), Region(PvhModlistStart, 32),
       Region(ZeroPageStart, 4096), Region(Pml4Start, 4096), Region(PdptStart, 4096),
       Region(PdTablesStart, NumPd(ramEnd) * PageSize), Region(CmdlineStart, cmdlineLen + 1) >>

==============================================================================
