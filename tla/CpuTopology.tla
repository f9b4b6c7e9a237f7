----------------------------- MODULE CpuTopology -----------------------------
(***************************************************************************)
(* The processor topology a vCPU finds in CPUID (src/src/vcpu.rs) and in   *)
(* the MADT (src/src/acpi.rs).                                             *)
(*                                                                         *)
(* An entry of the CPUID table is reduced to what the topology is made of: *)
(* the leaf (function, index); level, the kind of level or cache that the  *)
(* entry describes, in leaf 0 the largest leaf, in leaf 1 the HTT flag;    *)
(* and the numbers a leaf may report: an APIC id, a count of processors, a *)
(* shift of APIC ids, and how many processors share a cache.  A number is  *)
(* truncated to the bits it is kept in.  The order of the entries does not *)
(* matter; leaf 0 has one, so that `find` and the loop reach the same.     *)
(***************************************************************************)
EXTENDS Integers

MaxVcpus == 32

\* Leaves, by what they are for.
MaxLeaf == 0
Features == 1
CacheLeaf == 4
ExtTopology == 11              \* 0xb
V2Topology == 31               \* 0x1f
AmdSizes == 2147483656         \* 0x8000_0008
AmdApicId == 2147483678        \* 0x8000_001e

\* The powers of two a u8 can hold, and next_power_of_two as an index into them.
Powers == <<1, 2, 4, 8, 16, 32, 64, 128>>
NextPower(n) == CHOOSE i \in 1 .. 8 : n <= Powers[i] /\ \A j \in 1 .. 8 : n <= Powers[j] => i <= j

PackageIdShift == NextPower(MaxVcpus) - 1
MaxLogicalProcessors(n) == Powers[NextPower(n)]

Bits(value, range) == value % range

Entry(function, index, level, id, count, shift, share) ==
    [function |-> function, index |-> index, level |-> level,
     id |-> id, count |-> count, shift |-> shift, share |-> share]

EnsureSubleaf(entries, function, index) ==
    IF \E e \in entries : e.function = function /\ e.index = index THEN entries
    ELSE entries \cup {Entry(function, index, 0, 0, 0, 0, 0)}

\* Leaf 0xb: threads, then cores, then nothing.
TopologyLevel(e, id, n) ==
    CASE e.index = 0 -> Entry(e.function, 0, 1, id, Bits(1, 65536), Bits(0, 32), e.share)
      [] e.index = 1 -> Entry(e.function, 1, 2, id, Bits(n, 65536), Bits(PackageIdShift, 32), e.share)
      [] OTHER -> Entry(e.function, e.index, 0, id, 0, 0, e.share)

\* Leaf 4 keeps numbers minus one: `share` in twelve bits, `count` in six.
Cache(e, n) ==
    Entry(e.function, e.index, e.level, e.id, Bits(n - 1, 64) + 1, e.shift,
          IF e.level = 3 THEN Bits(n - 1, 4096) + 1 ELSE Bits(0, 4096) + 1)

\* Leaf 0 and the loop over the entries.
SetTopology(e, id, n) ==
    CASE e.function = MaxLeaf ->
            [e EXCEPT !.level = IF @ < ExtTopology THEN ExtTopology ELSE @]
      [] e.function = Features ->
            Entry(e.function, e.index, IF n > 1 THEN 1 ELSE 0,
                  Bits(id, 256), Bits(MaxLogicalProcessors(n), 256), e.shift, e.share)
      [] e.function = ExtTopology -> TopologyLevel(e, id, n)
      [] e.function = CacheLeaf /\ e.level \in 1 .. 3 -> Cache(e, n)
      [] e.function = AmdSizes ->
            Entry(e.function, e.index, e.level, e.id, Bits(n - 1, 256) + 1,
                  IF PackageIdShift <= 15 THEN PackageIdShift ELSE 15, e.share)
      [] e.function = AmdApicId -> [e EXCEPT !.id = id]
      [] OTHER -> e

\* Leaf 0x1f, where the host has it, becomes a copy of leaf 0xb.
MirrorTopology(entries) ==
    IF \E e \in entries : e.function = V2Topology
    THEN {e \in entries : e.function # V2Topology}
         \cup {[e EXCEPT !.function = V2Topology] : e \in {d \in entries : d.function = ExtTopology}}
    ELSE entries

ApplyCpuTopology(entries, id, n) ==
    LET complete == EnsureSubleaf(EnsureSubleaf(entries, ExtTopology, 0), ExtTopology, 1)
    IN  MirrorTopology({SetTopology(e, id, n) : e \in complete})

\* The ids of the Local APICs in the MADT, and the vCPUs of Vmm::new.
MadtIds(n) == 0 .. n - 1

==============================================================================
