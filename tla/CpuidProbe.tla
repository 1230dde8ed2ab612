----------------------------- MODULE CpuidProbe -----------------------------
(***************************************************************************)
(* cpuid_probe, the native program: which CPUID leaves it reads of a       *)
(* processor and what it decodes from them.                                *)
(*                                                                         *)
(* A processor is a record: the highest basic leaf, the highest extended   *)
(* leaf (counted from 0x80000000), the vendor and brand strings, the       *)
(* feature bits set in leaves 1, 7 and 0x80000001, the states the          *)
(* operating system saves (XCR0), and the subleaves of leaf 4.  A subleaf  *)
(* is its register fields; all but type and level hold a number minus one. *)
(***************************************************************************)
EXTENDS Integers, Sequences

CONSTANTS
  RegisterValues, \* number of values of a register (2^32)
  MaxSubleaves    \* how many subleaves of leaf 4 the probe reads at most (64)

ASSUME ProbeAssumption ==
  /\ RegisterValues \in Nat \ {0}
  /\ MaxSubleaves \in Nat \ {0}

Subleaf(type, level, line, ways, sets) ==
  [type |-> type, level |-> level, line |-> line, partitions |-> 0,
   ways |-> ways, sets |-> sets]

(* Data, instruction and unified caches; 0 ends the list, others are reserved. *)
CacheTypes == 1 .. 3

(* decode_deterministic_cache.  The three narrow fields cannot overflow; the *)
(* number of sets fills a register, and its sum with 1 wraps.                *)
DecodeCache(registers) ==
  LET sets == (registers.sets + 1) % RegisterValues
  IN  [level |-> registers.level, kind |-> registers.type,
       size |-> (registers.line + 1) * (registers.partitions + 1)
                  * (registers.ways + 1) * sets,
       line |-> registers.line + 1, sets |-> sets,
       ways |-> registers.ways + 1, partitions |-> registers.partitions + 1]

(* The subleaves of leaf 4 the probe decodes: those before the first that is *)
(* no cache, and at most its bound.                                          *)
Listed(cpu) ==
  {i \in DOMAIN cpu.leaf4 : /\ cpu.maxBasic >= 4
                            /\ i <= MaxSubleaves
                            /\ \A j \in 1 .. i : cpu.leaf4[j].type \in CacheTypes}

Caches(cpu) == [i \in Listed(cpu) |-> DecodeCache(cpu.leaf4[i])]

-----------------------------------------------------------------------------
(* The bits of a leaf the processor has. *)
LeafOne(cpu)         == IF cpu.maxBasic >= 1 THEN cpu.leaf1 ELSE {}
LeafSeven(cpu)       == IF cpu.maxBasic >= 7 THEN cpu.leaf7 ELSE {}
ExtendedLeafOne(cpu) == IF cpu.maxExtended >= 1 THEN cpu.extended1 ELSE {}

(* XCR0 may only be read when the operating system has enabled XSAVE. *)
AvxStateSaved(cpu) ==
  "osxsave" \in LeafOne(cpu) /\ {"sse_state", "avx_state"} \subseteq cpu.xcr0

Features(cpu) ==
  (LeafOne(cpu) \cap {"sse2", "sse41", "sse42", "avx_hardware", "aes"})
  \cup (LeafSeven(cpu) \cap {"avx2_hardware"})
  \cup (IF "avx_hardware" \in LeafOne(cpu) /\ AvxStateSaved(cpu)
        THEN {"avx_os_enabled"} ELSE {})
  \cup (IF "vmx" \in LeafOne(cpu) \/ "svm" \in ExtendedLeafOne(cpu)
        THEN {"virtualization_hardware"} ELSE {})

(* collect_probe_data; "" is a string the processor does not report. *)
ProbeData(cpu) ==
  [vendor   |-> cpu.vendor,
   brand    |-> IF cpu.maxExtended >= 4 THEN cpu.brand ELSE "",
   features |-> Features(cpu),
   caches   |-> Caches(cpu)]

(* main, called with --json. *)
ExitCode(cpu) == IF cpu.supported THEN 0 ELSE 2
=============================================================================
