---------------------------- MODULE ImxPlatform ----------------------------
(***************************************************************************)
(* Start-up of the i.MX platform (platform.c, tzasc.c, vtimer.S, and for    *)
(* i.MX7 secondary_init.c and secondary_boot.S) up to the normal world.     *)
(* Processor 0 runs the hooks in the order of their init levels; the normal *)
(* world then starts processor 1.  Addresses are counted in pages of 4 KB.  *)
(*                                                                          *)
(* The kernel (start.S, the hook levels, pmm, vmm, the switch of worlds)    *)
(* and the normal world are external.                                       *)
(***************************************************************************)
EXTENDS Tzasc

CONSTANTS SOCS,       \* the SoCs: "imx7d", "imx6ul"
          MEMSIZE,    \* memory of Trusty, in blocks of 4 MB (rules.mk)
          KERNEL_LOAD_OFFSET,  \* in pages; set outside the repository
          RamChoices, \* what platform_reset may put in the dynamic mapping
          GENTIMER_EXT,  \* does ID_PFR1 name the generic timer?
          Faults      \* "map_gic": vmm_alloc_physical may fail

ASSUME PlatformAssumption ==
  /\ SOCS \subseteq {"imx7d", "imx6ul"} /\ Faults \subseteq {"map_gic"}
  /\ MEMSIZE \in Nat \ {0} /\ KERNEL_LOAD_OFFSET \in Nat
  /\ GENTIMER_EXT \in BOOLEAN

VARIABLES
  soc,       \* the SoC of this build
  cpu,       \* [Cpu -> what the processor does next, "off" and "normal" are
             \*  before and after Trusty, "fault" is an unmapped access]
  ram,       \* the dynamic entry of mmu_initial_mappings
  ram_arena, \* the arena given to pmm
  maps,      \* the kernel's mappings of device registers
  hits,      \* ghost: register accesses as <<device, page reached>>
  scr_ns,    \* [Cpu -> SCR.NS]
  cntvoff,   \* [Cpu -> CNTVOFF]
  gpr3, gpr4, \* SRC_GPR3 and SRC_GPR4: boot address and argument of processor 1
  lr         \* [Cpu -> where the normal world is entered]

fixedVars == <<soc, ram>>
bootVars == <<fixedVars, ram_arena, maps, hits>>
cpuVars == <<scr_ns, cntvoff>>
srcVars == <<gpr3, gpr4, lr>>
vars == <<cpu, bootVars, cpuVars, srcVars, tzVars>>

Cpu == IF soc = "imx7d" THEN {0, 1} ELSE {0}

----------------------------------------------------------------------------
(* imx-regs.h, in pages.                                                   *)

Imx7d == [gic_phy |-> 200705, gic_virt |-> 462849,    \* 0x31001, 0x71001
          soc_phy |-> 196608, soc_virt |-> 458752,    \* 0x30000, 0x70000
          soc_size |-> 4096,                          \* 0x1000
          tz_phy |-> 198528,                          \* 0x30780
          src_phy |-> 197520,                         \* 0x30390
          reg_offset |-> 262144]                      \* 0x40000

Imx6ul == [gic_phy |-> 2561, gic_virt |-> 461313,     \* 0xa01, 0x70a01
           soc_phy |-> 8192, soc_virt |-> 466944,     \* 0x2000, 0x72000
           soc_size |-> 1024,                         \* 0x400
           tz_phy |-> 8656,                           \* 0x21D0
           reg_offset |-> 458752]                     \* 0x70000

Regs == IF soc = "imx7d" THEN Imx7d ELSE Imx6ul

GIC_REG_SIZE == 2

\* Mutant: the offset of the other SoC.
TZ_BASE_VIRT_swapped == Regs.tz_phy + (IF soc = "imx7d" THEN Imx6ul ELSE Imx7d).reg_offset

TZ_BASE_VIRT == Regs.tz_phy + Regs.reg_offset
SRC_GPR3 == Regs.src_phy + Regs.reg_offset

PagesPerBlock == 1024

\* The dynamic entry of mmu_initial_mappings, and the arena, as linked in.
LinkedRam == [base |-> MEMBASE * PagesPerBlock + KERNEL_LOAD_OFFSET,
              size |-> MEMSIZE * PagesPerBlock]

\* CNTVOFF is undefined at reset.
Init ==
  /\ soc \in SOCS
  /\ cpu = [c \in Cpu |-> IF c = 0 THEN "reset" ELSE "off"]
  /\ ram \in RamChoices
  /\ ram_arena = LinkedRam
  /\ maps = {} /\ hits = {}
  /\ scr_ns = [c \in Cpu |-> FALSE]
  /\ cntvoff \in [Cpu -> 0 .. 1]
  /\ gpr3 = "none" /\ gpr4 = "none"
  /\ lr = [c \in Cpu |-> IF c = 0 THEN "boot loader" ELSE "none"]
  /\ TzInit

Goto(c, stage) == cpu' = [cpu EXCEPT ![c] = stage]

----------------------------------------------------------------------------
(* Mappings.                                                               *)

Mapping(virt, phys, size) == [virt |-> virt, phys |-> phys, size |-> size]

Translations(v) == {v - m.virt + m.phys : m \in {m \in maps : v \in m.virt .. m.virt + m.size - 1}}

\* An access to a register of the device: it reaches a page or faults.
Reaches(device, v) == hits' = hits \cup {<<device, p>> : p \in Translations(v)}

----------------------------------------------------------------------------
(* The hooks of processor 0.                                               *)

\* The dynamic mapping named "ram" sets the arena.
platform_init_mmu_mappings == ram

\* start.S has mapped mmu_initial_mappings.
arch_early_init ==
  /\ cpu[0] = "reset"
  /\ maps' = {Mapping(Regs.soc_virt, Regs.soc_phy, Regs.soc_size)}
  /\ ram_arena' = platform_init_mmu_mappings
  /\ Goto(0, "virt_timer")
  /\ UNCHANGED <<fixedVars, hits, cpuVars, srcVars, tzVars>>

\* virt_timer_init: monitor mode with the NS bit set, the reset, and back.
virt_timer_enter(c) ==
  /\ cpu[c] = "virt_timer"
  /\ scr_ns' = [scr_ns EXCEPT ![c] = TRUE]
  /\ Goto(c, "monitor")
  /\ UNCHANGED <<bootVars, cntvoff, srcVars, tzVars>>

virt_timer_leave(c) ==
  /\ cpu[c] = "monitor"
  /\ cntvoff' = IF GENTIMER_EXT THEN [cntvoff EXCEPT ![c] = 0] ELSE cntvoff
  /\ scr_ns' = [scr_ns EXCEPT ![c] = FALSE]
  /\ Goto(c, IF c = 0 THEN "gic_map" ELSE "leave")
  /\ UNCHANGED <<bootVars, srcVars, tzVars>>

\* A failure is only logged.
generic_arm64_map_regs ==
  /\ cpu[0] = "gic_map"
  /\ \/ maps' = maps \cup {Mapping(Regs.gic_virt, Regs.gic_phy, GIC_REG_SIZE)}
     \/ "map_gic" \in Faults /\ UNCHANGED maps
  /\ Goto(0, "gic_init")
  /\ UNCHANGED <<fixedVars, ram_arena, hits, cpuVars, srcVars, tzVars>>

\* GICC_OFFSET is one page; GICD is at the start.
arm_gic_init ==
  /\ cpu[0] = "gic_init"
  /\ hits' = hits \cup {<<"gicd", p>> : p \in Translations(Regs.gic_virt)}
                  \cup {<<"gicc", p>> : p \in Translations(Regs.gic_virt + 1)}
  /\ Goto(0, IF hits' = hits THEN "fault" ELSE "tzasc")
  /\ UNCHANGED <<fixedVars, ram_arena, maps, cpuVars, srcVars, tzVars>>

initial_tzasc ==
  /\ cpu[0] = "tzasc"
  /\ IF Translations(TZ_BASE_VIRT) = {}
     THEN Goto(0, "fault") /\ UNCHANGED <<hits, tzVars>>
     ELSE /\ Reaches("tzasc", TZ_BASE_VIRT)
          /\ \/ initial_tzasc_write /\ UNCHANGED cpu
             \/ TzDone /\ Goto(0, "smp") /\ UNCHANGED tzVars
  /\ UNCHANGED <<fixedVars, ram_arena, maps, cpuVars, srcVars>>

\* vaddr_to_paddr of the entry, which is in the memory of Trusty.
imx7d_smp_init == "platform_secondary_entry"

smp_hook ==
  /\ cpu[0] = "smp"
  /\ IF soc # "imx7d"
     THEN Goto(0, "leave") /\ UNCHANGED <<gpr3, hits>>
     ELSE IF Translations(SRC_GPR3) = {}
     THEN Goto(0, "fault") /\ UNCHANGED <<gpr3, hits>>
     ELSE gpr3' = imx7d_smp_init /\ Reaches("src", SRC_GPR3) /\ Goto(0, "leave")
  /\ UNCHANGED <<fixedVars, ram_arena, maps, cpuVars, gpr4, lr, tzVars>>

\* Trusty has initialised the processor and enters the normal world at lr.
EnterNormalWorld(c) ==
  /\ cpu[c] = "leave"
  /\ Goto(c, "normal")
  /\ scr_ns' = [scr_ns EXCEPT ![c] = TRUE]
  /\ UNCHANGED <<bootVars, cntvoff, srcVars, tzVars>>

----------------------------------------------------------------------------
(* Processor 1, i.MX7 only.                                                *)

\* The normal world fills SRC_GPR4 and releases the processor, in any order.
\* It is taken not to write SRC_GPR3.
NormalWorldFillsGpr4 ==
  /\ cpu[0] = "normal" /\ 1 \in Cpu /\ gpr4 = "none"
  /\ gpr4' = "kernel entry"
  /\ UNCHANGED <<cpu, bootVars, cpuVars, gpr3, lr, tzVars>>

NormalWorldReleases ==
  /\ cpu[0] = "normal" /\ 1 \in Cpu /\ cpu[1] = "off"
  /\ Goto(1, "entry")
  /\ UNCHANGED <<bootVars, cpuVars, srcVars, tzVars>>

\* The processor starts where SRC_GPR3 says, with the MMU off.
platform_secondary_entry ==
  /\ 1 \in Cpu /\ cpu[1] = "entry"
  /\ lr' = [lr EXCEPT ![1] = gpr4]
  /\ Goto(1, IF gpr3 = "platform_secondary_entry" THEN "start" ELSE "fault")
  /\ UNCHANGED <<bootVars, cpuVars, gpr3, gpr4, tzVars>>

\* Mutant: the timer hook runs on the boot processor only.
secondary_hooks_none == "leave"

\* LK_INIT_FLAG_ALL_CPUS
secondary_hooks == "virt_timer"

secondary_start ==
  /\ 1 \in Cpu /\ cpu[1] = "start"
  /\ Goto(1, secondary_hooks)
  /\ UNCHANGED <<bootVars, cpuVars, srcVars, tzVars>>

Boot(c) == \/ virt_timer_enter(c)
           \/ virt_timer_leave(c)
           \/ EnterNormalWorld(c)

Next == \/ arch_early_init
        \/ generic_arm64_map_regs
        \/ arm_gic_init
        \/ initial_tzasc
        \/ smp_hook
        \/ NormalWorldFillsGpr4
        \/ NormalWorldReleases
        \/ platform_secondary_entry
        \/ secondary_start
        \/ \E c \in Cpu : Boot(c)

Spec == Init /\ [][Next]_vars

----------------------------------------------------------------------------
(* Properties.                                                             *)

(* Once a processor is in the normal world, and whatever the boot loader    *)
(* left in the registers, the normal world has all of memory except         *)
(* the memory Trusty runs in, and no part of that (base, size and priority  *)
(* of the three regions).                                                   *)
SealedExactly ==
  (\E c \in Cpu : cpu[c] = "normal") =>
    \A b \in Block : IF b \in TrustyBlocks THEN ~NormalAllowed(b) ELSE NormalFull(b)

(* initial_tzasc rewrites a region one register at a time.  If the boot     *)
(* loader has already sealed the memory of Trusty with region 2, no single  *)
(* write opens it: in between, the new base with the old size still covers  *)
(* it.                                                                      *)
SealKept == [][SealedBy(2) => SealedBy(2)']_vars

RegisterPage(device) ==
  CASE device = "gicd" -> Regs.gic_phy
    [] device = "gicc" -> Regs.gic_phy + 1
    [] device = "tzasc" -> Regs.tz_phy
    [] device = "src" -> Regs.src_phy

(* Every register access of the start-up code reaches the device it is      *)
(* meant for, and faults only if the GIC could not be mapped ("SOC is       *)
(* mapped in initial mapping").                                             *)
RegistersReached ==
  /\ \A h \in hits : h[2] = RegisterPage(h[1])
  /\ cpu[0] = "fault" => \A m \in maps : m.virt # Regs.gic_virt

(* No processor runs the normal world with an undefined virtual timer       *)
(* offset if it has one ("Reset CNTVOFF register to zero"), and the NS bit that the reset *)
(* needs never outlasts it: Trusty's own code runs with it in monitor mode  *)
(* only ("Must be in Secure Monitor Mode with NS bit set").                 *)
TimerReset ==
  \A c \in Cpu : /\ cpu[c] = "normal" /\ GENTIMER_EXT => cntvoff[c] = 0
                 /\ scr_ns[c] => cpu[c] \in {"monitor", "normal"}
============================================================================
