------------------------- MODULE ImxPlatformProofs -------------------------
(***************************************************************************)
(* Proofs about ImxPlatform for both SoCs, whatever the boot loader left in *)
(* the registers of the address space controller, in CNTVOFF and in the     *)
(* dynamic mapping.                                                         *)
(*                                                                          *)
(* IndInv is the inductive invariant: what is known at each stage of the    *)
(* two processors.                                                          *)
(***************************************************************************)
EXTENDS ImxPlatform, TLAPS

Stage0 == {"reset", "virt_timer", "monitor", "gic_map", "gic_init", "tzasc", "smp", "leave", "normal", "fault"}
Stage1 == {"off", "entry", "start", "virt_timer", "monitor", "leave", "normal"}

PlatformType ==
  /\ soc \in {"imx7d", "imx6ul"}
  /\ cpu \in [Cpu -> Stage0 \cup Stage1]
  /\ cpu[0] \in Stage0
  /\ 1 \in Cpu => cpu[1] \in Stage1
  /\ scr_ns \in [Cpu -> BOOLEAN]
  /\ cntvoff \in [Cpu -> 0 .. 1]

(* After the timer hook CNTVOFF is zero, if the processor has one, and the  *)
(* NS bit is set in monitor mode and in the normal world only.              *)
TimerStages ==
  \A c \in Cpu :
    /\ scr_ns[c] => cpu[c] \in {"monitor", "normal"}
    /\ cpu[c] \in {"gic_map", "gic_init", "tzasc", "smp", "leave", "normal"} /\ GENTIMER_EXT => cntvoff[c] = 0

(* Processor 1 runs after processor 0 has reached the normal world, and so  *)
(* after smp_hook has filled SRC_GPR3.                                      *)
SecondaryStages ==
  1 \in Cpu =>
    /\ cpu[0] \in {"leave", "normal"} => gpr3 = "platform_secondary_entry"
    /\ cpu[1] # "off" => cpu[0] = "normal"

(* IndInv without the address space controller.                             *)
StageInv == PlatformType /\ TimerStages /\ SecondaryStages

(* The processors are 0 and, on i.MX7, 1.                                   *)
LEMMA CpuFacts ==
  ASSUME soc \in {"imx7d", "imx6ul"}
  PROVE  0 \in Cpu /\ Cpu \subseteq {0, 1} /\ (1 \in Cpu <=> soc = "imx7d")
BY DEF Cpu

(* The SoC does not change.                                                 *)
LEMMA SocFixed ==
  ASSUME [Next]_vars
  PROVE  soc' = soc /\ Cpu' = Cpu /\ Regs' = Regs
<1>1. soc' = soc
  BY DEF Next, vars, fixedVars, bootVars, arch_early_init, generic_arm64_map_regs, arm_gic_init,
       initial_tzasc, smp_hook, NormalWorldFillsGpr4, NormalWorldReleases, platform_secondary_entry,
       secondary_start, Boot, virt_timer_enter, virt_timer_leave, EnterNormalWorld
<1> QED
  BY <1>1 DEF Cpu, Regs

(* Processor 0 starts, processor 1 is off.                                  *)
LEMMA InitStages == Init => StageInv
<1> SUFFICES ASSUME Init PROVE StageInv
  OBVIOUS
<1> USE DEF Init
<1>1. soc \in {"imx7d", "imx6ul"}
  BY PlatformAssumption
<1>0. 0 \in Cpu /\ Cpu \subseteq {0, 1} /\ (1 \in Cpu <=> soc = "imx7d")
  BY <1>1, CpuFacts
<1>5. cpu[0] = "reset" /\ (1 \in Cpu => cpu[1] = "off")
  <2>1. \A c \in Cpu : cpu[c] = IF c = 0 THEN "reset" ELSE "off"
    OBVIOUS
  <2> QED
    BY ONLY <1>0, <2>1
<1>2. PlatformType
  <2>1. scr_ns \in [Cpu -> BOOLEAN]
    OBVIOUS
  <2>2. cpu \in [Cpu -> Stage0 \cup Stage1] /\ cpu[0] \in Stage0 /\ (1 \in Cpu => cpu[1] \in Stage1)
    <3>1. cpu \in [Cpu -> Stage0 \cup Stage1]
      BY DEF Stage0, Stage1
    <3> QED
      BY <1>5, <3>1 DEF Stage0, Stage1
  <2> QED
    BY <1>1, <2>1, <2>2 DEF PlatformType
<1>3. TimerStages
  BY <1>0 DEF TimerStages
<1>4. SecondaryStages
  BY <1>5 DEF SecondaryStages
<1> QED
  BY <1>2, <1>3, <1>4 DEF StageInv

(* Each step takes a processor to a stage it is ready for.                  *)
LEMMA StepStages ==
  ASSUME StageInv, [Next]_vars
  PROVE  StageInv'
<1> USE DEF StageInv, fixedVars, bootVars, cpuVars, srcVars, Goto
<1>0. soc' = soc /\ Cpu' = Cpu /\ soc \in {"imx7d", "imx6ul"}
  BY SocFixed DEF PlatformType
<1>00. 0 \in Cpu /\ Cpu \subseteq {0, 1} /\ (1 \in Cpu <=> soc = "imx7d")
  BY <1>0, CpuFacts
<1> USE DEF PlatformType, TimerStages, SecondaryStages, Stage0, Stage1
<1>1. CASE UNCHANGED vars
  BY <1>0, <1>1 DEF vars
<1>2. CASE arch_early_init
  BY <1>0, <1>00, <1>2 DEF arch_early_init
<1>3. CASE generic_arm64_map_regs
  BY <1>0, <1>00, <1>3 DEF generic_arm64_map_regs
<1>4. CASE arm_gic_init
  BY <1>0, <1>00, <1>4 DEF arm_gic_init
<1>5. CASE initial_tzasc
  BY <1>0, <1>00, <1>5 DEF initial_tzasc
<1>6. CASE smp_hook
  BY <1>0, <1>00, <1>6 DEF smp_hook, imx7d_smp_init
<1>7. CASE NormalWorldFillsGpr4
  BY <1>0, <1>00, <1>7 DEF NormalWorldFillsGpr4
<1>8. CASE NormalWorldReleases
  BY <1>0, <1>00, <1>8 DEF NormalWorldReleases
<1>9. CASE platform_secondary_entry
  BY <1>0, <1>00, <1>9 DEF platform_secondary_entry
<1>10. CASE secondary_start
  BY <1>0, <1>00, <1>10 DEF secondary_start, secondary_hooks
<1>11. ASSUME NEW c \in Cpu, virt_timer_enter(c) PROVE StageInv'
  BY <1>0, <1>00, <1>11 DEF virt_timer_enter
<1>12. ASSUME NEW c \in Cpu, virt_timer_leave(c) PROVE StageInv'
  <2>1. PICK s \in Stage0 \cup Stage1 :
             /\ s = (IF c = 0 THEN "gic_map" ELSE "leave") /\ cpu' = [cpu EXCEPT ![c] = s]
    BY <1>12 DEF virt_timer_leave
  <2>2. cpu' \in [Cpu -> Stage0 \cup Stage1] /\ cpu'[0] \in Stage0 /\ (1 \in Cpu => cpu'[1] \in Stage1)
    <3>0. cpu \in [Cpu -> Stage0 \cup Stage1] /\ cpu[0] \in Stage0 /\ (1 \in Cpu => cpu[1] \in Stage1)
      OBVIOUS
    <3>1. CASE c = 0
      BY ONLY <1>00, <2>1, <3>0, <3>1 DEF Stage0
    <3>2. CASE c = 1
      BY ONLY <1>00, <2>1, <3>0, <3>2 DEF Stage1
    <3> QED
      BY <1>00, <3>1, <3>2
  <2>3. PlatformType'
    <3>0. scr_ns \in [Cpu -> BOOLEAN] /\ cntvoff \in [Cpu -> 0 .. 1]
      OBVIOUS
    <3>1. scr_ns' \in [Cpu -> BOOLEAN] /\ cntvoff' \in [Cpu -> 0 .. 1]
      BY ONLY <1>12, <3>0 DEF virt_timer_leave
    <3> QED
      BY <1>0, <1>12, <2>2, <3>1 DEF virt_timer_leave
  <2>4. TimerStages'
    BY <1>0, <1>00, <1>12, <2>1 DEF virt_timer_leave
  <2>5. SecondaryStages'
    BY <1>0, <1>00, <1>12, <2>1 DEF virt_timer_leave
  <2> QED
    BY <2>3, <2>4, <2>5
<1>13. ASSUME NEW c \in Cpu, EnterNormalWorld(c) PROVE StageInv'
  BY <1>0, <1>00, <1>13 DEF EnterNormalWorld
<1> QED
  BY <1>1, <1>2, <1>3, <1>4, <1>5, <1>6, <1>7, <1>8, <1>9, <1>10, <1>11, <1>12, <1>13 DEF Next, Boot

----------------------------------------------------------------------------
(* Registers and mappings.                                                 *)

SocMap == Mapping(Regs.soc_virt, Regs.soc_phy, Regs.soc_size)
GicMap == Mapping(Regs.gic_virt, Regs.gic_phy, GIC_REG_SIZE)

(* The registers of the SoC are mapped from the start, those of the GIC     *)
(* from its hook on if that succeeds, and nothing else is.                  *)
MapStages ==
  /\ cpu[0] \in {"reset", "virt_timer", "monitor", "gic_map", "gic_init"} => hits = {}
  /\ cpu[0] # "reset" => SocMap \in maps /\ maps \subseteq {SocMap, GicMap}
  /\ cpu[0] = "fault" => GicMap \notin maps
  /\ \A h \in hits : h[2] = RegisterPage(h[1])

(* The mappings are disjoint and each register is inside its own.           *)
LEMMA MapFacts ==
  ASSUME soc \in {"imx7d", "imx6ul"}, SocMap \in maps, maps \subseteq {SocMap, GicMap}
  PROVE  /\ SocMap.virt # Regs.gic_virt
         /\ Translations(Regs.gic_virt) = IF GicMap \in maps THEN {Regs.gic_phy} ELSE {}
         /\ Translations(Regs.gic_virt + 1) = IF GicMap \in maps THEN {Regs.gic_phy + 1} ELSE {}
         /\ Translations(TZ_BASE_VIRT) = {Regs.tz_phy}
         /\ soc = "imx7d" => Translations(SRC_GPR3) = {Regs.src_phy}
<1> USE DEF SocMap, GicMap, Mapping, GIC_REG_SIZE, Translations, TZ_BASE_VIRT, SRC_GPR3
<1>1. CASE soc = "imx7d"
  BY <1>1 DEF Regs, Imx7d
<1>2. CASE soc = "imx6ul"
  BY <1>2 DEF Regs, Imx6ul
<1> QED
  BY <1>1, <1>2

(* A step of the timer hook or of processor 1 and the normal world does not *)
(* touch what processor 0 sets up.                                          *)
Elsewhere == \/ NormalWorldFillsGpr4 \/ NormalWorldReleases \/ platform_secondary_entry
             \/ secondary_start \/ \E c \in Cpu : Boot(c)

(* What such a step leaves of processor 0.                                  *)
LEMMA ElsewhereFacts ==
  ASSUME StageInv, Elsewhere
  PROVE  /\ UNCHANGED <<maps, hits, tzVars>>
         /\ \/ cpu'[0] = cpu[0]
            \/ cpu[0] = "virt_timer" /\ cpu'[0] = "monitor"
            \/ cpu[0] = "monitor" /\ cpu'[0] = "gic_map"
            \/ cpu[0] = "leave" /\ cpu'[0] = "normal"
<1>1. UNCHANGED <<maps, hits, tzVars>>
  BY DEF Elsewhere, bootVars, NormalWorldFillsGpr4, NormalWorldReleases, platform_secondary_entry,
       secondary_start, Boot, virt_timer_enter, virt_timer_leave, EnterNormalWorld
<1>2. cpu \in [Cpu -> Stage0 \cup Stage1] /\ 0 \in Cpu
  BY CpuFacts DEF StageInv, PlatformType
<1>3. CASE \/ NormalWorldFillsGpr4 \/ NormalWorldReleases \/ platform_secondary_entry \/ secondary_start
  <2>1. cpu' = cpu \/ \E s : cpu' = [cpu EXCEPT ![1] = s]
    BY <1>3 DEF NormalWorldFillsGpr4, NormalWorldReleases, platform_secondary_entry, secondary_start, Goto
  <2> QED
    BY <1>1, <1>2, <2>1
<1>4. ASSUME NEW c \in Cpu, Boot(c), c # 0 PROVE cpu'[0] = cpu[0]
  BY <1>2, <1>4 DEF Boot, virt_timer_enter, virt_timer_leave, EnterNormalWorld, Goto
<1>5. ASSUME Boot(0)
      PROVE  \/ cpu[0] = "virt_timer" /\ cpu'[0] = "monitor"
             \/ cpu[0] = "monitor" /\ cpu'[0] = "gic_map"
             \/ cpu[0] = "leave" /\ cpu'[0] = "normal"
  BY <1>2, <1>5 DEF Boot, virt_timer_enter, virt_timer_leave, EnterNormalWorld, Goto
<1> QED
  BY <1>1, <1>3, <1>4, <1>5 DEF Elsewhere

(* Every step keeps MapStages.                                              *)
LEMMA StepMaps ==
  ASSUME StageInv, MapStages, [Next]_vars
  PROVE  MapStages'
<1>0. /\ cpu \in [Cpu -> Stage0 \cup Stage1] /\ 0 \in Cpu /\ cpu[0] \in Stage0
      /\ soc \in {"imx7d", "imx6ul"} /\ soc' = soc
  BY CpuFacts, SocFixed DEF StageInv, PlatformType
<1>1. /\ SocMap' = SocMap /\ GicMap' = GicMap
      /\ \A d : RegisterPage(d)' = RegisterPage(d)
  BY <1>0 DEF SocMap, GicMap, Mapping, RegisterPage, Regs
<1>2. ASSUME UNCHANGED <<maps, hits>>, cpu'[0] = cpu[0] PROVE MapStages'
  BY <1>1, <1>2 DEF MapStages
<1>3. CASE UNCHANGED vars
  BY <1>2, <1>3 DEF vars, bootVars
<1>4. CASE Elsewhere
  BY <1>1, <1>4, ElsewhereFacts DEF MapStages
<1>5. CASE arch_early_init
  <2>1. cpu'[0] = "virt_timer" /\ maps' = {SocMap} /\ hits' = hits /\ hits = {}
    BY <1>0, <1>5 DEF arch_early_init, Goto, MapStages, SocMap
  <2> QED
    BY <1>1, <2>1 DEF MapStages
<1>6. CASE generic_arm64_map_regs
  <2>1. cpu[0] = "gic_map" /\ cpu'[0] = "gic_init" /\ hits' = hits /\ (maps' = maps \/ maps' = maps \cup {GicMap})
    BY <1>0, <1>6 DEF generic_arm64_map_regs, Goto, GicMap
  <2> QED
    BY <1>1, <2>1 DEF MapStages
<1>7. CASE arm_gic_init
  <2>1. /\ cpu[0] = "gic_init" /\ cpu'[0] = (IF hits' = hits THEN "fault" ELSE "tzasc") /\ maps' = maps
        /\ hits' = hits \cup {<<"gicd", p>> : p \in Translations(Regs.gic_virt)}
                        \cup {<<"gicc", p>> : p \in Translations(Regs.gic_virt + 1)}
        /\ hits = {} /\ SocMap \in maps /\ maps \subseteq {SocMap, GicMap}
    BY <1>0, <1>7 DEF arm_gic_init, Goto, MapStages
  <2>2. \A h \in hits' : h[2] = RegisterPage(h[1])
    BY <1>0, <2>1, MapFacts DEF RegisterPage
  <2>3. cpu'[0] = "fault" => GicMap \notin maps
    <3>1. ASSUME GicMap \in maps PROVE <<"gicd", Regs.gic_phy>> \in hits'
      <4>1. Regs.gic_phy \in Translations(Regs.gic_virt)
        BY <1>0, <2>1, <3>1, MapFacts
      <4> QED
        BY <2>1, <4>1
    <3> QED
      BY <2>1, <3>1
  <2> QED
    BY <1>1, <2>1, <2>2, <2>3 DEF MapStages
<1>8. CASE initial_tzasc
  <2>1. cpu[0] = "tzasc" /\ SocMap \in maps /\ maps \subseteq {SocMap, GicMap} /\ maps' = maps
    BY <1>8 DEF initial_tzasc, MapStages
  <2>2. Translations(TZ_BASE_VIRT) = {Regs.tz_phy}
    BY <1>0, <2>1, MapFacts
  <2>3. hits' = hits \cup {<<"tzasc", Regs.tz_phy>>} /\ (cpu' = cpu \/ cpu'[0] = "smp")
    BY <1>0, <1>8, <2>2 DEF initial_tzasc, Reaches, Goto
  <2>4. \A h \in hits' : h[2] = RegisterPage(h[1])
    <3>1. RegisterPage("tzasc") = Regs.tz_phy
      BY DEF RegisterPage
    <3> QED
      BY <2>3, <3>1 DEF MapStages
  <2> QED
    BY <1>1, <2>1, <2>3, <2>4 DEF MapStages
<1>9. CASE smp_hook
  <2>1. cpu[0] = "smp" /\ SocMap \in maps /\ maps \subseteq {SocMap, GicMap} /\ maps' = maps
    BY <1>0, <1>9 DEF smp_hook, MapStages
  <2>0. soc = "imx7d" => Translations(SRC_GPR3) = {Regs.src_phy}
    BY <1>0, <2>1, MapFacts
  <2>2. /\ cpu'[0] = "leave"
        /\ hits' = hits \/ hits' = hits \cup {<<"src", Regs.src_phy>>}
    BY <1>0, <1>9, <2>0 DEF smp_hook, Reaches, Goto
  <2>3. \A h \in hits' : h[2] = RegisterPage(h[1])
    <3>1. RegisterPage("src") = Regs.src_phy
      BY DEF RegisterPage
    <3> QED
      BY <2>2, <3>1 DEF MapStages
  <2> QED
    BY <1>1, <2>1, <2>2, <2>3 DEF MapStages
<1> QED
  BY <1>3, <1>4, <1>5, <1>6, <1>7, <1>8, <1>9 DEF Next, Elsewhere

----------------------------------------------------------------------------
(* The address space controller.                                           *)

\* Registers written so far hold what the table says.
Programmed ==
  \A i \in Region :
    /\ tz > 3 * i + 1 => region[i].addr_l = tzasc_regions[i].addr_l
    /\ tz > 3 * i + 2 => region[i].addr_h = tzasc_regions[i].addr_h
    /\ tz > 3 * i + 3 => region[i].attr = tzasc_regions[i].attr

(* The controller is programmed when Trusty leaves.                         *)
TzStages ==
  /\ region \in [Region -> RegionType]
  /\ tz \in 0 .. TzWrites
  /\ Programmed
  /\ cpu[0] \in {"smp", "leave", "normal"} => tz = TzWrites

(* The table is made of regions.                                            *)
LEMMA TableType == tzasc_regions \in [Region -> RegionType]
<1>1. ASSUME NEW i \in Region PROVE tzasc_regions[i] \in RegionType
  <2>0. i = 0 \/ i = 1 \/ i = 2
    BY DEF Region
  <2> USE TzascAssumption DEF tzasc_regions, RegionType, TZ_ATTR, TZ_ATTR_SP_ALL, TZ_ATTR_SP_S_WR_ONLR, Block, Blocks4G,
          TZ_REGION_SIZE_4M, TZ_REGION_SIZE_4G, TZ_REGION_SIZE_32M, TZ_REGION_SIZE_512M
  <2>1. tzasc_regions[0] \in RegionType
    BY DEF Region
  <2>2. tzasc_regions[1] \in RegionType
    BY DEF Region
  <2>3. tzasc_regions[2] \in RegionType
    BY DEF Region
  <2> QED
    BY ONLY <2>0, <2>1, <2>2, <2>3
<1> QED
  BY <1>1 DEF tzasc_regions

(* One call of tzasc_write: which register it is and what it gets.          *)
LEMMA WriteCases ==
  ASSUME TzStages, initial_tzasc_write
  PROVE  /\ tz' = tz + 1 /\ tz < TzWrites /\ tz \in Nat
         /\ \/ region' = region /\ (tz = 0 \/ tz = 10)
            \/ \E i \in Region :
                 \/ tz = 3 * i + 1 /\ region' = [region EXCEPT ![i].addr_l = tzasc_regions[i].addr_l]
                 \/ tz = 3 * i + 2 /\ region' = [region EXCEPT ![i].addr_h = tzasc_regions[i].addr_h]
                 \/ tz = 3 * i + 3 /\ region' = [region EXCEPT ![i].attr = tzasc_regions[i].attr]
<1>0. tz' = tz + 1 /\ tz < TzWrites /\ tz \in Nat /\ TzWrites = 11
  BY DEF initial_tzasc_write, TzStages, TzWrites, num
<1>1. CASE tz \in 1 .. 9
  <2> DEFINE i == (tz - 1) \div 3
             f == RegionField(tz - 1)
  <2>1. region' = [region EXCEPT ![i][f] = tzasc_regions[i][f]]
    BY <1>1 DEF initial_tzasc_write, num
  <2>2. i \in Region
    BY <1>1 DEF Region
  <2>3. \/ tz = 3 * i + 1 /\ (tz - 1) % 3 = 0
        \/ tz = 3 * i + 2 /\ (tz - 1) % 3 = 1
        \/ tz = 3 * i + 3 /\ (tz - 1) % 3 = 2
    BY <1>1
  <2>4. \/ tz = 3 * i + 1 /\ f = "addr_l"
        \/ tz = 3 * i + 2 /\ f = "addr_h"
        \/ tz = 3 * i + 3 /\ f = "attr"
    <3>1. \A k : /\ k % 3 = 0 => RegionField(k) = "addr_l"
                 /\ k % 3 = 1 => RegionField(k) = "addr_h"
                 /\ k % 3 = 2 => RegionField(k) = "attr"
      BY DEF RegionField
    <3> QED
      BY <2>3, <3>1
  <2> HIDE DEF i, f
  <2>5. \/ tz = 3 * i + 1 /\ region' = [region EXCEPT ![i].addr_l = tzasc_regions[i].addr_l]
        \/ tz = 3 * i + 2 /\ region' = [region EXCEPT ![i].addr_h = tzasc_regions[i].addr_h]
        \/ tz = 3 * i + 3 /\ region' = [region EXCEPT ![i].attr = tzasc_regions[i].attr]
    BY <2>1, <2>4
  <2> QED
    BY <1>0, <2>2, <2>5
<1>2. CASE tz = 0 \/ tz = 10
  BY <1>0, <1>2 DEF initial_tzasc_write, num
<1> QED
  BY <1>0, <1>1, <1>2 DEF initial_tzasc_write, num

(* The fields of the regions after that call.                               *)
LEMMA WriteFields ==
  ASSUME TzStages, initial_tzasc_write
  PROVE  /\ region' \in [Region -> RegionType]
         /\ \A i \in Region :
              /\ region'[i].addr_l = IF tz = 3 * i + 1 THEN tzasc_regions[i].addr_l ELSE region[i].addr_l
              /\ region'[i].addr_h = IF tz = 3 * i + 2 THEN tzasc_regions[i].addr_h ELSE region[i].addr_h
              /\ region'[i].attr = IF tz = 3 * i + 3 THEN tzasc_regions[i].attr ELSE region[i].attr
<1>0. region \in [Region -> RegionType] /\ tzasc_regions \in [Region -> RegionType] /\ tz \in Nat
  BY TableType, WriteCases DEF TzStages
<1>1. CASE region' = region /\ (tz = 0 \/ tz = 10)
  BY <1>0, <1>1 DEF Region
<1>2. ASSUME NEW i \in Region, tz = 3 * i + 1, region' = [region EXCEPT ![i].addr_l = tzasc_regions[i].addr_l]
      PROVE  /\ region' \in [Region -> RegionType]
             /\ \A j \in Region :
                  /\ region'[j].addr_l = IF tz = 3 * j + 1 THEN tzasc_regions[j].addr_l ELSE region[j].addr_l
                  /\ region'[j].addr_h = IF tz = 3 * j + 2 THEN tzasc_regions[j].addr_h ELSE region[j].addr_h
                  /\ region'[j].attr = IF tz = 3 * j + 3 THEN tzasc_regions[j].attr ELSE region[j].attr
  <2>1. \A j \in Region : tz # 3 * j + 2 /\ tz # 3 * j + 3 /\ (tz = 3 * j + 1 <=> j = i)
    BY <1>2 DEF Region
  <2>2. region' \in [Region -> RegionType]
    BY <1>0, <1>2 DEF RegionType
  <2>3. /\ \A j \in Region \ {i} : region'[j] = region[j]
        /\ region'[i].addr_l = tzasc_regions[i].addr_l
        /\ region'[i].addr_h = region[i].addr_h /\ region'[i].attr = region[i].attr
    BY <1>0, <1>2 DEF RegionType
  <2> QED
    BY ONLY <2>1, <2>2, <2>3
<1>3. ASSUME NEW i \in Region, tz = 3 * i + 2, region' = [region EXCEPT ![i].addr_h = tzasc_regions[i].addr_h]
      PROVE  /\ region' \in [Region -> RegionType]
             /\ \A j \in Region :
                  /\ region'[j].addr_l = IF tz = 3 * j + 1 THEN tzasc_regions[j].addr_l ELSE region[j].addr_l
                  /\ region'[j].addr_h = IF tz = 3 * j + 2 THEN tzasc_regions[j].addr_h ELSE region[j].addr_h
                  /\ region'[j].attr = IF tz = 3 * j + 3 THEN tzasc_regions[j].attr ELSE region[j].attr
  <2>1. \A j \in Region : tz # 3 * j + 1 /\ tz # 3 * j + 3 /\ (tz = 3 * j + 2 <=> j = i)
    BY <1>3 DEF Region
  <2>2. region' \in [Region -> RegionType]
    BY <1>0, <1>3 DEF RegionType
  <2>3. /\ \A j \in Region \ {i} : region'[j] = region[j]
        /\ region'[i].addr_h = tzasc_regions[i].addr_h
        /\ region'[i].addr_l = region[i].addr_l /\ region'[i].attr = region[i].attr
    BY <1>0, <1>3 DEF RegionType
  <2> QED
    BY ONLY <2>1, <2>2, <2>3
<1>4. ASSUME NEW i \in Region, tz = 3 * i + 3, region' = [region EXCEPT ![i].attr = tzasc_regions[i].attr]
      PROVE  /\ region' \in [Region -> RegionType]
             /\ \A j \in Region :
                  /\ region'[j].addr_l = IF tz = 3 * j + 1 THEN tzasc_regions[j].addr_l ELSE region[j].addr_l
                  /\ region'[j].addr_h = IF tz = 3 * j + 2 THEN tzasc_regions[j].addr_h ELSE region[j].addr_h
                  /\ region'[j].attr = IF tz = 3 * j + 3 THEN tzasc_regions[j].attr ELSE region[j].attr
  <2>1. \A j \in Region : tz # 3 * j + 1 /\ tz # 3 * j + 2 /\ (tz = 3 * j + 3 <=> j = i)
    BY <1>4 DEF Region
  <2>2. region' \in [Region -> RegionType]
    BY <1>0, <1>4 DEF RegionType
  <2>3. /\ \A j \in Region \ {i} : region'[j] = region[j]
        /\ region'[i].attr = tzasc_regions[i].attr
        /\ region'[i].addr_l = region[i].addr_l /\ region'[i].addr_h = region[i].addr_h
    BY <1>0, <1>4 DEF RegionType
  <2> QED
    BY ONLY <2>1, <2>2, <2>3
<1> QED
  BY <1>1, <1>2, <1>3, <1>4, WriteCases

(* Every step keeps TzStages: the registers are written once, in order, and *)
(* before Trusty leaves.                                                    *)
LEMMA StepTz ==
  ASSUME StageInv, MapStages, TzStages, [Next]_vars
  PROVE  TzStages'
<1>0. /\ cpu \in [Cpu -> Stage0 \cup Stage1] /\ 0 \in Cpu
  BY CpuFacts, SocFixed DEF StageInv, PlatformType
<1>1. ASSUME UNCHANGED <<region, tz>>, cpu'[0] = cpu[0] PROVE TzStages'
  BY <1>0, <1>1 DEF TzStages, Programmed
<1>2. ASSUME UNCHANGED <<region, tz>>, cpu[0] # "reset",
             cpu'[0] \notin {"smp", "leave", "normal"} \/ tz = TzWrites
      PROVE  TzStages'
  BY <1>0, <1>2 DEF TzStages, Programmed
<1>3. CASE UNCHANGED vars
  BY <1>1, <1>3 DEF vars, bootVars, tzVars
<1>4. CASE Elsewhere
  BY <1>1, <1>2, <1>4, ElsewhereFacts DEF tzVars, TzStages
<1>5. CASE arch_early_init
  BY <1>0, <1>5 DEF arch_early_init, Goto, tzVars, TzStages, Programmed
<1>6. CASE generic_arm64_map_regs
  BY <1>0, <1>2, <1>6 DEF generic_arm64_map_regs, Goto, tzVars
<1>7. CASE arm_gic_init
  BY <1>0, <1>2, <1>7 DEF arm_gic_init, Goto, tzVars
<1>8. CASE initial_tzasc
  <2>1. CASE initial_tzasc_write
    <3>1. cpu' = cpu /\ cpu[0] = "tzasc"
      BY <1>0, <1>8, <2>1, WriteCases DEF initial_tzasc, TzDone, tzVars, TzStages
    <3>2. tz' \in 0 .. TzWrites /\ tz' = tz + 1 /\ tz \in Nat
      BY <2>1, WriteCases DEF TzWrites, num
    <3>3. Programmed'
      <4> SUFFICES ASSUME NEW i \in Region
                   PROVE  /\ tz' > 3 * i + 1 => region'[i].addr_l = tzasc_regions[i].addr_l
                          /\ tz' > 3 * i + 2 => region'[i].addr_h = tzasc_regions[i].addr_h
                          /\ tz' > 3 * i + 3 => region'[i].attr = tzasc_regions[i].attr
        BY DEF Programmed, tzasc_regions
      <4>1. i \in Nat
        BY DEF Region
      <4> QED
        BY <2>1, <3>2, <4>1, WriteFields DEF TzStages, Programmed
    <3> QED
      BY <1>0, <2>1, <3>1, <3>2, <3>3, WriteFields DEF TzStages
  <2>2. CASE ~initial_tzasc_write
    BY <1>0, <1>2, <1>8, <2>2 DEF initial_tzasc, TzDone, Goto, tzVars
  <2> QED
    BY <2>1, <2>2
<1>9. CASE smp_hook
  BY <1>0, <1>2, <1>9 DEF smp_hook, Goto, tzVars, TzStages
<1> QED
  BY <1>3, <1>4, <1>5, <1>6, <1>7, <1>8, <1>9 DEF Next, Elsewhere

----------------------------------------------------------------------------
(* The inductive invariant.                                                *)

IndInv == StageInv /\ MapStages /\ TzStages

(* IndInv holds at reset, whatever the boot loader left behind.             *)
LEMMA InitInd == Init => IndInv
<1> SUFFICES ASSUME Init PROVE IndInv
  OBVIOUS
<1>1. StageInv
  BY InitStages
<1>2. cpu[0] = "reset"
  <2>1. 0 \in Cpu
    BY <1>1, CpuFacts DEF StageInv, PlatformType
  <2> QED
    BY <2>1 DEF Init
<1>3. MapStages
  BY <1>2 DEF Init, MapStages
<1>4. TzStages
  <2>1. region \in [Region -> RegionType] /\ tz = 0
    BY TzascAssumption DEF Init, TzInit
  <2>2. Programmed
    BY <2>1 DEF Programmed, Region
  <2>3. tz \in 0 .. TzWrites
    BY <2>1 DEF TzWrites, num
  <2> QED
    BY <1>2, <2>1, <2>2, <2>3 DEF TzStages
<1> QED
  BY <1>1, <1>3, <1>4 DEF IndInv

(* IndInv holds in every reachable state.                                   *)
THEOREM Inductive == Spec => []IndInv
<1>1. IndInv /\ [Next]_vars => IndInv'
  BY StepStages, StepMaps, StepTz DEF IndInv
<1> QED
  BY <1>1, InitInd, PTL DEF Spec

(* No processor runs the normal world with an undefined CNTVOFF, and        *)
(* Trusty's own code runs with the NS bit set in monitor mode only.         *)
THEOREM TimerIsReset == Spec => []TimerReset
<1>1. IndInv => TimerReset
  BY DEF IndInv, StageInv, TimerStages, TimerReset
<1> QED
  BY <1>1, Inductive, PTL

(* Every register access of the start-up code reaches its device, and       *)
(* faults only if the GIC could not be mapped.                              *)
THEOREM RegistersAreReached == Spec => []RegistersReached
<1>1. ASSUME IndInv PROVE RegistersReached
  <2>1. cpu[0] = "fault" => \A m \in maps : m.virt # Regs.gic_virt
    <3> SUFFICES ASSUME cpu[0] = "fault", NEW m \in maps PROVE m.virt # Regs.gic_virt
      OBVIOUS
    <3>1. m = SocMap /\ SocMap \in maps /\ maps \subseteq {SocMap, GicMap} /\ soc \in {"imx7d", "imx6ul"}
      BY <1>1 DEF IndInv, MapStages, StageInv, PlatformType
    <3> QED
      BY <3>1, MapFacts
  <2> QED
    BY <1>1, <2>1 DEF IndInv, MapStages, RegistersReached
<1> QED
  BY <1>1, Inductive, PTL

----------------------------------------------------------------------------
(* What the programmed controller lets through.                             *)

(* The size of a region in blocks, for each size a register can hold.       *)
LEMMA SizeFacts ==
  ASSUME NEW n \in TZ_REGION_SIZE_4M .. TZ_REGION_SIZE_4G
  PROVE  2 ^ (n - TZ_REGION_SIZE_4M) \in {1, 2, 4, 8, 16, 32, 64, 128, 256, 512, 1024}
<1> USE DEF TZ_REGION_SIZE_4M, TZ_REGION_SIZE_4G
<1>1. n \in 21 .. 31
  OBVIOUS
<1>21. CASE n = 21
  BY <1>21
<1>22. CASE n = 22
  BY <1>22
<1>23. CASE n = 23
  BY <1>23
<1>24. CASE n = 24
  BY <1>24
<1>25. CASE n = 25
  BY <1>25
<1>26. CASE n = 26
  BY <1>26
<1>27. CASE n = 27
  BY <1>27
<1>28. CASE n = 28
  BY <1>28
<1>29. CASE n = 29
  BY <1>29
<1>30. CASE n = 30
  BY <1>30
<1>31. CASE n = 31
  BY <1>31
<1> QED
  BY <1>1, <1>21, <1>22, <1>23, <1>24, <1>25, <1>26, <1>27, <1>28, <1>29, <1>30, <1>31

(* The registers of the third entry of the table describe the memory of     *)
(* Trusty exactly, if that is aligned.                                      *)
LEMMA TrustyRegion ==
  ASSUME MEMBASE % 8 = 0,
         NEW r, r.addr_l = MEMBASE, r.addr_h = 0, r.attr = tzasc_regions[2].attr
  PROVE  /\ r.attr.en /\ r.attr.sub_dis = {} /\ r.attr.sp = TZ_ATTR_SP_S_WR_ONLR
         /\ RegionBase(r) .. RegionBase(r) + RegionBlocks(r) - 1 = TrustyBlocks
<1>1. /\ r.attr.en = TRUE /\ r.attr.sub_dis = {} /\ r.attr.size = 24
      /\ r.attr.sp = TZ_ATTR_SP_S_WR_ONLR
  BY DEF tzasc_regions, Region, TZ_ATTR, TZ_REGION_SIZE_32M
<1>2. RegionBlocks(r) = 8
  <2>1. 2 ^ (24 - 21) = 8
    OBVIOUS
  <2> QED
    BY <1>1, <2>1 DEF RegionBlocks, TZ_REGION_SIZE_4M
<1>3. RegionBase(r) = MEMBASE
  BY <1>2, TzascAssumption DEF RegionBase, Blocks4G, Block
<1>4. MEMBASE + 8 - 1 = MEMBASE + 7
  BY TzascAssumption DEF Block, Blocks4G
<1> QED
  BY <1>1, <1>2, <1>3, <1>4 DEF TrustyBlocks

(* Once it is programmed, region 2 decides for the memory of Trusty, and    *)
(* everything else is open.                                                 *)
LEMMA ProgrammedSeals ==
  ASSUME MEMBASE % 8 = 0, TzStages, tz = TzWrites, NEW b \in Block
  PROVE  IF b \in TrustyBlocks THEN ~NormalAllowed(b) ELSE NormalFull(b)
<1>1. \A i \in Region : region[i].addr_l = tzasc_regions[i].addr_l /\ region[i].addr_h = tzasc_regions[i].addr_h
                         /\ region[i].attr = tzasc_regions[i].attr
  BY DEF TzStages, Programmed, TzWrites, num, Region
<1>2. /\ region[2].addr_l = MEMBASE /\ region[2].addr_h = 0 /\ region[2].attr = tzasc_regions[2].attr
      /\ region[0].attr.sp = TZ_ATTR_SP_ALL /\ region[1].attr.sp = TZ_ATTR_SP_ALL
  BY <1>1 DEF tzasc_regions, Region, TZ_ATTR
<1>3. (Covers(2, b) <=> b \in TrustyBlocks) /\ region[2].attr.sp = TZ_ATTR_SP_S_WR_ONLR
  <2>1. PICK r : r = region[2]
    OBVIOUS
  <2>2. /\ r.attr.en /\ r.attr.sub_dis = {} /\ r.attr.sp = TZ_ATTR_SP_S_WR_ONLR
        /\ RegionBase(r) .. RegionBase(r) + RegionBlocks(r) - 1 = TrustyBlocks
    BY <1>2, <2>1, TrustyRegion
  <2>3. /\ region[2].attr.en /\ region[2].attr.sub_dis = {} /\ region[2].attr.sp = TZ_ATTR_SP_S_WR_ONLR
        /\ RegionBase(region[2]) .. RegionBase(region[2]) + RegionBlocks(region[2]) - 1 = TrustyBlocks
    BY <2>1, <2>2
  <2>4. Covers(2, b) <=> b \in TrustyBlocks
    <3>1. Covers(2, b) <=> /\ region[2].attr.en
                           /\ b \in RegionBase(region[2]) .. RegionBase(region[2]) + RegionBlocks(region[2]) - 1
                           /\ Subregion(region[2], b) \notin region[2].attr.sub_dis
      BY DEF Covers
    <3> QED
      BY <2>3, <3>1
  <2> QED
    BY <2>3, <2>4
<1> DEFINE S == {i \in Region : Covers(i, b)}
<1>4. 0 \in S /\ S \subseteq {0, 1, 2} /\ (2 \in S <=> b \in TrustyBlocks)
  BY <1>3 DEF Covers, Region
<1> HIDE DEF S
<1>5. CASE b \in TrustyBlocks
  <2>1. 2 \in S /\ \A y \in S : 2 >= y
    BY <1>4, <1>5
  <2>2. Max(S) = 2
    <3>1. Max(S) \in S /\ \A y \in S : Max(S) >= y
      BY <2>1 DEF Max
    <3>2. Max(S) \in {0, 1, 2}
      BY <1>4, <3>1
    <3>3. Max(S) >= 2
      BY <2>1, <3>1
    <3> QED
      BY <3>2, <3>3
  <2>3. Rights(b) = TZ_ATTR_SP_S_WR_ONLR
    BY <1>3, <2>2 DEF Rights, S
  <2> QED
    BY <1>5, <2>3 DEF NormalAllowed, TZ_ATTR_SP_S_WR_ONLR
<1>6. CASE b \notin TrustyBlocks
  <2>1. \E x \in S : \A y \in S : x >= y
    <3>1. S = {0} \/ S = {0, 1}
      BY <1>4, <1>6
    <3> QED
      BY <3>1
  <2>2. Max(S) \in {0, 1}
    BY <1>4, <1>6, <2>1 DEF Max
  <2>3. Rights(b) = TZ_ATTR_SP_ALL
    BY <1>2, <2>2 DEF Rights, S
  <2> QED
    BY <1>6, <2>3 DEF NormalFull, TZ_ATTR_SP_ALL
<1> QED
  BY <1>5, <1>6

(* If the memory of Trusty starts at a multiple of its size, the normal     *)
(* world has all other memory and no part of that one.                      *)
THEOREM MemoryIsSealed ==
  ASSUME MEMBASE % 8 = 0
  PROVE  Spec => []SealedExactly
<1>1. ASSUME IndInv PROVE SealedExactly
  <2> SUFFICES ASSUME NEW c \in Cpu, cpu[c] = "normal"
               PROVE  \A b \in Block : IF b \in TrustyBlocks THEN ~NormalAllowed(b) ELSE NormalFull(b)
    BY DEF SealedExactly
  <2>1. cpu[0] = "normal"
    BY <1>1, CpuFacts DEF IndInv, StageInv, PlatformType, SecondaryStages
  <2>2. TzStages /\ tz = TzWrites
    BY <1>1, <2>1 DEF IndInv, TzStages
  <2> QED
    BY <2>2, ProgrammedSeals
<1> QED
  BY <1>1, Inductive, PTL

----------------------------------------------------------------------------
(* initial_tzasc on a controller that is in use.                            *)

(* A region that covers block m starts at the multiple of its size below m, *)
(* and its base has no upper half.                                          *)
LEMMA AlignedBase ==
  ASSUME NEW n \in {1, 2, 4, 8, 16, 32, 64, 128, 256, 512, 1024},
         NEW h \in Nat, NEW l \in Block, NEW m \in Block,
         m \in (h * Blocks4G + l) - ((h * Blocks4G + l) % n)
                 .. (h * Blocks4G + l) - ((h * Blocks4G + l) % n) + n - 1
  PROVE  h = 0 /\ l - (l % n) = m - (m % n)
<1> USE DEF Block, Blocks4G
<1>1. CASE n = 1
  BY <1>1
<1>2. CASE n = 2
  BY <1>2
<1>3. CASE n = 4
  BY <1>3
<1>4. CASE n = 8
  BY <1>4
<1>5. CASE n = 16
  BY <1>5
<1>6. CASE n = 32
  BY <1>6
<1>7. CASE n = 64
  BY <1>7
<1>8. CASE n = 128
  BY <1>8
<1>9. CASE n = 256
  BY <1>9
<1>10. CASE n = 512
  BY <1>10
<1>11. CASE n = 1024
  BY <1>11
<1> QED
  BY <1>1, <1>2, <1>3, <1>4, <1>5, <1>6, <1>7, <1>8, <1>9, <1>10, <1>11

(* A write of the table's base to a region that seals Trusty moves nothing. *)
LEMMA BaseStays ==
  ASSUME region \in [Region -> RegionType], SealedBy(2)
  PROVE  /\ region[2].addr_h = 0
         /\ RegionBase(region[2]) = MEMBASE - (MEMBASE % RegionBlocks(region[2]))
<1> DEFINE r == region[2]
           n == RegionBlocks(r)
<1>1. r \in RegionType
  BY DEF Region
<1>2. r.addr_l \in Block /\ r.addr_h \in Nat /\ r.attr.size \in TZ_REGION_SIZE_4M .. TZ_REGION_SIZE_4G
  BY <1>1 DEF RegionType
<1>3. n \in {1, 2, 4, 8, 16, 32, 64, 128, 256, 512, 1024}
  BY <1>2, SizeFacts DEF RegionBlocks
<1>4. MEMBASE \in Block /\ MEMBASE \in TrustyBlocks
  BY TzascAssumption DEF TrustyBlocks, Block, Blocks4G
<1>5. MEMBASE \in RegionBase(r) .. RegionBase(r) + n - 1
  BY <1>4 DEF SealedBy, Covers
<1>6. PICK h \in Nat, l \in Block : h = r.addr_h /\ l = r.addr_l
  BY <1>2
<1>7. RegionBase(r) = (h * Blocks4G + l) - ((h * Blocks4G + l) % n)
  BY <1>6 DEF RegionBase
<1>8. PICK k \in {1, 2, 4, 8, 16, 32, 64, 128, 256, 512, 1024} : k = n
  BY <1>3
<1> HIDE DEF n, r
<1>9. h = 0 /\ l - (l % k) = MEMBASE - (MEMBASE % k)
  <2>1. MEMBASE \in (h * Blocks4G + l) - ((h * Blocks4G + l) % k)
                      .. (h * Blocks4G + l) - ((h * Blocks4G + l) % k) + k - 1
    BY <1>5, <1>7, <1>8
  <2>2. MEMBASE \in Block
    BY <1>4
  <2> QED
    BY ONLY <2>1, <2>2, AlignedBase, k \in {1, 2, 4, 8, 16, 32, 64, 128, 256, 512, 1024}, h \in Nat, l \in Block
<1>10. h * Blocks4G + l = l
  BY <1>9 DEF Block, Blocks4G
<1> QED
  BY <1>6, <1>7, <1>8, <1>9, <1>10 DEF n, r

(* Whether a region seals Trusty depends on its base, its size and its      *)
(* rights only.                                                             *)
LEMMA SameSeal ==
  ASSUME region'[2].attr = region[2].attr,
         RegionBase(region[2])' = RegionBase(region[2]), SealedBy(2)
  PROVE  SealedBy(2)'
<1>1. RegionBlocks(region[2])' = RegionBlocks(region[2])
  BY DEF RegionBlocks
<1>2. ASSUME NEW b \in TrustyBlocks PROVE Covers(2, b)'
  <2>1. Covers(2, b)
    BY DEF SealedBy
  <2>2. Subregion(region[2], b)' = Subregion(region[2], b)
    BY <1>1 DEF Subregion
  <2> QED
    BY <1>1, <2>1, <2>2 DEF Covers
<1> QED
  BY <1>2 DEF SealedBy, TrustyBlocks

(* If the boot loader has sealed the memory of Trusty with region 2, in     *)
(* whatever way, no write of initial_tzasc opens it for a moment.           *)
THEOREM SealIsKept ==
  ASSUME MEMBASE % 8 = 0
  PROVE  Spec => SealKept
<1> DEFINE Keep == SealedBy(2) => SealedBy(2)'
<1>1. ASSUME IndInv, [Next]_vars PROVE Keep
  <2> SUFFICES ASSUME SealedBy(2) PROVE SealedBy(2)'
    OBVIOUS
  <2>0. TzStages
    BY <1>1 DEF IndInv
  <2>1. CASE ~initial_tzasc_write
    <3>1. region' = region
      BY <1>1, <2>1, ElsewhereFacts DEF Next, Elsewhere, IndInv, vars, tzVars, arch_early_init,
           generic_arm64_map_regs, arm_gic_init, initial_tzasc, smp_hook
    <3>2. RegionBase(region[2])' = RegionBase(region[2])
      BY <3>1 DEF RegionBase, RegionBlocks
    <3> QED
      BY <3>1, <3>2, SameSeal
  <2>2. CASE initial_tzasc_write
    <3>1. /\ region'[2].addr_l = IF tz = 7 THEN MEMBASE ELSE region[2].addr_l
          /\ region'[2].addr_h = IF tz = 8 THEN 0 ELSE region[2].addr_h
          /\ region'[2].attr = IF tz = 9 THEN tzasc_regions[2].attr ELSE region[2].attr
      BY <2>0, <2>2, WriteFields DEF tzasc_regions, Region
    <3>2. region[2].addr_h = 0 /\ RegionBase(region[2]) = MEMBASE - (MEMBASE % RegionBlocks(region[2]))
      BY <2>0, BaseStays DEF TzStages
    <3>3. CASE tz = 9
      <4>1. region[2].addr_l = MEMBASE
        BY <2>0, <3>3 DEF TzStages, Programmed, Region, tzasc_regions
      <4>2. region'[2].addr_l = MEMBASE /\ region'[2].addr_h = 0 /\ region'[2].attr = tzasc_regions[2].attr
        BY <3>1, <3>2, <3>3, <4>1
      <4>3. (\A b \in TrustyBlocks : Covers(2, b)') /\ region'[2].attr.sp = TZ_ATTR_SP_S_WR_ONLR
        <5>1. PICK r : r = region'[2]
          OBVIOUS
        <5>2. /\ r.attr.en /\ r.attr.sub_dis = {} /\ r.attr.sp = TZ_ATTR_SP_S_WR_ONLR
              /\ RegionBase(r) .. RegionBase(r) + RegionBlocks(r) - 1 = TrustyBlocks
          BY <4>2, <5>1, TrustyRegion
        <5>3. /\ RegionBase(r) = RegionBase(region[2])' /\ RegionBlocks(r) = RegionBlocks(region[2])'
          BY <5>1 DEF RegionBase, RegionBlocks
        <5> QED
          BY <5>1, <5>2, <5>3 DEF Covers
      <4> QED
        BY <4>3 DEF SealedBy, TZ_ATTR_SP_S_WR_ONLR, TrustyBlocks
    <3>4. CASE tz # 9
      <4>1. region'[2].attr = region[2].attr /\ region'[2].addr_h = region[2].addr_h
        BY <3>1, <3>2, <3>4
      <4>2. RegionBlocks(region[2])' = RegionBlocks(region[2])
        BY <4>1 DEF RegionBlocks
      <4>3. RegionBase(region[2])' = RegionBase(region[2])
        <5>1. CASE tz = 7
          <6>1. MEMBASE \in Int /\ 0 * Blocks4G + MEMBASE = MEMBASE
            BY TzascAssumption DEF Block, Blocks4G
          <6> QED
            BY <3>1, <3>2, <4>1, <4>2, <5>1, <6>1 DEF RegionBase
        <5>2. CASE tz # 7
          BY <3>1, <4>1, <4>2, <5>2 DEF RegionBase
        <5> QED
          BY <5>1, <5>2
      <4> QED
        BY <4>1, <4>3, SameSeal
    <3> QED
      BY <3>3, <3>4
  <2> QED
    BY <2>1, <2>2
<1> QED
  BY <1>1, Inductive, PTL DEF Spec, SealKept
============================================================================
