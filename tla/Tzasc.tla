------------------------------- MODULE Tzasc -------------------------------
(***************************************************************************)
(* The TrustZone address space controller and initial_tzasc, which programs *)
(* it one register at a time (tzasc.c, tzasc.h, tzasc_regions.h).  Memory   *)
(* is counted in blocks of 4 MB, the smallest region size named in tzasc.h. *)
(*                                                                          *)
(* The device is external: the region with the highest number that covers   *)
(* an address decides, region 0 covers everything.  Regions the code does   *)
(* not program are taken to be disabled, as after reset.                    *)
(***************************************************************************)
EXTENDS Integers, FiniteSetsExt

CONSTANTS MEMBASE,      \* first block of the memory of Trusty
          PriorRegions  \* register contents the boot loader may leave behind

Blocks4G == 1024
Block == 0 .. Blocks4G - 1

\* TZ_REGION_SIZE_4M is 0x15; one more doubles the size.
TZ_REGION_SIZE_4M == 21
TZ_REGION_SIZE_32M == 24
TZ_REGION_SIZE_512M == 28

TZ_REGION_SIZE_4G == 31

TZ_ATTR_SP_S_WR_ONLR == {"S_W", "S_R"}
TZ_ATTR_SP_ALL == {"S_W", "S_R", "NS_R", "NS_W"}

\* sub_dis: the disabled ones among the eight subregions of a region.
TZ_ATTR(sp, sub_dis, size, en) == [sp |-> sp, sub_dis |-> sub_dis, size |-> size, en |-> en]

RegionType == [addr_l : Block, addr_h : Nat,
               attr : [sp : SUBSET TZ_ATTR_SP_ALL, sub_dis : SUBSET (0 .. 7),
                       size : TZ_REGION_SIZE_4M .. TZ_REGION_SIZE_4G, en : BOOLEAN]]

ASSUME TzascAssumption == MEMBASE \in Block /\ PriorRegions \subseteq RegionType

Region == 0 .. 2

\* The table; 0x80000000 is block 512.
tzasc_regions ==
  [i \in Region |->
    CASE i = 0 -> [addr_l |-> 0, addr_h |-> 0,
                   attr |-> TZ_ATTR(TZ_ATTR_SP_ALL, {}, TZ_REGION_SIZE_4G, TRUE)]
      [] i = 1 -> [addr_l |-> 512, addr_h |-> 0,
                   attr |-> TZ_ATTR(TZ_ATTR_SP_ALL, {}, TZ_REGION_SIZE_512M, TRUE)]
      [] i = 2 -> [addr_l |-> MEMBASE, addr_h |-> 0,
                   attr |-> TZ_ATTR(TZ_ATTR_SP_S_WR_ONLR, {}, TZ_REGION_SIZE_32M, TRUE)]]

VARIABLES region,     \* the region registers
          tz_action,  \* TZ_ACTION
          tz_int,     \* is a violation pending in TZ_INT_STATUS?
          tz          \* number of registers initial_tzasc has written

tzVars == <<region, tz_action, tz_int, tz>>

\* Mutant: one region short.
num_short == 2

\* countof(tzasc_regions)
num == 3
TzWrites == 3 * num + 2
TzDone == tz = TzWrites

TzInit ==
  /\ region \in [Region -> PriorRegions]
  /\ tz_action \in 0 .. 3
  /\ tz_int \in BOOLEAN
  /\ tz = 0

----------------------------------------------------------------------------
(* initial_tzasc, one write.                                               *)

\* Mutant: the rights are written before the base.
RegionField_attr_first(k) == <<"attr", "addr_l", "addr_h">>[(k % 3) + 1]

\* The field the k-th write to the region registers goes to.
RegionField(k) == <<"addr_l", "addr_h", "attr">>[(k % 3) + 1]

initial_tzasc_write ==
  /\ tz < TzWrites
  /\ \/ /\ tz = 0
        /\ tz_action' = 2
        /\ UNCHANGED <<region, tz_int>>
     \/ /\ tz \in 1 .. 3 * num
        /\ LET i == (tz - 1) \div 3
               f == RegionField(tz - 1)
           IN  region' = [region EXCEPT ![i][f] = tzasc_regions[i][f]]
        /\ UNCHANGED <<tz_action, tz_int>>
     \/ /\ tz = 3 * num + 1
        /\ tz_int' = FALSE
        /\ UNCHANGED <<region, tz_action>>
  /\ tz' = tz + 1

----------------------------------------------------------------------------
(* What the controller lets through.                                       *)

RegionBlocks(r) == 2 ^ (r.attr.size - TZ_REGION_SIZE_4M)

\* The base is taken down to a multiple of the size.
RegionBase(r) ==
  LET base == r.addr_h * Blocks4G + r.addr_l IN base - (base % RegionBlocks(r))

Subregion(r, b) == ((b - RegionBase(r)) * 8) \div RegionBlocks(r)

Covers(i, b) ==
  LET r == region[i] IN
  i = 0 \/ /\ r.attr.en
           /\ b \in RegionBase(r) .. RegionBase(r) + RegionBlocks(r) - 1
           /\ Subregion(r, b) \notin r.attr.sub_dis

Rights(b) == region[Max({i \in Region : Covers(i, b)})].attr.sp

NormalAllowed(b) == {"NS_R", "NS_W"} \cap Rights(b) # {}
NormalFull(b) == {"NS_R", "NS_W"} \subseteq Rights(b)

\* The memory of Trusty: 32 MB from MEMBASE, the default of MEMSIZE.
TrustyBlocks == MEMBASE .. MEMBASE + 7

SealedBy(i) == \A b \in TrustyBlocks : Covers(i, b) /\ {"NS_R", "NS_W"} \cap region[i].attr.sp = {}
============================================================================
