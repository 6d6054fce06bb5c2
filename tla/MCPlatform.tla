----------------------------- MODULE MCPlatform -----------------------------
(* Instances of ImxPlatform for TLC.  The boot loader leaves each region    *)
(* register as after reset, open on all of memory, or secure on 512 MB.     *)
EXTENDS ImxPlatform

AfterReset == [addr_l |-> 0, addr_h |-> 0,
               attr |-> TZ_ATTR(TZ_ATTR_SP_S_WR_ONLR, {}, TZ_REGION_SIZE_4M, FALSE)]
OpenDram == [addr_l |-> 512, addr_h |-> 0,
             attr |-> TZ_ATTR(TZ_ATTR_SP_ALL, {}, TZ_REGION_SIZE_512M, TRUE)]
SecureDram == [addr_l |-> 512, addr_h |-> 0,
               attr |-> TZ_ATTR(TZ_ATTR_SP_S_WR_ONLR, {0, 3}, TZ_REGION_SIZE_512M, TRUE)]

Prior == {AfterReset, OpenDram, SecureDram}

\* As linked, or the upper half of it.
Ram == {LinkedRam, [base |-> LinkedRam.base + 4 * PagesPerBlock, size |-> 4 * PagesPerBlock]}
=============================================================================
