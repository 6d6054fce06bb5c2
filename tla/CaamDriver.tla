---------------------------- MODULE CaamDriver ----------------------------
(***************************************************************************)
(* The CAAM driver (caam.c) and the device it shares a one-entry job ring   *)
(* with.  The driver builds a job descriptor, posts it, polls until the     *)
(* output ring holds one result and takes it; the device runs on its own.   *)
(* The normal world may gate the CAAM clocks while the driver is idle,      *)
(* which is why run_job switches them on for every job; with the fault      *)
(* "gate" it does so at any time, also between two statements of run_job.   *)
(*                                                                          *)
(* Descriptor words are reduced to the operation and its output range, a    *)
(* buffer to the cells the device wrote (mem) and those the CPU sees after  *)
(* finish_dma (seen).                                                       *)
(***************************************************************************)
EXTENDS Integers, FiniteSets

CONSTANTS MACH,       \* "IMX6" or "IMX7"
          HASH_LEN,   \* cells of a digest
          ROOT_KEY_LEN,       \* cells of a root key (32 bytes)
          CAAM_KB_HEADER_LEN, \* cells a blob has more than its content (48 bytes)
          LenMod,     \* lengths of a descriptor are modulo this (16 bits)
          CacheLine,  \* words of a cache line
          MaxLen,     \* bound: cells of an output buffer
          MaxCalls,   \* bound: driver calls in a behaviour
          Faults      \* what may fail: "env", "dma", "job", "assert", "rdsta", "gate"

ASSUME CaamAssumption ==
  /\ MACH \in {"IMX6", "IMX7"}
  /\ MaxLen \in Nat \ {0} /\ HASH_LEN \in 1 .. MaxLen
  /\ LenMod \in Nat \ {0}
  /\ ROOT_KEY_LEN \in 1 .. MaxLen /\ ROOT_KEY_LEN < LenMod
  /\ CAAM_KB_HEADER_LEN \in Nat
  /\ CacheLine \in {4, 8, 16}
  /\ MaxCalls \in Nat
  /\ Faults \subseteq {"env", "dma", "job", "assert", "rdsta", "gate"}

VARIABLES
  pc,      \* where the driver is: an element of PC
  op,      \* the operation in progress
  bufs,    \* buffers still to be prepared for DMA
  len,     \* cells still to be produced
  out,     \* cells of the output buffer already produced
  seg,     \* cells the current job produces (pmem.size)
  ret,     \* result of the last call
  status,  \* g_job->status
  g_rings, \* word address of the rings
  dirty,   \* words of the rings the CPU wrote and the device does not see
  ring,    \* the output ring entry: which job, its status
  orsf,    \* CAAM_ORSFR0: results in the output ring
  dev,     \* the device: "idle", "busy"
  ccgr,    \* clock gate fields of the CCM register, 3 is "on"
  rdsta,   \* RNG status bits
  mem,     \* cells of the output buffer written by the device in this call
  seen,    \* cells of the output buffer the CPU sees written in this call
  seq,     \* ghost: number of the last job posted
  gated,   \* ghost: has the normal world closed a gate since run_job got the clock?
  bad,     \* ghost: did a job of this call fail?
  total,   \* ghost: cells asked for in this call
  calls    \* calls made, for the bound

devVars == <<ring, orsf, dev, mem, bad>>
ringVars == <<g_rings, dirty>>
callVars == <<op, bufs, len, out, seg, ret, seen, total, calls>>
vars == <<pc, callVars, status, ringVars, devVars, ccgr, rdsta, seq, gated>>

(* In run_job: before the rings are written, before caam_clk_get, before the *)
(* job is started, while it polls, and after it took the status.            *)
Running == {"run", "clk", "start", "poll", "check"}

PC == {"init", "open", "idle", "dma", "dead"} \cup Running

Gate == 0 .. 6

\* The gates of the CAAM clocks in the register at CCM_CAAM_CCGR_OFFSET.
CaamGate == IF MACH = "IMX6" THEN {4, 5, 6} ELSE {0}

ClockRuns == \A g \in CaamGate : ccgr[g] = 3

----------------------------------------------------------------------------
(* The calls of the driver: buffers it prepares before it posts its job.    *)
(* The size n of a call is that of its output.                              *)

caam_decap_blob == [name |-> "decap_blob", bufs |-> 3]
caam_gen_blob == [name |-> "gen_blob", bufs |-> 3]
caam_aes_op == [name |-> "aes_op", bufs |-> 3]
caam_hash == [name |-> "hash", bufs |-> 2]
caam_gen_kdfv1_root_key == [name |-> "root_key", bufs |-> 1]
caam_hwrng == [name |-> "hwrng", bufs |-> 1]

Call == {caam_decap_blob, caam_gen_blob, caam_aes_op, caam_hash,
         caam_gen_kdfv1_root_key, caam_hwrng}

\* What the calls assert of a size; 0xFFFF is LenMod - 1.  caam_hwrng asserts
\* nothing.
SizeAsserted(c, n) ==
  /\ c = caam_decap_blob => n + CAAM_KB_HEADER_LEN < LenMod - 1
  /\ c = caam_gen_blob => n < LenMod - 1
  /\ c \in {caam_aes_op, caam_hash} => n <= LenMod - 1
  /\ c = caam_gen_kdfv1_root_key => n = ROOT_KEY_LEN

TypeOK ==
  /\ pc \in PC
  /\ op \in {c.name : c \in Call} \cup {"none", "rng_inst"}
  /\ bufs \in 0 .. 3
  /\ len \in 0 .. MaxLen /\ out \in 0 .. MaxLen /\ seg \in 0 .. MaxLen
  /\ ret \in {"none", "SUCCESS", "FAILURE"}
  /\ status \in {"ok", "err"}
  /\ g_rings \in 0 .. 2 * CacheLine - 1
  /\ dirty \subseteq g_rings .. g_rings + 2
  /\ ring \in [job : Nat, status : {"ok", "err"}]
  /\ orsf \in 0 .. 1
  /\ dev \in {"idle", "busy"}
  /\ ccgr \in [Gate -> 0 .. 3]
  /\ rdsta \subseteq {"IF0", "SKVN"}
  /\ mem \subseteq 1 .. MaxLen /\ seen \subseteq 1 .. MaxLen
  /\ seq \in Nat /\ calls \in 0 .. MaxCalls
  /\ bad \in BOOLEAN /\ gated \in BOOLEAN /\ total \in 0 .. MaxLen

Init ==
  /\ pc = "init" /\ op = "none" /\ bufs = 0
  /\ len = 0 /\ out = 0 /\ seg = 0
  /\ ret = "none" /\ status = "ok"
  /\ g_rings = 0 /\ dirty = {}
  /\ ring = [job |-> 0, status |-> "ok"] /\ orsf = 0
  /\ dev = "idle"
  /\ ccgr = [g \in Gate |-> 3]
  /\ rdsta \in SUBSET {"IF0", "SKVN"}
  /\ mem = {} /\ seen = {}
  /\ seq = 0 /\ gated = FALSE /\ bad = FALSE /\ total = 0 /\ calls = 0

----------------------------------------------------------------------------
(* Initialisation.                                                         *)

\* ccgr after caam_clk_get.  On i.MX6 the code or's in (3 << 8), (3 << 12)
\* and the comparison (3 < 10), which is the value 1.  Reading and writing the
\* register is one step: what the normal world writes in between is lost, as
\* if it had not been written, or was written before.
caam_clk_get ==
  IF MACH = "IMX6"
  THEN [ccgr EXCEPT ![4] = 3, ![6] = 3, ![0] = IF ccgr[0] \in {0, 2} THEN ccgr[0] + 1 ELSE ccgr[0]]
  ELSE [g \in Gate |-> IF g = 0 THEN 3 ELSE 0]

Die == pc' = "dead" /\ UNCHANGED <<callVars, status, ringVars, devVars, seq>>

\* Mutant: the alignment of malloc.
rings_align_malloc == 2

\* The words of memalign(16, ...).
rings_align == 4

Line(w) == w \div CacheLine

\* The rings (one word in, two words out) have been written and then handed
\* to prepare_dma with sizeof(g_rings), the size of a pointer: the lines of
\* the first word are cleaned.
prepare_rings == {w \in g_rings .. g_rings + 2 : Line(w) # Line(g_rings)}

\* Mapping the registers or allocating the rings and the job may fail, and
\* main then returns.
init_caam_env ==
  /\ pc = "init"
  /\ \/ /\ g_rings' \in {a \in 0 .. 2 * CacheLine - 1 : a % rings_align = 0}
        /\ pc' = "open"
        /\ UNCHANGED <<callVars, status, dirty, devVars, seq>>
     \/ "env" \in Faults /\ Die
  /\ UNCHANGED <<ccgr, gated, rdsta>>

\* Mutant: any status bit counts as instantiated.
caam_open_any_bit ==
  /\ pc = "open"
  /\ ccgr' = caam_clk_get
  /\ dirty' = prepare_rings
  /\ IF rdsta # {}
     THEN pc' = "idle" /\ UNCHANGED op
     ELSE pc' = "run" /\ op' = "rng_inst"
  /\ UNCHANGED <<bufs, len, out, seg, ret, seen, total, calls, status, g_rings, devVars, gated, rdsta, seq>>

\* The generator is instantiated by a job unless it already is.  The rings
\* are set up first: a failure aborts.
caam_open ==
  /\ pc = "open"
  /\ ccgr' = caam_clk_get
  /\ dirty' = prepare_rings
  /\ \/ "IF0" \in rdsta /\ pc' = "idle" /\ UNCHANGED op
     \/ "IF0" \notin rdsta /\ pc' = "run" /\ op' = "rng_inst"
     \/ "dma" \in Faults /\ pc' = "dead" /\ UNCHANGED op
  /\ UNCHANGED <<bufs, len, out, seg, ret, seen, total, calls, status, g_rings, devVars, gated, rdsta, seq>>

----------------------------------------------------------------------------
(* A call.                                                                 *)

\* caam_hwrng of nothing returns at once.  A size the call does not allow
\* aborts, and so may the other things it asserts of its arguments.
CallBegin(c, n) ==
  /\ pc = "idle" /\ calls < MaxCalls
  /\ c = caam_gen_blob => n >= CAAM_KB_HEADER_LEN
  /\ calls' = calls + 1
  /\ op' = c.name /\ bufs' = c.bufs
  /\ len' = n /\ total' = n /\ out' = 0 /\ seg' = 0
  /\ mem' = {} /\ seen' = {} /\ bad' = FALSE
  /\ \/ /\ c = caam_hwrng /\ n = 0
        /\ ret' = "SUCCESS" /\ UNCHANGED pc
     \/ /\ c = caam_hwrng => n > 0
        /\ SizeAsserted(c, n)
        /\ ret' = "none" /\ pc' = "dma"
     \/ /\ ~SizeAsserted(c, n) \/ (c # caam_hwrng /\ "assert" \in Faults)
        /\ ret' = "none" /\ pc' = "dead"
  /\ UNCHANGED <<status, ringVars, ring, orsf, dev, ccgr, gated, rdsta, seq>>

Return(r) == ret' = r /\ pc' = "idle"

\* One buffer is prepared.  Only caam_hwrng accepts a part of its buffer.
prepare_dma ==
  /\ pc = "dma"
  /\ \/ /\ "dma" \in Faults
        /\ Return("FAILURE")
        /\ UNCHANGED <<bufs, seg>>
     \/ /\ bufs > 0
        /\ bufs' = bufs - 1
        /\ seg' \in IF op = "hwrng" THEN 1 .. len ELSE {len}
        /\ pc' = IF bufs = 1 THEN "run" ELSE "dma"
        /\ UNCHANGED ret
  /\ UNCHANGED <<op, len, out, seen, total, calls, status, ringVars, devVars, ccgr, gated, rdsta, seq>>

\* Mutant: the clocks are switched on by caam_open only.
run_job_prepare_noclk ==
  /\ pc = "run"
  /\ ring' = [job |-> 0, status |-> "ok"]
  /\ dirty' = prepare_rings
  /\ gated' = FALSE
  /\ pc' = "start"
  /\ UNCHANGED <<callVars, status, g_rings, orsf, dev, mem, bad, seq, ccgr, rdsta>>

\* run_job, up to caam_clk_get: the descriptor and the rings are handed to the
\* device, with an empty output ring entry.
run_job_prepare ==
  /\ pc = "run"
  /\ \/ /\ ring' = [job |-> 0, status |-> "ok"]
        /\ dirty' = prepare_rings
        /\ gated' = FALSE
        /\ pc' = "clk"
        /\ UNCHANGED <<callVars, status, g_rings, orsf, dev, mem, bad, seq>>
     \/ "assert" \in Faults /\ Die /\ UNCHANGED gated
  /\ UNCHANGED <<ccgr, rdsta>>

run_job_clk ==
  /\ pc = "clk"
  /\ ccgr' = caam_clk_get
  /\ pc' = "start"
  /\ UNCHANGED <<callVars, status, ringVars, devVars, gated, rdsta, seq>>

\* Mutant: does not wait for the job.
run_job_start_nowait ==
  /\ pc = "start"
  /\ seq' = seq + 1
  /\ dev' = "busy"
  /\ pc' = "check"
  /\ UNCHANGED <<callVars, status, ringVars, ring, orsf, mem, bad, ccgr, gated, rdsta>>

\* The write of CAAM_IRJAR0.
run_job_start ==
  /\ pc = "start"
  /\ seq' = seq + 1
  /\ dev' = "busy"
  /\ pc' = "poll"
  /\ UNCHANGED <<callVars, status, ringVars, ring, orsf, mem, bad, ccgr, gated, rdsta>>

\* Mutant: the job is not removed from the output ring.
run_job_reap_kept ==
  /\ pc = "poll" /\ orsf = 1
  /\ IF ring.job # 0
     THEN /\ status' = ring.status
          /\ pc' = "check"
          /\ UNCHANGED <<callVars, ringVars, devVars, seq>>
     ELSE Die
  /\ UNCHANGED <<ccgr, gated, rdsta>>

\* run_job, once CAAM_ORSFR0 reads 1: out[0] must be the address of g_job, as
\* it is in the result of every job and not in the empty entry; take the
\* status, remove the job.
run_job_reap ==
  /\ pc = "poll" /\ orsf = 1
  /\ IF ring.job # 0
     THEN /\ status' = ring.status
          /\ orsf' = orsf - 1
          /\ pc' = "check"
          /\ UNCHANGED <<callVars, ringVars, ring, dev, mem, bad, seq>>
     ELSE Die
  /\ UNCHANGED <<ccgr, gated, rdsta>>

\* The caller looks at the status; finish_dma makes the output visible.
job_failed ==
  /\ pc = "check" /\ status = "err" /\ op # "rng_inst"
  /\ Return("FAILURE")
  /\ UNCHANGED <<op, bufs, len, out, seg, seen, total, calls, status, ringVars, devVars, ccgr, gated, rdsta, seq>>

finish_dma == seen \cup (mem \cap (out + 1 .. out + seg))

\* Mutant: out is not advanced with len.
job_done_same_out ==
  /\ pc = "check" /\ status = "ok" /\ op # "rng_inst"
  /\ seen' = finish_dma
  /\ len' = len - seg
  /\ IF len = seg THEN Return("SUCCESS") /\ UNCHANGED bufs
                  ELSE pc' = "dma" /\ bufs' = 1 /\ UNCHANGED ret
  /\ UNCHANGED <<op, out, seg, total, calls, status, ringVars, devVars, ccgr, gated, rdsta, seq>>

job_done ==
  /\ pc = "check" /\ status = "ok" /\ op # "rng_inst"
  /\ seen' = finish_dma
  /\ len' = len - seg /\ out' = out + seg
  /\ IF len = seg THEN Return("SUCCESS") /\ UNCHANGED bufs
                  ELSE pc' = "dma" /\ bufs' = 1 /\ UNCHANGED ret
  /\ UNCHANGED <<op, seg, total, calls, status, ringVars, devVars, ccgr, gated, rdsta, seq>>

\* caam_open aborts unless the generator is now instantiated and has keys.
rng_inst_done ==
  /\ pc = "check" /\ op = "rng_inst"
  /\ pc' = IF status = "ok" /\ rdsta = {"IF0", "SKVN"} THEN "idle" ELSE "dead"
  /\ op' = "none"
  /\ UNCHANGED <<bufs, len, out, seg, ret, seen, total, calls, status, ringVars, devVars, ccgr, gated, rdsta, seq>>

----------------------------------------------------------------------------
(* The device and the normal world.                                        *)

\* The cells the posted job writes.  The descriptor holds 16 bits of the size
\* of the output.  A digest has its own length.  The sequence of a root key has
\* room for 0x30 bytes, of which the blob protocol fills the 256 bits of the key.
JobOutput == IF op = "hash" THEN 1 .. HASH_LEN ELSE out + 1 .. out + (seg % LenMod)

\* A job ends well, or with an error after it wrote any part of its output.
DeviceCompletes ==
  /\ dev = "busy" /\ ClockRuns
  /\ \/ /\ ring' = [job |-> seq, status |-> "ok"]
        /\ mem' = mem \cup JobOutput
        /\ rdsta' = IF op # "rng_inst" \/ "rdsta" \in Faults THEN rdsta ELSE {"IF0", "SKVN"}
        /\ UNCHANGED bad
     \/ /\ "job" \in Faults
        /\ ring' = [job |-> seq, status |-> "err"]
        /\ \E n \in 0 .. seg : mem' = mem \cup (JobOutput \cap (1 .. out + n))
        /\ bad' = TRUE
        /\ UNCHANGED rdsta
  /\ orsf' = orsf + 1
  /\ dev' = "idle"
  /\ UNCHANGED <<pc, callVars, status, ringVars, ccgr, gated, seq>>

NormalWorldGates ==
  /\ pc = "idle" \/ "gate" \in Faults
  /\ \E off \in SUBSET CaamGate :
       /\ ccgr' = [g \in Gate |-> IF g \in off THEN 0 ELSE ccgr[g]]
       /\ gated' = (gated \/ (off # {} /\ pc \in {"start", "poll"}))
  /\ UNCHANGED <<pc, callVars, status, ringVars, devVars, rdsta, seq>>

NormalWorldUngates ==
  /\ "gate" \in Faults
  /\ ccgr' = [g \in Gate |-> IF g \in CaamGate THEN 3 ELSE ccgr[g]]
  /\ UNCHANGED <<pc, callVars, status, ringVars, devVars, gated, rdsta, seq>>

Driver == \/ init_caam_env
          \/ caam_open
          \/ prepare_dma
          \/ run_job_prepare
          \/ run_job_clk
          \/ run_job_start
          \/ run_job_reap
          \/ job_failed
          \/ job_done
          \/ rng_inst_done

Next == \/ Driver
        \/ \E c \in Call, n \in 0 .. MaxLen : CallBegin(c, n)
        \/ DeviceCompletes
        \/ NormalWorldGates
        \/ NormalWorldUngates

Spec == Init /\ [][Next]_vars

\* The driver runs on, and a device whose clocks run again and again finishes
\* its job.
FairSpec == Spec /\ WF_vars(Driver) /\ SF_vars(DeviceCompletes)

----------------------------------------------------------------------------
(* Properties.                                                             *)

(* The result run_job finds when CAAM_ORSFR0 reads 1 is that of the job it   *)
(* just posted: its assertion on out[0] holds, and the status it takes is    *)
(* not left over from an earlier job.                                       *)
OwnResult == pc = "poll" /\ orsf = 1 => ring.job = seq

(* While the device works the driver does nothing but poll: descriptor,     *)
(* rings and buffers are not touched under it, and no result is left over   *)
(* from an earlier job.                                                     *)
DeviceUndisturbed == dev = "busy" => pc = "poll" /\ orsf = 0

(* The cells of its output a call makes visible: caam_hash prepares and      *)
(* finishes as many bytes of the digest as its input has.                   *)
Promised == IF op = "hash" /\ HASH_LEN < total THEN HASH_LEN ELSE total

(* CAAM_SUCCESS means that every cell of the output was written by the       *)
(* device in this call and is visible to the CPU, however prepare_dma split  *)
(* the buffer, and that no job of the call failed.  It takes buffers below   *)
(* 64 KB (MaxLen < LenMod): caam_hwrng does not check.                      *)
SuccessMeansFilled ==
  pc = "idle" /\ ret = "SUCCESS" => ~bad /\ seen = 1 .. Promised

(* Random data is only drawn from an instantiated generator.                *)
RngInstantiated == dev = "busy" /\ op = "hwrng" => "IF0" \in rdsta

(* While a job is in the ring the clocks of CAAM run, whatever the normal    *)
(* world did to them before run_job came to "get clock" (caam.c:135): only a *)
(* gate it closes after that, before the job is started or under it, stops   *)
(* them.                                                                    *)
ClockOn == dev = "busy" /\ ~gated => ClockRuns

(* The device sees what the CPU wrote to the rings, although prepare_dma is *)
(* told of 4 of their 12 bytes, wherever memalign puts them; no dirty word  *)
(* is left to be written back over the result.                              *)
RingCoherent == dev = "busy" => dirty = {}

(* Every call returns, or the process aborts: run_job's polling loop ends.  *)
(* A normal world that gates the clocks in the middle of a job only delays  *)
(* it, as long as the clocks run again and again; what it closed before     *)
(* caam_clk_get does not matter.                                            *)
CallReturns ==
  []<>(ClockRuns \/ ~gated) => (pc \in {"dma"} \cup Running ~> pc \in {"idle", "dead"})
===========================================================================
