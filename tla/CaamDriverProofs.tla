-------------------------- MODULE CaamDriverProofs --------------------------
(***************************************************************************)
(* Proofs about CaamDriver for both SoCs, every size of a cache line,       *)
(* buffer and digest, every number of calls and every combination of        *)
(* faults.                                                                  *)
(*                                                                          *)
(* IndInv is the inductive invariant.  The properties of CaamDriver are     *)
(* not inductive alone: a result is a call's own because the rings are      *)
(* empty whenever a job is posted, a success is a filled buffer because     *)
(* every job of the call has so far written its part of it, the rings are   *)
(* coherent because memalign keeps them in one cache line, and the clocks   *)
(* run under a job because they do from caam_clk_get on.                    *)
(***************************************************************************)
EXTENDS CaamDriver, TLAPS

InCall == pc \in {"dma"} \cup Running

(* All three words of the rings are in one cache line and clean.            *)
RingsInOneLine == g_rings % 4 = 0 /\ dirty = {}

(* Outside the polling loop nothing is posted and nothing is left in the    *)
(* output ring; inside it the device works or its result is there.          *)
OneJob ==
  /\ pc # "poll" => dev = "idle" /\ orsf = 0
  /\ pc = "poll" => seq # 0
  /\ pc = "poll" => \/ dev = "busy" /\ orsf = 0
                    \/ dev = "idle" /\ orsf = 1 /\ ring.job = seq

(* The status of the job that was run, where the driver finds it.           *)
Finished(s) == \/ pc = "poll" /\ dev = "idle" /\ ring.status = s
               \/ pc = "check" /\ status = s

(* The generator is instantiated before a call is made, and only caam_open  *)
(* runs with no call in progress.                                           *)
Instantiated ==
  /\ pc \in {"init", "open"} => op = "none"
  /\ op = "rng_inst" => pc \in Running \cup {"dead"}
  /\ pc \in {"idle", "dma"} \cup Running /\ op # "rng_inst" => "IF0" \in rdsta
  /\ op = "none" => ~InCall

(* Before the first call nothing was asked for.                             *)
NothingAsked ==
  op \in {"none", "rng_inst"} =>
    /\ len = 0 /\ out = 0 /\ seg = 0 /\ total = 0
    /\ mem = {} /\ seen = {} /\ ret = "none"

(* The part of the output that was produced and the part that was not, and  *)
(* the part the current job produces.                                       *)
Split ==
  /\ InCall => out + len = total
  /\ InCall /\ op # "hwrng" => out = 0
  /\ pc \in Running => seg <= len
  /\ pc \in Running /\ op # "hwrng" => seg = len

(* What the device has written so far, and what the CPU sees of it if every *)
(* size fits a descriptor.                                                  *)
Produced ==
  /\ op = "hash" => mem \subseteq 1 .. HASH_LEN
  /\ Finished("ok") => JobOutput \subseteq mem
  /\ MaxLen < LenMod /\ InCall => seen = 1 .. out /\ seen \subseteq mem

(* What a call that succeeded has produced, if every size fits a descriptor. *)
Filled == MaxLen < LenMod => SuccessMeansFilled

(* On i.MX7 caam_clk_get opens the gate, and only the normal world closes    *)
(* it.                                                                      *)
ClockKept == MACH = "IMX7" /\ pc \in {"start", "poll"} /\ ~gated => ClockRuns

(* A job of the call failed only if its status says so or the call has      *)
(* already failed.                                                          *)
FailureKnown ==
  /\ pc \in {"init", "open", "dma", "run", "clk", "start"} \/ (pc = "poll" /\ dev = "busy") => ~bad
  /\ Finished("ok") => ~bad

(* The inductive invariant.                                                 *)
IndInv == /\ TypeOK
          /\ RingsInOneLine
          /\ OneJob
          /\ Instantiated
          /\ NothingAsked
          /\ Split
          /\ Produced
          /\ FailureKnown
          /\ Filled
          /\ ClockKept

----------------------------------------------------------------------------
(* The rings.                                                              *)

(* Sixteen bytes of alignment are enough for every cache line: the words    *)
(* that prepare_dma is not told of lie in the line it cleans (init_caam_env, *)
(* caam_open).                                                              *)
LEMMA RingsFitOneLine ==
  ASSUME NEW a \in Nat, a % 4 = 0, NEW w \in a .. a + 2
  PROVE  Line(w) = Line(a)
<1>1. CASE CacheLine = 4
  BY <1>1 DEF Line
<1>2. CASE CacheLine = 8
  BY <1>2 DEF Line
<1>3. CASE CacheLine = 16
  BY <1>3 DEF Line
<1> QED
  BY <1>1, <1>2, <1>3, CaamAssumption

(* The one line that caam_open cleans holds the rings entirely: no word of  *)
(* them is left in the cache.                                               *)
LEMMA NothingDirty ==
  ASSUME IndInv
  PROVE  prepare_rings = {}
<1>1. g_rings \in Nat /\ g_rings % 4 = 0
  BY CaamAssumption DEF IndInv, TypeOK, RingsInOneLine
<1>2. \A w \in g_rings .. g_rings + 2 : Line(w) = Line(g_rings)
  BY <1>1, RingsFitOneLine
<1> QED
  BY <1>2 DEF prepare_rings

(* The low 16 bits of a size are at most the size, and the size itself if    *)
(* they are enough for it.                                                  *)
LEMMA LowBits ==
  ASSUME NEW n \in Nat
  PROVE  n % LenMod \in 0 .. n /\ (n < LenMod => n % LenMod = n)
<1>0. LenMod \in Nat \ {0}
  BY CaamAssumption
<1>1. CASE n < LenMod
  <2>1. n % LenMod = n
    BY <1>0, <1>1
  <2> QED
    BY <2>1
<1>2. CASE n >= LenMod
  <2>1. n % LenMod \in 0 .. LenMod - 1
    BY <1>0
  <2> QED
    BY <1>0, <1>2, <2>1
<1> QED
  BY <1>0, <1>1, <1>2

(* caam_clk_get leaves a value in every gate.                               *)
LEMMA ClockType ==
  ASSUME IndInv
  PROVE  caam_clk_get \in [Gate -> 0 .. 3]
<1>1. ccgr \in [Gate -> 0 .. 3]
  BY DEF IndInv, TypeOK
<1>2. CASE MACH = "IMX6"
  <2>1. /\ 3 \in 0 .. 3
        /\ (IF ccgr[0] \in {0, 2} THEN ccgr[0] + 1 ELSE ccgr[0]) \in 0 .. 3
    BY <1>1 DEF Gate
  <2> QED
    BY <1>1, <1>2, <2>1 DEF caam_clk_get, Gate
<1>3. CASE MACH # "IMX6"
  BY <1>3 DEF caam_clk_get
<1> QED
  BY <1>2, <1>3

(* On i.MX7 the clocks run after caam_clk_get.                              *)
LEMMA ClockGot ==
  ASSUME MACH = "IMX7", ccgr' = caam_clk_get
  PROVE  ClockRuns'
BY DEF ClockRuns, CaamGate, caam_clk_get, Gate

----------------------------------------------------------------------------
(* The inductive invariant holds initially and is preserved by each step.   *)

(* IndInv holds before init_caam_env.                                       *)
LEMMA InitInd == Init => IndInv
<1> SUFFICES ASSUME Init PROVE IndInv
  OBVIOUS
<1> USE CaamAssumption DEF Init
<1>1. TypeOK
  <2>1. ring \in [job : Nat, status : {"ok", "err"}]
    OBVIOUS
  <2>2. ccgr \in [Gate -> 0 .. 3]
    OBVIOUS
  <2>3. bad \in BOOLEAN /\ gated \in BOOLEAN
    OBVIOUS
  <2> QED
    BY <2>1, <2>2, <2>3 DEF TypeOK, PC
<1>2. RingsInOneLine /\ OneJob /\ Instantiated /\ NothingAsked /\ FailureKnown
  BY DEF RingsInOneLine, OneJob, Instantiated, NothingAsked, FailureKnown, Finished, InCall, Running
<1>3. Split /\ Produced /\ Filled /\ ClockKept
  BY DEF Split, Produced, Filled, SuccessMeansFilled, Finished, InCall, Running, ClockKept
<1> QED
  BY <1>1, <1>2, <1>3 DEF IndInv

(* init_caam_env: the rings are allocated, or main returns.                 *)
LEMMA InitEnvStep ==
  ASSUME IndInv, init_caam_env
  PROVE  IndInv'
<1> USE DEF init_caam_env, Die, callVars, devVars, ringVars, Running, InCall
<1>1. TypeOK'
  BY CaamAssumption DEF IndInv, TypeOK, RingsInOneLine, PC
<1>2. RingsInOneLine'
  BY DEF IndInv, RingsInOneLine, rings_align
<1>3. OneJob' /\ Instantiated' /\ NothingAsked' /\ FailureKnown'
  BY DEF IndInv, OneJob, Instantiated, NothingAsked, FailureKnown, Finished
<1>4. Split' /\ Produced' /\ Filled' /\ ClockKept'
  BY DEF IndInv, Instantiated, Split, Produced, Filled, SuccessMeansFilled, Finished, ClockKept
<1> QED
  BY <1>1, <1>2, <1>3, <1>4 DEF IndInv

(* caam_open: the generator is found instantiated, or a job is to do it.    *)
LEMMA OpenStep ==
  ASSUME IndInv, caam_open
  PROVE  IndInv'
<1> USE DEF caam_open, devVars, Running, InCall
<1>0. dirty' = {}
  BY NothingDirty
<1>1. TypeOK'
  BY <1>0, ClockType DEF IndInv, TypeOK, PC
<1>2. RingsInOneLine' /\ OneJob' /\ FailureKnown'
  BY <1>0 DEF IndInv, RingsInOneLine, OneJob, FailureKnown, Finished
<1>3. Instantiated' /\ NothingAsked'
  BY DEF IndInv, Instantiated, NothingAsked
<1>4. Split' /\ Produced' /\ Filled' /\ ClockKept'
  BY DEF IndInv, Instantiated, NothingAsked, Split, Produced, Filled, SuccessMeansFilled, Finished, ClockKept
<1> QED
  BY <1>1, <1>2, <1>3, <1>4 DEF IndInv

(* A call begins with nothing produced.                                     *)
LEMMA BeginStep ==
  ASSUME IndInv, NEW c \in Call, NEW n \in 0 .. MaxLen, CallBegin(c, n)
  PROVE  IndInv'
<1> USE DEF CallBegin, ringVars, Running, InCall
<1>0. /\ c.name \in {d.name : d \in Call} /\ c.bufs \in 0 .. 3
      /\ c.name \notin {"none", "rng_inst"}
      /\ c.name = "hwrng" <=> c = caam_hwrng
  BY DEF Call, caam_decap_blob, caam_gen_blob, caam_aes_op, caam_hash, caam_gen_kdfv1_root_key, caam_hwrng
<1>00. /\ pc = "idle"
       /\ \/ c = caam_hwrng /\ n = 0 /\ ret' = "SUCCESS" /\ pc' = "idle"
          \/ ret' = "none" /\ pc' \in {"dma", "dead"}
  OBVIOUS
<1>1. TypeOK'
  <2>1. /\ op' \in {d.name : d \in Call} \cup {"none", "rng_inst"}
        /\ bufs' \in 0 .. 3
        /\ calls' \in 0 .. MaxCalls
    BY <1>0, CaamAssumption DEF IndInv, TypeOK
  <2>2. bad' \in BOOLEAN
    OBVIOUS
  <2>3. mem' \subseteq 1 .. MaxLen /\ seen' \subseteq 1 .. MaxLen
    OBVIOUS
  <2>4. pc' \in PC /\ ret' \in {"none", "SUCCESS", "FAILURE"}
    BY <1>00 DEF PC
  <2> QED
    BY <2>1, <2>2, <2>3, <2>4, CaamAssumption DEF IndInv, TypeOK
<1>2. RingsInOneLine' /\ OneJob' /\ FailureKnown'
  BY <1>00 DEF IndInv, RingsInOneLine, OneJob, FailureKnown, Finished
<1>3. Instantiated' /\ NothingAsked'
  BY <1>0, <1>00 DEF IndInv, Instantiated, NothingAsked
<1>4. Split'
  BY <1>0, <1>00, CaamAssumption DEF Split
<1>5. Produced'
  BY <1>00 DEF IndInv, Produced, Finished
<1>6. Filled' /\ ClockKept'
  BY <1>0, <1>00 DEF Filled, SuccessMeansFilled, Promised, ClockKept
<1> QED
  BY <1>1, <1>2, <1>3, <1>4, <1>5, <1>6 DEF IndInv

(* One buffer is prepared, or the call fails.                               *)
LEMMA DmaStep ==
  ASSUME IndInv, prepare_dma
  PROVE  IndInv'
<1> USE DEF prepare_dma, Return, ringVars, devVars, Running, InCall
<1>1. TypeOK'
  BY CaamAssumption DEF IndInv, TypeOK, PC
<1>2. RingsInOneLine' /\ OneJob' /\ FailureKnown'
  BY DEF IndInv, RingsInOneLine, OneJob, FailureKnown, Finished
<1>3. Instantiated' /\ NothingAsked'
  BY DEF IndInv, Instantiated, NothingAsked
<1>4. Split'
  BY DEF IndInv, TypeOK, Split
<1>5. Produced'
  BY DEF IndInv, Produced, Finished
<1>6. Filled' /\ ClockKept'
  BY DEF IndInv, Filled, SuccessMeansFilled, ClockKept
<1> QED
  BY <1>1, <1>2, <1>3, <1>4, <1>5, <1>6 DEF IndInv

(* The rings are written and handed to the device, or an assertion fails.   *)
LEMMA PrepareStep ==
  ASSUME IndInv, run_job_prepare
  PROVE  IndInv'
<1> USE DEF run_job_prepare, Die, callVars, ringVars, devVars, Running, InCall
<1>0. dirty' = {}
  BY NothingDirty DEF IndInv, RingsInOneLine
<1>1. TypeOK'
  <2>1. ring' \in [job : Nat, status : {"ok", "err"}]
    BY DEF IndInv, TypeOK
  <2>2. gated' \in BOOLEAN
    BY DEF IndInv, TypeOK
  <2> QED
    BY <1>0, <2>1, <2>2 DEF IndInv, TypeOK, PC
<1>2. RingsInOneLine' /\ OneJob' /\ FailureKnown'
  BY <1>0 DEF IndInv, RingsInOneLine, OneJob, FailureKnown, Finished
<1>3. Instantiated' /\ NothingAsked'
  BY DEF IndInv, Instantiated, NothingAsked
<1>4. Split'
  BY DEF IndInv, Split
<1>5. Produced'
  BY DEF IndInv, Produced, Finished
<1>6. Filled' /\ ClockKept'
  BY DEF IndInv, Filled, SuccessMeansFilled, ClockKept
<1> QED
  BY <1>1, <1>2, <1>3, <1>4, <1>5, <1>6 DEF IndInv

(* The clocks are switched on.                                              *)
LEMMA ClkStep ==
  ASSUME IndInv, run_job_clk
  PROVE  IndInv'
<1> USE DEF run_job_clk, callVars, ringVars, devVars, Running, InCall
<1>1. TypeOK'
  BY ClockType DEF IndInv, TypeOK, PC
<1>2. RingsInOneLine' /\ OneJob' /\ FailureKnown'
  BY DEF IndInv, RingsInOneLine, OneJob, FailureKnown, Finished
<1>3. Instantiated' /\ NothingAsked'
  BY DEF IndInv, Instantiated, NothingAsked
<1>4. Split' /\ Produced' /\ Filled'
  BY DEF IndInv, Split, Produced, Finished, Filled, SuccessMeansFilled
<1>5. ClockKept'
  BY ClockGot DEF ClockKept
<1> QED
  BY <1>1, <1>2, <1>3, <1>4, <1>5 DEF IndInv

(* A job is started on empty rings.                                         *)
LEMMA StartStep ==
  ASSUME IndInv, run_job_start
  PROVE  IndInv'
<1> USE DEF run_job_start, callVars, ringVars, Running, InCall
<1>1. TypeOK'
  BY DEF IndInv, TypeOK, PC
<1>2. RingsInOneLine' /\ OneJob' /\ FailureKnown'
  BY DEF IndInv, TypeOK, RingsInOneLine, OneJob, FailureKnown, Finished
<1>3. Instantiated' /\ NothingAsked'
  BY DEF IndInv, Instantiated, NothingAsked
<1>4. Split' /\ Produced' /\ Filled'
  BY DEF IndInv, Split, Produced, Finished, Filled, SuccessMeansFilled
<1>5. ClockKept'
  BY DEF IndInv, ClockKept, ClockRuns
<1> QED
  BY <1>1, <1>2, <1>3, <1>4, <1>5 DEF IndInv

(* The status is taken and the job removed from the output ring: the entry   *)
(* is the result of a job, so that the application does not abort.           *)
LEMMA ReapStep ==
  ASSUME IndInv, run_job_reap
  PROVE  IndInv'
<1> USE DEF callVars, ringVars, devVars, Running, InCall
<1>0. /\ pc = "poll" /\ orsf = 1 /\ dev = "idle"
      /\ ring.status \in {"ok", "err"}
  BY DEF run_job_reap, IndInv, OneJob, TypeOK
<1>1. /\ \/ pc' = "check" /\ status' = ring.status /\ orsf' = 0
         \/ pc' = "dead" /\ status' = status /\ orsf' = orsf /\ ring.job = 0
      /\ UNCHANGED <<callVars, ringVars, ring, dev, mem, bad, seq, ccgr, gated, rdsta>>
  BY <1>0 DEF run_job_reap, Die
<1>2. CASE pc' = "check"
  <2>1. TypeOK'
    BY <1>0, <1>1, <1>2 DEF IndInv, TypeOK, PC
  <2>2. RingsInOneLine' /\ OneJob' /\ FailureKnown'
    BY <1>0, <1>1, <1>2 DEF IndInv, RingsInOneLine, OneJob, FailureKnown, Finished
  <2>3. Instantiated' /\ NothingAsked' /\ Split'
    BY <1>0, <1>1, <1>2 DEF IndInv, Instantiated, NothingAsked, Split
  <2>4. Produced'
    BY <1>0, <1>1, <1>2 DEF IndInv, Produced, Finished, JobOutput
  <2>5. Filled' /\ ClockKept'
    BY <1>2 DEF Filled, SuccessMeansFilled, ClockKept
  <2> QED
    BY <2>1, <2>2, <2>3, <2>4, <2>5 DEF IndInv
<1>3. CASE pc' = "dead"
  <2>1. ring.job = seq /\ ring.job = 0
    BY <1>0, <1>1, <1>3 DEF IndInv, OneJob
  <2>2. seq # 0
    BY <1>0 DEF IndInv, OneJob
  <2> QED
    BY <2>1, <2>2
<1> QED
  BY <1>1, <1>2, <1>3

(* The caller finds that the job failed.                                    *)
LEMMA FailedStep ==
  ASSUME IndInv, job_failed
  PROVE  IndInv'
<1> USE DEF job_failed, Return, ringVars, devVars, Running, InCall
<1>1. TypeOK'
  BY DEF IndInv, TypeOK, PC
<1>2. RingsInOneLine' /\ OneJob' /\ FailureKnown'
  BY DEF IndInv, RingsInOneLine, OneJob, FailureKnown, Finished
<1>3. Instantiated' /\ NothingAsked'
  BY DEF IndInv, Instantiated, NothingAsked
<1>4. Split' /\ Produced' /\ Filled' /\ ClockKept'
  BY DEF IndInv, Split, Produced, Filled, SuccessMeansFilled, Finished, ClockKept
<1> QED
  BY <1>1, <1>2, <1>3, <1>4 DEF IndInv

(* The caller takes the output of its job: the call is done, or caam_hwrng  *)
(* goes on with the next part.                                              *)
LEMMA DoneStep ==
  ASSUME IndInv, job_done
  PROVE  IndInv'
<1> USE DEF job_done, Return, ringVars, devVars, Running, InCall
<1>0. /\ pc = "check" /\ pc' \in {"idle", "dma"}
      /\ len \in Nat /\ out \in Nat /\ seg \in Nat /\ total \in 0 .. MaxLen
      /\ out + len = total /\ seg <= len
      /\ op # "hwrng" => out = 0 /\ seg = len
      /\ ~bad
      /\ JobOutput \subseteq mem
      /\ MaxLen < LenMod => seen = 1 .. out /\ seen \subseteq mem
      /\ MaxLen \in Nat /\ HASH_LEN \in Nat
  BY CaamAssumption DEF IndInv, TypeOK, Split, Produced, FailureKnown, Finished
<1>1. TypeOK'
  <2>1. seen' \subseteq 1 .. MaxLen
    BY DEF finish_dma, IndInv, TypeOK
  <2> QED
    BY <1>0, <2>1, CaamAssumption DEF IndInv, TypeOK, PC
<1>2. RingsInOneLine' /\ OneJob' /\ FailureKnown' /\ Instantiated'
  BY <1>0 DEF IndInv, RingsInOneLine, OneJob, FailureKnown, Finished, Instantiated
<1>3. NothingAsked'
  BY DEF IndInv, Instantiated, NothingAsked
<1>4. Split' /\ ClockKept'
  BY <1>0 DEF IndInv, Split, ClockKept
<1>5. MaxLen < LenMod /\ op # "hash" => seen' = 1 .. out' /\ seen' \subseteq mem
  <2> SUFFICES ASSUME MaxLen < LenMod, op # "hash" PROVE seen' = 1 .. out' /\ seen' \subseteq mem
    OBVIOUS
  <2>1. seg % LenMod = seg
    BY <1>0, LowBits, CaamAssumption
  <2>2. out + 1 .. out + seg \subseteq mem
    BY <1>0, <2>1 DEF JobOutput
  <2> QED
    BY <1>0, <2>2 DEF finish_dma
<1>6. MaxLen < LenMod /\ op = "hash" => seen' = 1 .. Promised
  <2> SUFFICES ASSUME MaxLen < LenMod, op = "hash" PROVE seen' = 1 .. Promised
    OBVIOUS
  <2>1. mem = 1 .. HASH_LEN
    BY <1>0 DEF IndInv, Produced, JobOutput
  <2> QED
    BY <1>0, <2>1 DEF finish_dma, Promised
<1>7. op = "hash" => pc' = "idle"
  BY <1>0
<1>8. Produced'
  BY <1>0, <1>5, <1>7 DEF IndInv, Produced, Finished
<1>9. Filled'
  <2> SUFFICES ASSUME MaxLen < LenMod, pc' = "idle" PROVE ~bad' /\ seen' = 1 .. Promised'
    BY DEF Filled, SuccessMeansFilled
  <2>1. len = seg /\ out' = total
    BY <1>0
  <2>2. Promised' = Promised
    BY DEF Promised
  <2>3. CASE op = "hash"
    BY <1>0, <1>6, <2>2, <2>3
  <2>4. CASE op # "hash"
    BY <1>0, <1>5, <2>1, <2>4 DEF Promised
  <2> QED
    BY <2>3, <2>4
<1> QED
  BY <1>1, <1>2, <1>3, <1>4, <1>8, <1>9 DEF IndInv

(* caam_open goes on only if the generator is instantiated.                 *)
LEMMA InstStep ==
  ASSUME IndInv, rng_inst_done
  PROVE  IndInv'
<1> USE DEF rng_inst_done, ringVars, devVars, Running, InCall
<1>1. TypeOK'
  BY DEF IndInv, TypeOK, PC
<1>2. RingsInOneLine' /\ OneJob' /\ FailureKnown'
  BY DEF IndInv, RingsInOneLine, OneJob, FailureKnown, Finished
<1>3. Instantiated' /\ NothingAsked'
  BY DEF IndInv, Instantiated, NothingAsked
<1>4. Split' /\ Produced' /\ Filled' /\ ClockKept'
  BY DEF IndInv, NothingAsked, Split, Produced, Filled, SuccessMeansFilled, Finished, ClockKept
<1> QED
  BY <1>1, <1>2, <1>3, <1>4 DEF IndInv

(* The device ends its job while the driver polls.                          *)
LEMMA DeviceStep ==
  ASSUME IndInv, DeviceCompletes
  PROVE  IndInv'
<1> USE DEF DeviceCompletes, callVars, ringVars, Running, InCall
<1>0. /\ pc = "poll" /\ orsf = 0 /\ ~bad
      /\ len \in Nat /\ out \in Nat /\ seg \in Nat /\ total \in 0 .. MaxLen
      /\ out + len = total /\ seg <= len
      /\ MaxLen < LenMod => seen = 1 .. out /\ seen \subseteq mem
      /\ MaxLen \in Nat /\ HASH_LEN \in 1 .. MaxLen
  BY CaamAssumption DEF IndInv, TypeOK, OneJob, Split, Produced, FailureKnown
<1>1. JobOutput \subseteq 1 .. MaxLen /\ (seg = 0 /\ op # "hash" => JobOutput = {})
  <2>1. seg % LenMod \in 0 .. seg
    BY <1>0, LowBits
  <2> QED
    BY <1>0, <2>1 DEF JobOutput
<1>2. /\ mem \subseteq mem' /\ mem' \subseteq mem \cup JobOutput
      /\ ring'.status = "ok" => mem' = mem \cup JobOutput /\ bad' = bad
      /\ ring' \in [job : Nat, status : {"ok", "err"}] /\ ring'.job = seq
  BY DEF IndInv, TypeOK
<1>3. TypeOK'
  <2>1. orsf' \in 0 .. 1 /\ mem' \subseteq 1 .. MaxLen
    BY <1>0, <1>1, <1>2 DEF IndInv, TypeOK
  <2>2. rdsta' \subseteq {"IF0", "SKVN"} /\ bad' \in BOOLEAN
    BY DEF IndInv, TypeOK
  <2> QED
    BY <1>2, <2>1, <2>2 DEF IndInv, TypeOK
<1>4. RingsInOneLine' /\ OneJob' /\ FailureKnown'
  BY <1>0, <1>2 DEF IndInv, RingsInOneLine, OneJob, FailureKnown, Finished
<1>5. Instantiated'
  BY DEF IndInv, Instantiated
<1>6. NothingAsked'
  BY <1>0, <1>1, <1>2 DEF IndInv, NothingAsked
<1>7. Split'
  BY DEF IndInv, Split
<1>8. Produced'
  BY <1>0, <1>2 DEF IndInv, Produced, Finished, JobOutput
<1>9. Filled' /\ ClockKept'
  BY <1>0 DEF Filled, SuccessMeansFilled, IndInv, ClockKept, ClockRuns
<1> QED
  BY <1>3, <1>4, <1>5, <1>6, <1>7, <1>8, <1>9 DEF IndInv

(* The normal world only touches the clocks.                                *)
LEMMA NormalWorldStep ==
  ASSUME IndInv, NormalWorldGates \/ NormalWorldUngates
  PROVE  IndInv'
<1>1. ccgr' \in [Gate -> 0 .. 3]
  BY DEF IndInv, TypeOK, NormalWorldGates, NormalWorldUngates
<1>2. UNCHANGED <<pc, callVars, status, ringVars, devVars, rdsta, seq>>
  BY DEF NormalWorldGates, NormalWorldUngates
<1>3. gated' \in BOOLEAN
  BY DEF IndInv, TypeOK, NormalWorldGates, NormalWorldUngates
<1>4. ClockKept'
  <2>1. CASE NormalWorldGates
    <3>1. PICK off \in SUBSET CaamGate :
            /\ ccgr' = [g \in Gate |-> IF g \in off THEN 0 ELSE ccgr[g]]
            /\ gated' = (gated \/ (off # {} /\ pc \in {"start", "poll"}))
      BY <2>1 DEF NormalWorldGates
    <3>2. pc' \in {"start", "poll"} /\ ~gated' => off = {} /\ ~gated
      BY <1>2, <3>1
    <3>3. off = {} => \A g \in CaamGate : ccgr'[g] = ccgr[g]
      BY <3>1 DEF CaamGate, Gate
    <3> QED
      BY <1>2, <3>2, <3>3 DEF IndInv, ClockKept, ClockRuns
  <2>2. CASE NormalWorldUngates
    BY <2>2 DEF NormalWorldUngates, ClockKept, ClockRuns, CaamGate, Gate
  <2> QED
    BY <2>1, <2>2
<1> QED
  BY <1>1, <1>2, <1>3, <1>4 DEF callVars, ringVars, devVars, IndInv, TypeOK, RingsInOneLine, OneJob,
       Instantiated, NothingAsked, Split, Produced, FailureKnown, Filled, SuccessMeansFilled, Promised,
       Finished, InCall, JobOutput

(* Every step of the driver, of the caches and of the job ring keeps        *)
(* IndInv.                                                                  *)
LEMMA StepInd == IndInv /\ [Next]_vars => IndInv'
<1> SUFFICES ASSUME IndInv, [Next]_vars PROVE IndInv'
  OBVIOUS
<1>1. CASE Driver
  BY <1>1, InitEnvStep, OpenStep, DmaStep, PrepareStep, ClkStep, StartStep, ReapStep, FailedStep, DoneStep, InstStep DEF Driver
<1>2. CASE UNCHANGED vars
  BY <1>2 DEF vars, callVars, ringVars, devVars, IndInv, TypeOK, RingsInOneLine, OneJob, Instantiated,
       NothingAsked, Split, Produced, FailureKnown, Filled, SuccessMeansFilled, Promised, Finished, InCall,
       JobOutput, ClockKept, ClockRuns
<1> QED
  BY <1>1, <1>2, BeginStep, DeviceStep, NormalWorldStep DEF Next

(* IndInv holds in every reachable state.                                   *)
THEOREM Inductive == Spec => []IndInv
BY InitInd, StepInd, PTL DEF Spec

----------------------------------------------------------------------------
(* The properties.                                                         *)

(* Every variable of the driver stays in its range: the result count of the *)
(* output ring never exceeds the one entry of the ring, and no job writes   *)
(* past the end of the caller's buffer.                                     *)
THEOREM TypeCorrect == Spec => []TypeOK
<1>1. IndInv => TypeOK
  BY DEF IndInv
<1> QED
  BY <1>1, Inductive, PTL

(* The assertion of run_job on out[0] never fails, and the status it takes   *)
(* is that of the job it posted, never one left over from an earlier job.    *)
THEOREM ResultIsOwn == Spec => []OwnResult
<1>1. IndInv => OwnResult
  BY DEF IndInv, OneJob, OwnResult
<1> QED
  BY <1>1, Inductive, PTL

(* The driver touches nothing while the device works.                       *)
THEOREM DeviceIsUndisturbed == Spec => []DeviceUndisturbed
<1>1. IndInv => DeviceUndisturbed
  BY DEF IndInv, OneJob, DeviceUndisturbed
<1> QED
  BY <1>1, Inductive, PTL

(* If no buffer is larger than a descriptor can say, a call that returns     *)
(* CAAM_SUCCESS has filled the whole of it in this call, in however many     *)
(* parts prepare_dma split it.                                              *)
THEOREM SuccessIsFilled ==
  ASSUME MaxLen < LenMod
  PROVE  Spec => []SuccessMeansFilled
<1>1. IndInv => SuccessMeansFilled
  BY DEF IndInv, Filled
<1> QED
  BY <1>1, Inductive, PTL

(* Random data is drawn only from an instantiated generator.                *)
THEOREM GeneratorInstantiated == Spec => []RngInstantiated
<1>1. IndInv => RngInstantiated
  BY DEF IndInv, OneJob, Instantiated, RngInstantiated, Running
<1> QED
  BY <1>1, Inductive, PTL

(* The rings are coherent for every size of a cache line, although          *)
(* prepare_dma is told of the size of a pointer only.                       *)
THEOREM RingIsCoherent == Spec => []RingCoherent
<1>1. IndInv => RingCoherent
  BY DEF IndInv, RingsInOneLine, RingCoherent
<1> QED
  BY <1>1, Inductive, PTL

(* On i.MX7 the clock of CAAM runs under every job unless the normal world    *)
(* closed the gate after run_job opened it.  On i.MX6 it does not:           *)
(* caam_clk_get leaves one of the three gates as it was.                     *)
THEOREM ClockIsOn ==
  ASSUME MACH = "IMX7"
  PROVE  Spec => []ClockOn
<1>1. IndInv => ClockOn
  BY DEF IndInv, OneJob, ClockKept, ClockOn
<1> QED
  BY <1>1, Inductive, PTL
=============================================================================
