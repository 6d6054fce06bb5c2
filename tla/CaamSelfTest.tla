---------------------------- MODULE CaamSelfTest ----------------------------
(***************************************************************************)
(* The self tests of the CAAM driver (caam_test, caam.c).  A test is the    *)
(* sequence of its statements; the driver's calls are those of CaamDriver,  *)
(* each taken as one step that may fail and whose result the tests ignore.  *)
(*                                                                          *)
(* A buffer has Cells cells.  What the device computes is symbolic: a cell  *)
(* holds a tuple that names the function and its arguments.  The content of *)
(* a buffer that was declared and never written is indeterminate.           *)
(***************************************************************************)
EXTENDS Integers, Sequences

CONSTANTS Fails,  \* may a call of the driver fail?
          Cells   \* the size of a buffer

ASSUME SelfTestAssumption == Fails \in BOOLEAN /\ Cells \in Nat \ {0}

Cell == 1 .. Cells

Buf == {"out1", "out2", "keymd", "plain", "plain_bak", "blob", "key", "buf1", "buf2", "buf3",
        "in", "hash1", "hash2"}

----------------------------------------------------------------------------
(* The statements of a test.                                               *)

Declare(bufs) == [do |-> "declare", bufs |-> bufs]
Set(b, v) == [do |-> "set", buf |-> b, val |-> v]
Job(f, ins, b) == [do |-> "job", f |-> f, ins |-> ins, buf |-> b]

\* Passes if the buffers are the same, or if they are different; "outs" are
\* the ones the device is meant to have filled.
Compare(a, b, want, outs) ==
  [do |-> "compare", a |-> a, b |-> b, want |-> want, outs |-> outs]

caam_hwrng_test ==
  << Declare({"out1", "out2"}),
     Job("hwrng", <<>>, "out1"),
     Job("hwrng", <<>>, "out2"),
     Compare("out1", "out2", "different", {"out1", "out2"}) >>

caam_blob_test ==
  << Declare({"keymd", "plain", "plain_bak", "blob"}),
     Job("hwrng", <<>>, "keymd"),
     Set("plain", <<"0+i">>), Set("plain_bak", <<"0+i">>),
     Job("gen_blob", <<"keymd", "plain">>, "blob"),
     Set("plain", <<"0xff">>),
     Job("decap_blob", <<"keymd", "blob">>, "plain"),
     Compare("plain", "plain_bak", "same", {"plain"}) >>

caam_kdfv1_root_key_test ==
  << Declare({"out1", "out2"}),
     Job("root_key", <<>>, "out1"),
     Job("root_key", <<>>, "out2"),
     Compare("out1", "out2", "same", {"out1", "out2"}) >>

\* Mutant: the last call encrypts again.
caam_aes_test_enc ==
  << Declare({"key", "buf1", "buf2", "buf3"}),
     Job("hwrng", <<>>, "key"),
     Set("buf1", <<"0+i">>), Set("buf2", <<"0x55">>), Set("buf3", <<"0xaa">>),
     Job("aes_enc", <<"key", "buf1">>, "buf2"),
     Job("aes_enc", <<"key", "buf1">>, "buf3"),
     Compare("buf2", "buf3", "same", {"buf2", "buf3"}),
     Job("aes_enc", <<"key", "buf3">>, "buf2"),
     Compare("buf1", "buf2", "same", {"buf2"}) >>

caam_aes_test ==
  << Declare({"key", "buf1", "buf2", "buf3"}),
     Job("hwrng", <<>>, "key"),
     Set("buf1", <<"0+i">>), Set("buf2", <<"0x55">>), Set("buf3", <<"0xaa">>),
     Job("aes_enc", <<"key", "buf1">>, "buf2"),
     Job("aes_enc", <<"key", "buf1">>, "buf3"),
     Compare("buf2", "buf3", "same", {"buf2", "buf3"}),
     Job("aes_dec", <<"key", "buf3">>, "buf2"),
     Compare("buf1", "buf2", "same", {"buf2"}) >>

caam_hash_test ==
  << Declare({"in", "hash1", "hash2"}),
     Set("in", <<"1+i">>), Set("hash1", <<"0x55">>), Set("hash2", <<"0xaa">>),
     Job("hash", <<"in">>, "hash1"),
     Job("hash", <<"in">>, "hash2"),
     Compare("hash1", "hash2", "same", {"hash1", "hash2"}) >>

caam_test ==
  caam_hwrng_test \o caam_blob_test \o caam_kdfv1_root_key_test
    \o caam_aes_test \o caam_hash_test

----------------------------------------------------------------------------
VARIABLES line,     \* the next statement of caam_test
          mem,      \* [Buf -> [Cell -> content]]
          filled,   \* ghost: cells the last call with this output wrote
          failed,   \* ghost: has a call of this test failed?
          verdict   \* ghost: what was logged last, and whether it was earned

vars == <<line, mem, filled, failed, verdict>>

Unused == [i \in Cell |-> <<"stack">>]

Init ==
  /\ line = 1
  /\ mem = [b \in Buf |-> Unused]
  /\ filled = [b \in Buf |-> {}]
  /\ failed = FALSE /\ verdict = [log |-> "none"]

Stmt == caam_test[line]
At(do) == line <= Len(caam_test) /\ Stmt.do = do /\ line' = line + 1

----------------------------------------------------------------------------
(* What the device computes, cell by cell.                                 *)

Arg(k) == mem[Stmt.ins[k]]

\* A blob of the plain text, sealed with this key modifier.
IsBlob == \A i \in Cell : Arg(2)[i] = <<"blob", Arg(1), mem["plain_bak"], i>>

Decrypted(v) == IF v[1] = "aes" /\ v[2] = Arg(1) THEN v[3] ELSE <<"aes^-1", Arg(1), v>>

\* Random data is new in every call; line tells the calls apart.
Output(i) ==
  CASE Stmt.f = "hwrng" -> <<"random", line, i>>
    [] Stmt.f = "root_key" -> <<"root_key", i>>
    [] Stmt.f = "gen_blob" -> <<"blob", Arg(1), Arg(2), i>>
    [] Stmt.f = "decap_blob" -> IF IsBlob THEN mem["plain_bak"][i] ELSE <<"garbage">>
    [] Stmt.f = "aes_enc" -> <<"aes", Arg(1), Arg(2)[i]>>
    [] Stmt.f = "aes_dec" -> Decrypted(Arg(2)[i])
    [] Stmt.f = "hash" -> <<"sha-1", Arg(1), i>>

\* A blob that does not authenticate is refused.
Refused == Stmt.f = "decap_blob" /\ ~IsBlob

----------------------------------------------------------------------------
(* The statements.                                                         *)

\* A test begins: its buffers are on the stack, zero or left from an earlier
\* call, and those of the test before are gone.
declare ==
  /\ At("declare")
  /\ \E junk \in [Stmt.bufs -> {<<"zero">>, <<"stack">>}] :
       mem' = [b \in Buf |-> IF b \in Stmt.bufs THEN [i \in Cell |-> junk[b]] ELSE Unused]
  /\ filled' = [b \in Buf |-> {}]
  /\ failed' = FALSE
  /\ UNCHANGED verdict

\* Mutant: sizeof of a pointer.
memset_short ==
  /\ At("set")
  /\ mem' = [mem EXCEPT ![Stmt.buf][1] = Stmt.val]
  /\ UNCHANGED <<filled, failed, verdict>>

memset ==
  /\ At("set")
  /\ mem' = [mem EXCEPT ![Stmt.buf] = [i \in Cell |-> Stmt.val]]
  /\ UNCHANGED <<filled, failed, verdict>>

Writes(n) ==
  /\ mem' = [mem EXCEPT ![Stmt.buf] = [i \in Cell |-> IF i <= n THEN Output(i) ELSE @[i]]]
  /\ filled' = [filled EXCEPT ![Stmt.buf] = 1 .. n]

call_done ==
  /\ At("job") /\ ~Refused
  /\ Writes(Cells)
  /\ UNCHANGED <<failed, verdict>>

\* A failed call may have written any part of its output.
call_failed ==
  /\ At("job") /\ (Fails \/ Refused)
  /\ \E n \in 0 .. Cells : Writes(n)
  /\ failed' = TRUE
  /\ UNCHANGED verdict

memcmp ==
  /\ At("compare")
  /\ verdict' =
       [log |-> IF (mem[Stmt.a] = mem[Stmt.b]) <=> (Stmt.want = "same") THEN "PASS" ELSE "FAILED",
        outs |-> Stmt.outs,
        filled |-> \A b \in Stmt.outs : filled[b] = Cell,
        failed |-> failed]
  /\ UNCHANGED <<mem, filled, failed>>

Next == declare \/ memset \/ call_done \/ call_failed \/ memcmp

Spec == Init /\ [][Next]_vars

----------------------------------------------------------------------------
(* Properties.                                                             *)

\* The buffers that are never reset: the random number and the root key test
\* compare what the stack held if a call fails.
Unset == {"out1", "out2"}

(* A test that resets its outputs logs PASS only if the device has written  *)
(* every cell of the outputs it compares, although the results of the calls *)
(* are ignored: a buffer left from before must not look right ("reset       *)
(* output").                                                                *)
PassIsEarned ==
  verdict.log = "PASS" /\ verdict.outs \cap Unset = {} => verdict.filled

(* A test logs FAILED only if a call of it failed.                          *)
NoFalseAlarm == verdict.log = "FAILED" => verdict.failed
=============================================================================
