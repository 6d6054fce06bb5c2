------------------------- MODULE CaamSelfTestProofs -------------------------
(***************************************************************************)
(* Proofs about CaamSelfTest for buffers of every size, with and without    *)
(* failing calls.                                                           *)
(*                                                                          *)
(* The invariant says what is known of the buffers before each statement.   *)
(* For the tests that reset their outputs it is known whether or not a call *)
(* failed: a cell of an output holds the result if the last call wrote it   *)
(* and what it was reset to otherwise.                                      *)
(***************************************************************************)
EXTENDS CaamSelfTest, TLAPS

\* Buffers and cells are where they should be, whatever they hold.
MemType ==
  /\ line \in 1 .. 34
  /\ mem = [b \in Buf |-> [i \in Cell |-> mem[b][i]]]
  /\ filled \in [Buf -> SUBSET Cell]
  /\ failed \in BOOLEAN

Holds(b, v) == \A i \in Cell : mem[b][i] = v

(* Without a failure the random numbers are those of the two calls.         *)
RngKnown ==
  /\ line \in 3 .. 4 /\ ~failed => \A i \in Cell : mem["out1"][i] = <<"random", 2, i>>
  /\ line = 4 /\ ~failed => \A i \in Cell : mem["out2"][i] = <<"random", 3, i>>

(* A cell of the plain text that was not decapsulated holds 0xff.           *)
BlobKnown ==
  /\ line \in 9 .. 12 => Holds("plain_bak", <<"0+i">>)
  /\ line = 11 => Holds("plain", <<"0xff">>)
  /\ line = 12 => \A i \in Cell : i \in filled["plain"] \/ mem["plain"][i] = <<"0xff">>
  /\ line = 12 /\ ~failed => \A i \in Cell : mem["plain"][i] = mem["plain_bak"][i]

(* Without a failure the root key was derived twice.                        *)
RootKnown ==
  /\ line \in 15 .. 16 /\ ~failed => \A i \in Cell : mem["out1"][i] = <<"root_key", i>>
  /\ line = 16 /\ ~failed => \A i \in Cell : mem["out2"][i] = <<"root_key", i>>

Cipher == <<"aes", mem["key"], <<"0+i">>>>

(* A cell of an output holds the cipher text if it was written, and what    *)
(* the output was reset to otherwise; decryption does not bring back        *)
(* either by itself.                                                        *)
AesKnown ==
  /\ line \in 20 .. 26 => Holds("buf1", <<"0+i">>)
  /\ line \in 21 .. 22 => Holds("buf2", <<"0x55">>)
  /\ line \in 22 .. 23 => Holds("buf3", <<"0xaa">>)
  /\ line \in 23 .. 25 =>
       /\ \A i \in Cell : mem["buf2"][i] = (IF i \in filled["buf2"] THEN Cipher ELSE <<"0x55">>)
       /\ ~failed => filled["buf2"] = Cell
  /\ line \in 24 .. 26 =>
       /\ \A i \in Cell : mem["buf3"][i] = (IF i \in filled["buf3"] THEN Cipher ELSE <<"0xaa">>)
       /\ ~failed => filled["buf3"] = Cell
  /\ line = 26 =>
       /\ \A i \in Cell : i \in filled["buf2"] \/ mem["buf2"][i] \in {Cipher, <<"0x55">>}
       /\ ~failed => Holds("buf2", <<"0+i">>)

Digest(i) == <<"sha-1", mem["in"], i>>

(* The same of the two digests.                                             *)
HashKnown ==
  /\ line \in 30 .. 31 => Holds("hash1", <<"0x55">>)
  /\ line \in 31 .. 32 => Holds("hash2", <<"0xaa">>)
  /\ line \in 32 .. 33 =>
       /\ \A i \in Cell : mem["hash1"][i] = (IF i \in filled["hash1"] THEN Digest(i) ELSE <<"0x55">>)
       /\ ~failed => filled["hash1"] = Cell
  /\ line = 33 =>
       /\ \A i \in Cell : mem["hash2"][i] = (IF i \in filled["hash2"] THEN Digest(i) ELSE <<"0xaa">>)
       /\ ~failed => filled["hash2"] = Cell

(* The inductive invariant.                                                 *)
IndInv == /\ MemType
          /\ RngKnown /\ BlobKnown /\ RootKnown /\ AesKnown /\ HashKnown
          /\ PassIsEarned /\ NoFalseAlarm

----------------------------------------------------------------------------
(* The text of caam_test.                                                  *)

Statements(t, n) == {t[k] : k \in 1 .. n}

\* t is the m statements of a, then the n statements of b.
Joins(t, a, m, b, n) ==
  /\ Len(t) = m + n
  /\ \A k \in 1 .. m : t[k] = a[k]
  /\ \A k \in m + 1 .. m + n : t[k] = b[k - m]

(* caam_test is the five tests one after the other.                         *)
LEMMA Text ==
  /\ Len(caam_test) = 33
  /\ \A k \in 1 .. 4 : caam_test[k] = caam_hwrng_test[k]
  /\ \A k \in 5 .. 12 : caam_test[k] = caam_blob_test[k - 4]
  /\ \A k \in 13 .. 16 : caam_test[k] = caam_kdfv1_root_key_test[k - 12]
  /\ \A k \in 17 .. 26 : caam_test[k] = caam_aes_test[k - 16]
  /\ \A k \in 27 .. 33 : caam_test[k] = caam_hash_test[k - 26]
<1> DEFINE S == UNION {Statements(caam_hwrng_test, 4), Statements(caam_blob_test, 8),
                       Statements(caam_kdfv1_root_key_test, 4), Statements(caam_aes_test, 10),
                       Statements(caam_hash_test, 7)}
<1>1. /\ caam_hwrng_test = [k \in 1 .. 4 |-> caam_hwrng_test[k]]
      /\ caam_kdfv1_root_key_test = [k \in 1 .. 4 |-> caam_kdfv1_root_key_test[k]]
  BY DEF caam_hwrng_test, caam_kdfv1_root_key_test
<1>2. caam_blob_test = [k \in 1 .. 8 |-> caam_blob_test[k]]
  BY DEF caam_blob_test
<1>3. caam_aes_test = [k \in 1 .. 10 |-> caam_aes_test[k]]
  BY DEF caam_aes_test
<1>4. caam_hash_test = [k \in 1 .. 7 |-> caam_hash_test[k]]
  BY DEF caam_hash_test
<1>5. ASSUME NEW n \in Nat, NEW t, t = [k \in 1 .. n |-> t[k]], \A k \in 1 .. n : t[k] \in S
      PROVE  t \in Seq(S) /\ Len(t) = n
  <2> HIDE DEF S
  <2>1. t \in [1 .. n -> S]
    BY <1>5
  <2> QED
    BY <2>1
<1>6. /\ caam_hwrng_test \in Seq(S) /\ Len(caam_hwrng_test) = 4
      /\ caam_blob_test \in Seq(S) /\ Len(caam_blob_test) = 8
      /\ caam_kdfv1_root_key_test \in Seq(S) /\ Len(caam_kdfv1_root_key_test) = 4
      /\ caam_aes_test \in Seq(S) /\ Len(caam_aes_test) = 10
      /\ caam_hash_test \in Seq(S) /\ Len(caam_hash_test) = 7
  <2>1. /\ \A k \in 1 .. 4 : caam_hwrng_test[k] \in S /\ caam_kdfv1_root_key_test[k] \in S
        /\ \A k \in 1 .. 8 : caam_blob_test[k] \in S
        /\ \A k \in 1 .. 10 : caam_aes_test[k] \in S
        /\ \A k \in 1 .. 7 : caam_hash_test[k] \in S
    BY DEF Statements
  <2> HIDE DEF S
  <2> QED
    BY <1>1, <1>2, <1>3, <1>4, <1>5, <2>1
<1> HIDE DEF S
<1>7. ASSUME NEW a \in Seq(S), NEW b \in Seq(S)
      PROVE  a \o b \in Seq(S) /\ Joins(a \o b, a, Len(a), b, Len(b))
  BY DEF Joins
<1> DEFINE t2 == caam_hwrng_test \o caam_blob_test
           t3 == t2 \o caam_kdfv1_root_key_test
           t4 == t3 \o caam_aes_test
           t5 == t4 \o caam_hash_test
<1> HIDE DEF t2, t3, t4, t5
<1>8. t2 \in Seq(S) /\ Joins(t2, caam_hwrng_test, 4, caam_blob_test, 8) /\ Len(t2) = 12
  <2>1. t2 \in Seq(S) /\ Joins(t2, caam_hwrng_test, 4, caam_blob_test, 8)
    BY <1>6, <1>7 DEF t2
  <2> QED
    BY <2>1 DEF Joins
<1>9. t3 \in Seq(S) /\ Joins(t3, t2, 12, caam_kdfv1_root_key_test, 4) /\ Len(t3) = 16
  <2>1. t3 \in Seq(S) /\ Joins(t3, t2, 12, caam_kdfv1_root_key_test, 4)
    BY <1>6, <1>7, <1>8 DEF t3
  <2> QED
    BY <2>1 DEF Joins
<1>10. t4 \in Seq(S) /\ Joins(t4, t3, 16, caam_aes_test, 10) /\ Len(t4) = 26
  <2>1. t4 \in Seq(S) /\ Joins(t4, t3, 16, caam_aes_test, 10)
    BY <1>6, <1>7, <1>9 DEF t4
  <2> QED
    BY <2>1 DEF Joins
<1>11. Joins(caam_test, t4, 26, caam_hash_test, 7)
  <2>1. caam_test = t5
    BY DEF caam_test, t2, t3, t4, t5
  <2> QED
    BY <1>6, <1>7, <1>10, <2>1 DEF t5
<1> QED
  BY <1>8, <1>9, <1>10, <1>11 DEF Joins
----------------------------------------------------------------------------
(* The statements.                                                         *)

(* What a buffer is set to, every cell of it holds.                         *)
LEMMA SetStep ==
  ASSUME MemType, NEW k \in 1 .. 33, line = k, NEW b \in Buf, NEW v,
         caam_test[k] = Set(b, v), Next
  PROVE  /\ line' = k + 1 /\ UNCHANGED <<filled, failed, verdict>>
         /\ mem' = [d \in Buf |-> [i \in Cell |-> mem'[d][i]]]
         /\ \A d \in Buf \ {b} : mem'[d] = mem[d]
         /\ \A i \in Cell : mem'[b][i] = v
<1>1. Stmt = Set(b, v) /\ line <= Len(caam_test)
  BY Text DEF Stmt
<1>2. memset
  BY <1>1 DEF Next, declare, call_done, call_failed, memcmp, At, Set
<1>3. mem' = [mem EXCEPT ![b] = [i \in Cell |-> v]]
  BY <1>1, <1>2 DEF memset, Set
<1>4. line' = k + 1 /\ UNCHANGED <<filled, failed, verdict>>
  BY <1>2 DEF memset, At
<1> QED
  BY <1>3, <1>4 DEF MemType

(* A call writes a part of its output, and all of it if it succeeds.        *)
LEMMA JobStep ==
  ASSUME MemType, NEW k \in 1 .. 33, line = k, NEW f, NEW ins, NEW b \in Buf,
         caam_test[k] = Job(f, ins, b), Next
  PROVE  /\ line' = k + 1 /\ UNCHANGED verdict
         /\ Stmt = Job(f, ins, b)
         /\ mem' = [d \in Buf |-> [i \in Cell |-> mem'[d][i]]]
         /\ filled' \in [Buf -> SUBSET Cell]
         /\ \A d \in Buf \ {b} : mem'[d] = mem[d] /\ filled'[d] = filled[d]
         /\ \A i \in Cell : mem'[b][i] = (IF i \in filled'[b] THEN Output(i) ELSE mem[b][i])
         /\ ~failed' => ~failed /\ ~Refused /\ filled'[b] = Cell
<1>1. Stmt = Job(f, ins, b) /\ line <= Len(caam_test)
  BY Text DEF Stmt
<1>2. call_done \/ call_failed
  BY <1>1 DEF Next, declare, memset, memcmp, At, Job
<1>3. line' = k + 1 /\ UNCHANGED verdict
  BY <1>2 DEF call_done, call_failed, At
<1>4. PICK n \in 0 .. Cells : Writes(n) /\ (~failed' => ~failed /\ ~Refused /\ n = Cells)
  <2>1. CASE call_done
    BY <2>1, SelfTestAssumption DEF call_done
  <2>2. CASE call_failed
    BY <2>2 DEF call_failed
  <2> QED
    BY <1>2, <2>1, <2>2
<1>5. /\ mem' = [mem EXCEPT ![b] = [i \in Cell |-> IF i <= n THEN Output(i) ELSE mem[b][i]]]
      /\ filled' = [filled EXCEPT ![b] = 1 .. n]
  BY <1>1, <1>4 DEF Writes, Job, MemType
<1>6. 1 .. n \subseteq Cell /\ \A i \in Cell : i <= n <=> i \in 1 .. n
  BY SelfTestAssumption DEF Cell
<1>7. /\ filled' \in [Buf -> SUBSET Cell] /\ filled'[b] = 1 .. n
      /\ \A d \in Buf \ {b} : filled'[d] = filled[d]
  BY <1>5, <1>6 DEF MemType
<1>8. /\ mem' = [d \in Buf |-> [i \in Cell |-> mem'[d][i]]]
      /\ \A d \in Buf \ {b} : mem'[d] = mem[d]
      /\ \A i \in Cell : mem'[b][i] = (IF i <= n THEN Output(i) ELSE mem[b][i])
  BY <1>5 DEF MemType
<1>9. \A i \in Cell : mem'[b][i] = (IF i \in filled'[b] THEN Output(i) ELSE mem[b][i])
  BY <1>6, <1>7, <1>8
<1>10. ~failed' => ~failed /\ ~Refused /\ filled'[b] = Cell
  BY <1>4, <1>7 DEF Cell
<1> QED
  BY <1>1, <1>3, <1>7, <1>8, <1>9, <1>10

(* A comparison changes the verdict only.                                   *)
LEMMA CompareStep ==
  ASSUME MemType, NEW k \in 1 .. 33, line = k,
         NEW a \in Buf, NEW b \in Buf, NEW want, NEW outs \in SUBSET Buf,
         caam_test[k] = Compare(a, b, want, outs), Next
  PROVE  /\ line' = k + 1 /\ UNCHANGED <<mem, filled, failed>>
         /\ verdict'.log = "PASS" <=> ((\A i \in Cell : mem[a][i] = mem[b][i]) <=> want = "same")
         /\ verdict'.log \in {"PASS", "FAILED"}
         /\ verdict'.outs = outs
         /\ verdict'.filled <=> \A d \in outs : filled[d] = Cell
         /\ verdict'.failed = failed
<1>1. Stmt = Compare(a, b, want, outs) /\ line <= Len(caam_test)
  BY Text DEF Stmt
<1>2. memcmp
  BY <1>1 DEF Next, declare, memset, call_done, call_failed, At, Compare
<1>3. line' = k + 1 /\ UNCHANGED <<mem, filled, failed>>
  BY <1>2 DEF memcmp, At
<1>4. (mem[a] = mem[b]) <=> \A i \in Cell : mem[a][i] = mem[b][i]
  BY DEF MemType
<1>5. verdict' = [log |-> IF (mem[a] = mem[b]) <=> (want = "same") THEN "PASS" ELSE "FAILED",
                  outs |-> outs,
                  filled |-> \A d \in outs : filled[d] = Cell,
                  failed |-> failed]
  BY <1>1, <1>2 DEF memcmp, Compare
<1> QED
  BY <1>3, <1>4, <1>5

(* The buffers that a test uses are buffers.                                *)
LEMMA Bufs ==
  /\ {"out1", "out2", "keymd", "plain", "plain_bak", "blob"} \subseteq Buf
  /\ {"key", "buf1", "buf2", "buf3", "in", "hash1", "hash2"} \subseteq Buf
BY DEF Buf

(* One statement after the other, until the last.                           *)
LEMMA LineNext ==
  ASSUME MemType, Next
  PROVE  line \in 1 .. 33 /\ line' = line + 1
BY Text DEF MemType, Next, declare, memset, call_done, call_failed, memcmp, At

(* No statement changes the shape of the memory.                            *)
LEMMA TypeNext ==
  ASSUME MemType, Next
  PROVE  MemType'
<1>1. line' \in 1 .. 34
  BY LineNext
<1>2. ASSUME NEW n \in 0 .. Cells, Writes(n)
      PROVE  /\ mem' = [d \in Buf |-> [i \in Cell |-> mem'[d][i]]]
             /\ filled' \in [Buf -> SUBSET Cell]
  <2>1. 1 .. n \in SUBSET Cell
    BY SelfTestAssumption DEF Cell
  <2>2. filled' \in [Buf -> SUBSET Cell]
    BY <1>2, <2>1 DEF Writes, MemType
  <2>3. mem' = [d \in Buf |-> [i \in Cell |-> mem'[d][i]]]
    BY <1>2 DEF Writes, MemType
  <2> QED
    BY <2>2, <2>3
<1>3. CASE declare
  BY <1>1, <1>3 DEF declare, MemType, Unused
<1>4. CASE memset
  BY <1>1, <1>4 DEF memset, MemType
<1>5. CASE call_done
  BY <1>1, <1>2, <1>5, SelfTestAssumption DEF call_done, MemType
<1>6. CASE call_failed
  BY <1>1, <1>2, <1>6 DEF call_failed, MemType
<1>7. CASE memcmp
  BY <1>1, <1>7 DEF memcmp, MemType
<1> QED
  BY <1>3, <1>4, <1>5, <1>6, <1>7 DEF Next

----------------------------------------------------------------------------
(* The tests.                                                              *)

(* The two random numbers.                                                  *)
LEMMA RngNext ==
  ASSUME IndInv, Next
  PROVE  RngKnown'
<1>1. line' = line + 1 /\ line \in 1 .. 33
  BY LineNext DEF IndInv
<1>2. CASE line = 2
  <2>1. caam_test[2] = Job("hwrng", <<>>, "out1")
    BY Text DEF caam_hwrng_test
  <2>2. /\ Stmt = Job("hwrng", <<>>, "out1")
        /\ \A i \in Cell : mem'["out1"][i] = (IF i \in filled'["out1"] THEN Output(i) ELSE mem["out1"][i])
        /\ ~failed' => filled'["out1"] = Cell
    BY <1>2, <2>1, JobStep, Bufs DEF IndInv
  <2>3. \A i \in Cell : Output(i) = <<"random", 2, i>>
    BY <1>2, <2>2 DEF Output, Job
  <2> QED
    BY <1>1, <1>2, <2>2, <2>3 DEF RngKnown
<1>3. CASE line = 3
  <2>1. caam_test[3] = Job("hwrng", <<>>, "out2")
    BY Text DEF caam_hwrng_test
  <2>2. /\ Stmt = Job("hwrng", <<>>, "out2")
        /\ \A i \in Cell : mem'["out2"][i] = (IF i \in filled'["out2"] THEN Output(i) ELSE mem["out2"][i])
        /\ ~failed' => ~failed /\ filled'["out2"] = Cell
        /\ mem'["out1"] = mem["out1"]
    BY <1>3, <2>1, JobStep, Bufs DEF IndInv
  <2>3. \A i \in Cell : Output(i) = <<"random", 3, i>>
    BY <1>3, <2>2 DEF Output, Job
  <2> QED
    BY <1>1, <1>3, <2>2, <2>3 DEF RngKnown, IndInv
<1>4. CASE line \notin {2, 3}
  BY <1>1, <1>4 DEF RngKnown
<1> QED
  BY <1>2, <1>3, <1>4

(* The two root keys.                                                       *)
LEMMA RootNext ==
  ASSUME IndInv, Next
  PROVE  RootKnown'
<1>1. line' = line + 1 /\ line \in 1 .. 33
  BY LineNext DEF IndInv
<1>2. CASE line = 14
  <2>1. caam_test[14] = Job("root_key", <<>>, "out1")
    BY Text DEF caam_kdfv1_root_key_test
  <2>2. /\ Stmt = Job("root_key", <<>>, "out1")
        /\ \A i \in Cell : mem'["out1"][i] = (IF i \in filled'["out1"] THEN Output(i) ELSE mem["out1"][i])
        /\ ~failed' => filled'["out1"] = Cell
    BY <1>2, <2>1, JobStep, Bufs DEF IndInv
  <2>3. \A i \in Cell : Output(i) = <<"root_key", i>>
    BY <2>2 DEF Output, Job
  <2> QED
    BY <1>1, <1>2, <2>2, <2>3 DEF RootKnown
<1>3. CASE line = 15
  <2>1. caam_test[15] = Job("root_key", <<>>, "out2")
    BY Text DEF caam_kdfv1_root_key_test
  <2>2. /\ Stmt = Job("root_key", <<>>, "out2")
        /\ \A i \in Cell : mem'["out2"][i] = (IF i \in filled'["out2"] THEN Output(i) ELSE mem["out2"][i])
        /\ ~failed' => ~failed /\ filled'["out2"] = Cell
        /\ mem'["out1"] = mem["out1"]
    BY <1>3, <2>1, JobStep, Bufs DEF IndInv
  <2>3. \A i \in Cell : Output(i) = <<"root_key", i>>
    BY <2>2 DEF Output, Job
  <2> QED
    BY <1>1, <1>3, <2>2, <2>3 DEF RootKnown, IndInv
<1>4. CASE line \notin {14, 15}
  BY <1>1, <1>4 DEF RootKnown
<1> QED
  BY <1>2, <1>3, <1>4

(* The plain text: it was reset before it was decapsulated.                 *)
LEMMA BlobNext ==
  ASSUME IndInv, Next
  PROVE  BlobKnown'
<1>1. line' = line + 1 /\ line \in 1 .. 33
  BY LineNext DEF IndInv
<1>2. CASE line = 8
  <2>1. caam_test[8] = Set("plain_bak", <<"0+i">>)
    BY Text DEF caam_blob_test
  <2>2. \A i \in Cell : mem'["plain_bak"][i] = <<"0+i">>
    BY <1>2, <2>1, SetStep, Bufs DEF IndInv
  <2> QED
    BY <1>1, <1>2, <2>2 DEF BlobKnown, Holds
<1>3. CASE line = 9
  <2>1. caam_test[9] = Job("gen_blob", <<"keymd", "plain">>, "blob")
    BY Text DEF caam_blob_test
  <2>2. mem'["plain_bak"] = mem["plain_bak"]
    BY <1>3, <2>1, JobStep, Bufs DEF IndInv
  <2> QED
    BY <1>1, <1>3, <2>2 DEF BlobKnown, Holds, IndInv
<1>4. CASE line = 10
  <2>1. caam_test[10] = Set("plain", <<"0xff">>)
    BY Text DEF caam_blob_test
  <2>2. /\ \A i \in Cell : mem'["plain"][i] = <<"0xff">>
        /\ mem'["plain_bak"] = mem["plain_bak"]
    BY <1>4, <2>1, SetStep, Bufs DEF IndInv
  <2> QED
    BY <1>1, <1>4, <2>2 DEF BlobKnown, Holds, IndInv
<1>5. CASE line = 11
  <2>1. caam_test[11] = Job("decap_blob", <<"keymd", "blob">>, "plain")
    BY Text DEF caam_blob_test
  <2>2. /\ Stmt = Job("decap_blob", <<"keymd", "blob">>, "plain")
        /\ \A i \in Cell : mem'["plain"][i] = (IF i \in filled'["plain"] THEN Output(i) ELSE mem["plain"][i])
        /\ ~failed' => ~failed /\ ~Refused /\ filled'["plain"] = Cell
        /\ mem'["plain_bak"] = mem["plain_bak"]
    BY <1>5, <2>1, JobStep, Bufs DEF IndInv
  <2>3. Stmt.f = "decap_blob"
    BY <2>2 DEF Job
  <2>4. ~Refused => \A i \in Cell : Output(i) = mem["plain_bak"][i]
    BY <2>3 DEF Output, Refused
  <2>5. Holds("plain", <<"0xff">>) /\ Holds("plain_bak", <<"0+i">>)
    BY <1>5 DEF BlobKnown, IndInv
  <2> QED
    BY <1>1, <1>5, <2>2, <2>4, <2>5 DEF BlobKnown, Holds
<1>6. CASE line \notin 8 .. 11
  BY <1>1, <1>6 DEF BlobKnown
<1> QED
  BY <1>1, <1>2, <1>3, <1>4, <1>5, <1>6

(* The two digests.                                                         *)
LEMMA HashNext ==
  ASSUME IndInv, Next
  PROVE  HashKnown'
<1>1. line' = line + 1 /\ line \in 1 .. 33
  BY LineNext DEF IndInv
<1>2. CASE line = 29
  <2>1. caam_test[29] = Set("hash1", <<"0x55">>)
    BY Text DEF caam_hash_test
  <2>2. \A i \in Cell : mem'["hash1"][i] = <<"0x55">>
    BY <1>2, <2>1, SetStep, Bufs DEF IndInv
  <2> QED
    BY <1>1, <1>2, <2>2 DEF HashKnown, Holds
<1>3. CASE line = 30
  <2>1. caam_test[30] = Set("hash2", <<"0xaa">>)
    BY Text DEF caam_hash_test
  <2>2. /\ \A i \in Cell : mem'["hash2"][i] = <<"0xaa">>
        /\ mem'["hash1"] = mem["hash1"]
    BY <1>3, <2>1, SetStep, Bufs DEF IndInv
  <2> QED
    BY <1>1, <1>3, <2>2 DEF HashKnown, Holds, IndInv
<1>4. CASE line = 31
  <2>1. caam_test[31] = Job("hash", <<"in">>, "hash1")
    BY Text DEF caam_hash_test
  <2>2. /\ Stmt = Job("hash", <<"in">>, "hash1")
        /\ \A i \in Cell : mem'["hash1"][i] = (IF i \in filled'["hash1"] THEN Output(i) ELSE mem["hash1"][i])
        /\ ~failed' => filled'["hash1"] = Cell
        /\ mem'["hash2"] = mem["hash2"] /\ mem'["in"] = mem["in"]
    BY <1>4, <2>1, JobStep, Bufs DEF IndInv
  <2>3. \A i \in Cell : Output(i) = Digest(i)'
    BY <2>2 DEF Output, Job, Arg, Digest
  <2>4. Holds("hash1", <<"0x55">>) /\ Holds("hash2", <<"0xaa">>)
    BY <1>4 DEF HashKnown, IndInv
  <2>5. \A i \in Cell : mem'["hash1"][i] = (IF i \in filled'["hash1"] THEN Digest(i)' ELSE <<"0x55">>)
    BY <2>2, <2>3, <2>4 DEF Holds
  <2> QED
    BY <1>1, <1>4, <2>2, <2>4, <2>5 DEF HashKnown, Holds
<1>5. CASE line = 32
  <2>1. caam_test[32] = Job("hash", <<"in">>, "hash2")
    BY Text DEF caam_hash_test
  <2>2. /\ Stmt = Job("hash", <<"in">>, "hash2")
        /\ \A i \in Cell : mem'["hash2"][i] = (IF i \in filled'["hash2"] THEN Output(i) ELSE mem["hash2"][i])
        /\ ~failed' => ~failed /\ filled'["hash2"] = Cell
        /\ mem'["hash1"] = mem["hash1"] /\ mem'["in"] = mem["in"]
        /\ filled'["hash1"] = filled["hash1"]
    BY <1>5, <2>1, JobStep, Bufs DEF IndInv
  <2>3. \A i \in Cell : Output(i) = Digest(i)' /\ Digest(i)' = Digest(i)
    BY <2>2 DEF Output, Job, Arg, Digest
  <2>4. /\ Holds("hash2", <<"0xaa">>)
        /\ \A i \in Cell : mem["hash1"][i] = (IF i \in filled["hash1"] THEN Digest(i) ELSE <<"0x55">>)
        /\ ~failed => filled["hash1"] = Cell
    BY <1>5 DEF HashKnown, IndInv
  <2>5. \A i \in Cell : mem'["hash2"][i] = (IF i \in filled'["hash2"] THEN Digest(i)' ELSE <<"0xaa">>)
    BY <2>2, <2>3, <2>4 DEF Holds
  <2>6. \A i \in Cell : mem'["hash1"][i] = (IF i \in filled'["hash1"] THEN Digest(i)' ELSE <<"0x55">>)
    BY <2>2, <2>3, <2>4
  <2> QED
    BY <1>1, <1>5, <2>2, <2>4, <2>5, <2>6 DEF HashKnown
<1>6. CASE line \notin 29 .. 32
  BY <1>1, <1>6 DEF HashKnown
<1> QED
  BY <1>1, <1>2, <1>3, <1>4, <1>5, <1>6

(* Encryption twice, then decryption of the second result.                  *)
LEMMA AesNext ==
  ASSUME IndInv, Next
  PROVE  AesKnown'
<1>1. line' = line + 1 /\ line \in 1 .. 33
  BY LineNext DEF IndInv
<1> USE Bufs DEF IndInv
<1>2. CASE line = 19
  <2>1. caam_test[19] = Set("buf1", <<"0+i">>)
    BY Text DEF caam_aes_test
  <2>2. \A i \in Cell : mem'["buf1"][i] = <<"0+i">>
    BY <1>2, <2>1, SetStep
  <2> QED
    BY <1>1, <1>2, <2>2 DEF AesKnown, Holds
<1>3. CASE line = 20
  <2>1. caam_test[20] = Set("buf2", <<"0x55">>)
    BY Text DEF caam_aes_test
  <2>2. (\A i \in Cell : mem'["buf2"][i] = <<"0x55">>) /\ mem'["buf1"] = mem["buf1"]
    BY <1>3, <2>1, SetStep
  <2> QED
    BY <1>1, <1>3, <2>2 DEF AesKnown, Holds
<1>4. CASE line = 21
  <2>1. caam_test[21] = Set("buf3", <<"0xaa">>)
    BY Text DEF caam_aes_test
  <2>2. /\ \A i \in Cell : mem'["buf3"][i] = <<"0xaa">>
        /\ mem'["buf1"] = mem["buf1"] /\ mem'["buf2"] = mem["buf2"]
    BY <1>4, <2>1, SetStep
  <2> QED
    BY <1>1, <1>4, <2>2 DEF AesKnown, Holds
<1>5. CASE line = 22
  <2>1. caam_test[22] = Job("aes_enc", <<"key", "buf1">>, "buf2")
    BY Text DEF caam_aes_test
  <2>2. /\ Stmt = Job("aes_enc", <<"key", "buf1">>, "buf2")
        /\ \A i \in Cell : mem'["buf2"][i] = (IF i \in filled'["buf2"] THEN Output(i) ELSE mem["buf2"][i])
        /\ ~failed' => filled'["buf2"] = Cell
        /\ mem'["key"] = mem["key"] /\ mem'["buf1"] = mem["buf1"] /\ mem'["buf3"] = mem["buf3"]
    BY <1>5, <2>1, JobStep
  <2>3. Holds("buf1", <<"0+i">>) /\ Holds("buf2", <<"0x55">>) /\ Holds("buf3", <<"0xaa">>)
    BY <1>5 DEF AesKnown
  <2>4. \A i \in Cell : Output(i) = Cipher'
    BY <2>2, <2>3 DEF Output, Job, Arg, Cipher, Holds
  <2>5. \A i \in Cell : mem'["buf2"][i] = (IF i \in filled'["buf2"] THEN Cipher' ELSE <<"0x55">>)
    BY <2>2, <2>3, <2>4 DEF Holds
  <2> QED
    BY <1>1, <1>5, <2>2, <2>3, <2>5 DEF AesKnown, Holds
<1>6. CASE line = 23
  <2>1. caam_test[23] = Job("aes_enc", <<"key", "buf1">>, "buf3")
    BY Text DEF caam_aes_test
  <2>2. /\ Stmt = Job("aes_enc", <<"key", "buf1">>, "buf3")
        /\ \A i \in Cell : mem'["buf3"][i] = (IF i \in filled'["buf3"] THEN Output(i) ELSE mem["buf3"][i])
        /\ ~failed' => ~failed /\ filled'["buf3"] = Cell
        /\ mem'["key"] = mem["key"] /\ mem'["buf1"] = mem["buf1"] /\ mem'["buf2"] = mem["buf2"]
        /\ filled'["buf2"] = filled["buf2"]
    BY <1>6, <2>1, JobStep
  <2>3. /\ Holds("buf1", <<"0+i">>) /\ Holds("buf3", <<"0xaa">>)
        /\ \A i \in Cell : mem["buf2"][i] = (IF i \in filled["buf2"] THEN Cipher ELSE <<"0x55">>)
        /\ ~failed => filled["buf2"] = Cell
    BY <1>6 DEF AesKnown
  <2>4. Cipher' = Cipher /\ \A i \in Cell : Output(i) = Cipher'
    BY <2>2, <2>3 DEF Output, Job, Arg, Cipher, Holds
  <2>5. \A i \in Cell : mem'["buf3"][i] = (IF i \in filled'["buf3"] THEN Cipher' ELSE <<"0xaa">>)
    BY <2>2, <2>3, <2>4 DEF Holds
  <2>6. \A i \in Cell : mem'["buf2"][i] = (IF i \in filled'["buf2"] THEN Cipher' ELSE <<"0x55">>)
    BY <2>2, <2>3, <2>4
  <2> QED
    BY <1>1, <1>6, <2>2, <2>3, <2>5, <2>6 DEF AesKnown, Holds
<1>7. CASE line = 24
  <2>1. caam_test[24] = Compare("buf2", "buf3", "same", {"buf2", "buf3"})
    BY Text DEF caam_aes_test
  <2>2. UNCHANGED <<mem, filled, failed>>
    BY <1>7, <2>1, CompareStep
  <2> QED
    BY <1>1, <1>7, <2>2 DEF AesKnown, Holds, Cipher
<1>8. CASE line = 25
  <2>1. caam_test[25] = Job("aes_dec", <<"key", "buf3">>, "buf2")
    BY Text DEF caam_aes_test
  <2>2. /\ Stmt = Job("aes_dec", <<"key", "buf3">>, "buf2")
        /\ \A i \in Cell : mem'["buf2"][i] = (IF i \in filled'["buf2"] THEN Output(i) ELSE mem["buf2"][i])
        /\ ~failed' => ~failed /\ filled'["buf2"] = Cell
        /\ mem'["key"] = mem["key"] /\ mem'["buf1"] = mem["buf1"] /\ mem'["buf3"] = mem["buf3"]
        /\ filled'["buf3"] = filled["buf3"]
    BY <1>8, <2>1, JobStep
  <2>3. /\ Holds("buf1", <<"0+i">>)
        /\ \A i \in Cell : mem["buf2"][i] = (IF i \in filled["buf2"] THEN Cipher ELSE <<"0x55">>)
        /\ \A i \in Cell : mem["buf3"][i] = (IF i \in filled["buf3"] THEN Cipher ELSE <<"0xaa">>)
        /\ ~failed => filled["buf3"] = Cell
    BY <1>8 DEF AesKnown
  <2>4. Cipher' = Cipher
    BY <2>2 DEF Cipher
  <2>5. \A i \in Cell : i \in filled'["buf2"] \/ mem'["buf2"][i] \in {Cipher', <<"0x55">>}
    BY <2>2, <2>3, <2>4
  <2>6. ~failed => \A i \in Cell : Output(i) = <<"0+i">>
    <3>1. /\ Cipher[1] = "aes" /\ Cipher[2] = Arg(1) /\ Cipher[3] = <<"0+i">>
          /\ \A i \in Cell : Output(i) = Decrypted(mem["buf3"][i])
      BY <2>2 DEF Cipher, Arg, Job, Output
    <3> QED
      BY <2>3, <3>1 DEF Decrypted
  <2>7. \A i \in Cell : mem'["buf3"][i] = (IF i \in filled'["buf3"] THEN Cipher' ELSE <<"0xaa">>)
    BY <2>2, <2>3, <2>4
  <2> QED
    BY <1>1, <1>8, <2>2, <2>3, <2>5, <2>6, <2>7 DEF AesKnown, Holds
<1>9. CASE line \notin 19 .. 25
  BY <1>1, <1>9 DEF AesKnown
<1> QED
  BY <1>1, <1>2, <1>3, <1>4, <1>5, <1>6, <1>7, <1>8, <1>9

----------------------------------------------------------------------------
(* The verdicts.                                                           *)

(* What is known before a comparison decides what it may log.               *)
LEMMA Judged ==
  ASSUME MemType, NEW k \in 1 .. 33, line = k,
         NEW a \in Buf, NEW b \in Buf, NEW want, NEW outs \in SUBSET Buf,
         caam_test[k] = Compare(a, b, want, outs), Next,
         ~failed => ((\A i \in Cell : mem[a][i] = mem[b][i]) <=> want = "same"),
         \/ outs \cap Unset # {}
         \/ want = "same" /\ \A i \in Cell : mem[a][i] = mem[b][i] => \A d \in outs : i \in filled[d]
  PROVE  PassIsEarned' /\ NoFalseAlarm'
<1>1. /\ verdict'.log = "PASS" <=> ((\A i \in Cell : mem[a][i] = mem[b][i]) <=> want = "same")
      /\ verdict'.log \in {"PASS", "FAILED"}
      /\ verdict'.outs = outs
      /\ verdict'.filled <=> \A d \in outs : filled[d] = Cell
      /\ verdict'.failed = failed
  BY CompareStep
<1>2. NoFalseAlarm'
  BY <1>1 DEF NoFalseAlarm, MemType
<1>3. PassIsEarned'
  <2> SUFFICES ASSUME verdict'.log = "PASS", outs \cap Unset = {}
               PROVE  \A d \in outs : filled[d] = Cell
    BY <1>1 DEF PassIsEarned
  <2>1. \A i \in Cell : \A d \in outs : i \in filled[d]
    BY <1>1
  <2> QED
    BY <2>1 DEF MemType
<1> QED
  BY <1>2, <1>3

(* A statement that compares nothing leaves the verdict as it is.           *)
LEMMA Unjudged ==
  ASSUME MemType, PassIsEarned, NoFalseAlarm, Next, Stmt.do # "compare"
  PROVE  PassIsEarned' /\ NoFalseAlarm'
<1>1. UNCHANGED verdict
  BY DEF Next, declare, memset, call_done, call_failed, memcmp, At
<1> QED
  BY <1>1 DEF PassIsEarned, NoFalseAlarm

(* The comparisons of caam_test.                                            *)
LEMMA Comparisons ==
  ASSUME NEW k \in 1 .. 33, caam_test[k].do = "compare"
  PROVE  k \in {4, 12, 16, 24, 26, 33}
<1>1. \A j \in 1 .. 3 : caam_hwrng_test[j].do # "compare"
  BY DEF caam_hwrng_test, Declare, Job
<1>2. \A j \in 1 .. 7 : caam_blob_test[j].do # "compare"
  BY DEF caam_blob_test, Declare, Job, Set
<1>3. \A j \in 1 .. 3 : caam_kdfv1_root_key_test[j].do # "compare"
  BY DEF caam_kdfv1_root_key_test, Declare, Job
<1>4. \A j \in (1 .. 7) \cup {9} : caam_aes_test[j].do # "compare"
  BY DEF caam_aes_test, Declare, Job, Set
<1>5. \A j \in 1 .. 6 : caam_hash_test[j].do # "compare"
  BY DEF caam_hash_test, Declare, Job, Set
<1>6. CASE k \in 1 .. 4
  BY <1>1, <1>6, Text
<1>7. CASE k \in 5 .. 12
  BY <1>2, <1>7, Text
<1>8. CASE k \in 13 .. 16
  BY <1>3, <1>8, Text
<1>9. CASE k \in 17 .. 26
  BY <1>4, <1>9, Text
<1>10. CASE k \in 27 .. 33
  BY <1>5, <1>10, Text
<1> QED
  BY <1>6, <1>7, <1>8, <1>9, <1>10

(* Every verdict is a true one.                                             *)
LEMMA VerdictNext ==
  ASSUME IndInv, Next
  PROVE  PassIsEarned' /\ NoFalseAlarm'
<1>1. line \in 1 .. 33
  BY LineNext DEF IndInv
<1> USE Bufs DEF IndInv
<1>2. CASE line = 4
  <2>1. caam_test[4] = Compare("out1", "out2", "different", {"out1", "out2"})
    BY Text DEF caam_hwrng_test
  <2>2. 1 \in Cell
    BY SelfTestAssumption DEF Cell
  <2>3. <<"random", 2, 1>> # <<"random", 3, 1>>
    OBVIOUS
  <2>4. ~failed => ~ \A i \in Cell : mem["out1"][i] = mem["out2"][i]
    BY <1>2, <2>2, <2>3 DEF RngKnown
  <2>5. {"out1", "out2"} \cap Unset # {}
    BY DEF Unset
  <2> QED
    BY <1>2, <2>1, <2>4, <2>5, Judged
<1>3. CASE line = 12
  <2>1. caam_test[12] = Compare("plain", "plain_bak", "same", {"plain"})
    BY Text DEF caam_blob_test
  <2>2. <<"0+i">> # <<"0xff">>
    OBVIOUS
  <2>3. ~failed => \A i \in Cell : mem["plain"][i] = mem["plain_bak"][i]
    BY <1>3 DEF BlobKnown
  <2>4. \A i \in Cell : mem["plain"][i] = mem["plain_bak"][i] => i \in filled["plain"]
    BY <1>3, <2>2 DEF BlobKnown, Holds
  <2> QED
    BY <1>3, <2>1, <2>3, <2>4, Judged
<1>4. CASE line = 16
  <2>1. caam_test[16] = Compare("out1", "out2", "same", {"out1", "out2"})
    BY Text DEF caam_kdfv1_root_key_test
  <2>2. ~failed => \A i \in Cell : mem["out1"][i] = mem["out2"][i]
    BY <1>4 DEF RootKnown
  <2>3. {"out1", "out2"} \cap Unset # {}
    BY DEF Unset
  <2> QED
    BY <1>4, <2>1, <2>2, <2>3, Judged
<1>5. CASE line = 24
  <2>1. caam_test[24] = Compare("buf2", "buf3", "same", {"buf2", "buf3"})
    BY Text DEF caam_aes_test
  <2>2. Cipher # <<"0x55">> /\ Cipher # <<"0xaa">> /\ <<"0x55">> # <<"0xaa">>
    BY DEF Cipher
  <2>3. /\ \A i \in Cell : mem["buf2"][i] = (IF i \in filled["buf2"] THEN Cipher ELSE <<"0x55">>)
        /\ \A i \in Cell : mem["buf3"][i] = (IF i \in filled["buf3"] THEN Cipher ELSE <<"0xaa">>)
        /\ ~failed => filled["buf2"] = Cell /\ filled["buf3"] = Cell
    BY <1>5 DEF AesKnown
  <2>4. ~failed => \A i \in Cell : mem["buf2"][i] = mem["buf3"][i]
    BY <2>3
  <2>5. \A i \in Cell : mem["buf2"][i] = mem["buf3"][i] => i \in filled["buf2"] /\ i \in filled["buf3"]
    BY <2>2, <2>3
  <2> QED
    BY <1>5, <2>1, <2>4, <2>5, Judged
<1>6. CASE line = 26
  <2>1. caam_test[26] = Compare("buf1", "buf2", "same", {"buf2"})
    BY Text DEF caam_aes_test
  <2>2. Cipher # <<"0+i">> /\ <<"0x55">> # <<"0+i">>
    BY DEF Cipher
  <2>3. /\ Holds("buf1", <<"0+i">>)
        /\ \A i \in Cell : i \in filled["buf2"] \/ mem["buf2"][i] \in {Cipher, <<"0x55">>}
        /\ ~failed => Holds("buf2", <<"0+i">>)
    BY <1>6 DEF AesKnown
  <2>4. ~failed => \A i \in Cell : mem["buf1"][i] = mem["buf2"][i]
    BY <2>3 DEF Holds
  <2>5. \A i \in Cell : mem["buf1"][i] = mem["buf2"][i] => i \in filled["buf2"]
    BY <2>2, <2>3 DEF Holds
  <2> QED
    BY <1>6, <2>1, <2>4, <2>5, Judged
<1>7. CASE line = 33
  <2>1. caam_test[33] = Compare("hash1", "hash2", "same", {"hash1", "hash2"})
    BY Text DEF caam_hash_test
  <2>2. \A i \in Cell : Digest(i) # <<"0x55">> /\ Digest(i) # <<"0xaa">> /\ <<"0x55">> # <<"0xaa">>
    BY DEF Digest
  <2>3. /\ \A i \in Cell : mem["hash1"][i] = (IF i \in filled["hash1"] THEN Digest(i) ELSE <<"0x55">>)
        /\ \A i \in Cell : mem["hash2"][i] = (IF i \in filled["hash2"] THEN Digest(i) ELSE <<"0xaa">>)
        /\ ~failed => filled["hash1"] = Cell /\ filled["hash2"] = Cell
    BY <1>7 DEF HashKnown
  <2>4. ~failed => \A i \in Cell : mem["hash1"][i] = mem["hash2"][i]
    BY <2>3
  <2>5. \A i \in Cell : mem["hash1"][i] = mem["hash2"][i] => i \in filled["hash1"] /\ i \in filled["hash2"]
    BY <2>2, <2>3
  <2> QED
    BY <1>7, <2>1, <2>4, <2>5, Judged
<1>8. CASE line \notin {4, 12, 16, 24, 26, 33}
  <2>1. Stmt.do # "compare"
    BY <1>1, <1>8, Comparisons DEF Stmt
  <2> QED
    BY <2>1, Unjudged
<1> QED
  BY <1>2, <1>3, <1>4, <1>5, <1>6, <1>7, <1>8

----------------------------------------------------------------------------
(* The theorems.                                                           *)

(* caam_test begins with nothing known and nothing logged.                  *)
LEMMA InitInd == Init => IndInv
<1> SUFFICES ASSUME Init PROVE IndInv
  OBVIOUS
<1>1. MemType
  <2>1. line \in 1 .. 34
    BY DEF Init
  <2>2. mem = [b \in Buf |-> [i \in Cell |-> mem[b][i]]]
    BY DEF Init, Unused
  <2>3. filled \in [Buf -> SUBSET Cell]
    BY DEF Init
  <2>4. failed \in BOOLEAN
    BY Zenon DEF Init
  <2> QED
    BY <2>1, <2>2, <2>3, <2>4 DEF MemType
<1>2. RngKnown /\ BlobKnown /\ RootKnown /\ AesKnown /\ HashKnown
  BY DEF Init, RngKnown, BlobKnown, RootKnown, AesKnown, HashKnown
<1>3. PassIsEarned /\ NoFalseAlarm
  BY DEF Init, PassIsEarned, NoFalseAlarm
<1> QED
  BY <1>1, <1>2, <1>3 DEF IndInv

(* Every statement keeps the invariant.                                     *)
LEMMA NextInd == IndInv /\ [Next]_vars => IndInv'
<1> SUFFICES ASSUME IndInv, [Next]_vars PROVE IndInv'
  OBVIOUS
<1>1. CASE Next
  <2>1. MemType'
    BY <1>1, TypeNext DEF IndInv
  <2>2. RngKnown' /\ BlobKnown' /\ RootKnown' /\ AesKnown' /\ HashKnown'
    BY <1>1, RngNext, BlobNext, RootNext, AesNext, HashNext
  <2> QED
    BY <1>1, <2>1, <2>2, VerdictNext DEF IndInv
<1>2. CASE UNCHANGED vars
  <2>1. MemType'
    BY <1>2 DEF vars, IndInv, MemType
  <2>2. RngKnown' /\ BlobKnown' /\ RootKnown'
    BY <1>2 DEF vars, IndInv, RngKnown, BlobKnown, RootKnown, Holds
  <2>3. AesKnown'
    BY <1>2 DEF vars, IndInv, AesKnown, Cipher, Holds
  <2>4. HashKnown'
    BY <1>2 DEF vars, IndInv, HashKnown, Digest, Holds
  <2>5. PassIsEarned' /\ NoFalseAlarm'
    BY <1>2 DEF vars, IndInv, PassIsEarned, NoFalseAlarm
  <2> QED
    BY <2>1, <2>2, <2>3, <2>4, <2>5 DEF IndInv
<1> QED
  BY <1>1, <1>2

(* What is known of the buffers is known before every statement of          *)
(* caam_test, for buffers of every size.                                    *)
THEOREM Inductive == Spec => []IndInv
BY InitInd, NextInd, PTL DEF Spec

(* A test that resets its outputs logs PASS only if the device has written  *)
(* every cell of the outputs it compares, though it ignores the results of  *)
(* its calls.                                                               *)
THEOREM PassesAreEarned == Spec => []PassIsEarned
<1>1. IndInv => PassIsEarned
  BY DEF IndInv
<1> QED
  BY <1>1, Inductive, PTL

(* A test logs FAILED only if a call of it failed.                          *)
THEOREM AlarmsAreTrue == Spec => []NoFalseAlarm
<1>1. IndInv => NoFalseAlarm
  BY DEF IndInv
<1> QED
  BY <1>1, Inductive, PTL
=============================================================================
