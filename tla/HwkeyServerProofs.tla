------------------------- MODULE HwkeyServerProofs -------------------------
(***************************************************************************)
(* Proofs about HwkeyServer for every set of channels and clients, every    *)
(* size and content of the payloads and every combination of failing calls. *)
(*                                                                          *)
(* IndInv is the inductive invariant.  ReplyMatchesRequest is not inductive *)
(* alone: Pipeline follows a request from the receive buffer through the    *)
(* handler to the reply, and says which of the outstanding requests each    *)
(* of the three places holds.                                               *)
(***************************************************************************)
EXTENDS HwkeyServer, SeqLemmas

(* The requests a client waits for are requests.                            *)
AskedType == asked \in [Chan -> Seq(Request)]

(* A context is kept for each open channel, with the identity of its        *)
(* client; a connection not accepted yet and a closed one have no message   *)
(* for the service, and a client that is not connected waits for nothing.   *)
ChannelsSound ==
  /\ ctx = srv
  /\ pc = "start" => srv = {}
  /\ \A c \in srv : uuid[c] = peer[c] /\ cli[c] # "connecting"
  /\ \A c \in Chan : c \in srv \/ cli[c] = "connecting" => peer[c] \in Uuid
  /\ \A c \in Chan : inbox[c] # NoMsg => c \in srv
  /\ \A c \in Chan : cli[c] # "open" => outbox[c] = NoMsg /\ asked[c] = << >>

(* A hang-up that is being dispatched is not undone.                        *)
HangupIsFinal ==
  \A c \in srv : pc = "dispatch" /\ ev.handle = c /\ "HUP" \in ev.event => cli[c] # "open"

(* A request is handled for an open channel, its response has a legal       *)
(* header, and a response that was not sent met a full buffer or a client   *)
(* that is gone.                                                            *)
JobSound ==
  /\ pc \in {"reply", "sanitize"} => job.chan \in srv
  /\ pc = "reply" =>
       /\ ~job.sent
       /\ \/ job.cmd = "DERIVE" /\ job.arg1 \in {"V1", "unknown"}
          \/ job.cmd \in {"GET_KEYSLOT", "unknown"} /\ job.arg1 = "BEST"
  /\ pc = "sanitize" /\ ~job.sent =>
       cli[job.chan] # "open" \/ job.chan \in blocked \cup unblocked

(* The cells of the buffers that hold a key or input key material: none     *)
(* outside a handler, and inside it those hwkey_sanitize will zero.         *)
SecretKeys == IF pc \in {"reply", "sanitize"} THEN 1 .. job.key_len ELSE {}
SecretReq == IF pc \in {"reply", "sanitize"} /\ job.cmd = "DERIVE" THEN 1 .. job.req_len ELSE {}

BuffersBounded ==
  pc # "exited" =>
    /\ \A i \in KeyIndex \ SecretKeys : key_data[i] = ZeroCell
    /\ \A i \in ReqIndex \ SecretReq : req_data[i] \notin IkmSymbol

InFlight(c) == pc \in {"reply", "sanitize"} /\ job.chan = c /\ ~job.sent

\* How many of the client's outstanding requests have a reply, and how many
\* of them the handler has read.
Replied(c) == IF outbox[c] # NoMsg THEN 1 ELSE 0
Handled(c) == Replied(c) + (IF InFlight(c) THEN 1 ELSE 0)

(* The outstanding requests of a connection are, in order, the one whose    *)
(* reply waits, the one being handled and the one not read yet.             *)
Pipeline ==
  \A c \in srv : cli[c] = "open" =>
    /\ inbox[c] \notin Request => Len(asked[c]) = Handled(c)
    /\ inbox[c] \in Request => /\ Len(asked[c]) = Handled(c) + 1
                               /\ asked[c][Handled(c) + 1] = inbox[c]
    /\ pc = "reply" /\ job.chan = c => Promised(peer[c], asked[c][Handled(c)], Rsp)

(* The inductive invariant.                                                 *)
IndInv == /\ TypeOK
          /\ AskedType
          /\ ChannelsSound
          /\ HangupIsFinal
          /\ JobSound
          /\ BuffersBounded
          /\ Pipeline
          /\ ReplyMatchesRequest
----------------------------------------------------------------------------
(* Sequences.                                                              *)

(* A buffer is a sequence, and its first n cells are too.                   *)
LEMMA Prefix ==
  ASSUME NEW S, NEW N \in Nat, NEW f \in [1 .. N -> S], NEW n \in 0 .. N
  PROVE  /\ f \in Seq(S) /\ Len(f) = N
         /\ SubSeq(f, 1, n) \in [1 .. n -> S]
         /\ \A i \in 1 .. n : SubSeq(f, 1, n)[i] = f[i]
<1>1. f \in Seq(S) /\ Len(f) = N
  OBVIOUS
<1>2. \A i \in 1 .. n : f[i] \in S
  OBVIOUS
<1>3. /\ SubSeq(f, 1, n) \in Seq(S)
      /\ Len(SubSeq(f, 1, n)) = n
      /\ \A i \in 1 .. n : SubSeq(f, 1, n)[i] = f[i]
  BY <1>1, <1>2
<1> QED
  BY <1>1, <1>3, LenProperties

(* Taking the first element moves the others up by one.                     *)
LEMMA TailShifts ==
  ASSUME NEW S, NEW s \in Seq(S), s # << >>
  PROVE  /\ Len(s) \in Nat /\ Len(Tail(s)) = Len(s) - 1
         /\ \A i \in 1 .. Len(s) - 1 : Tail(s)[i] = s[i + 1]
BY HeadTailProperties

(* strcmp sees the same string in a name and in the longer buffer it was    *)
(* copied to, if the cell behind it is zero ("force zero termination").     *)
LEMMA TerminatedString ==
  ASSUME NEW s \in Seq(STRING), NEW N \in Nat, Len(s) < N, NEW buf \in [1 .. N -> Symbol],
         \A i \in 1 .. Len(s) : buf[i] = s[i],
         buf[Len(s) + 1] = "0"
  PROVE  CString(buf) = CString(s)
<1> DEFINE A == {i \in 1 .. Len(s) : s[i] = "0"} \cup {Len(s) + 1}
           B == {i \in 1 .. Len(buf) : buf[i] = "0"} \cup {Len(buf) + 1}
<1>1. Len(s) \in Nat /\ buf \in Seq(Symbol) /\ Len(buf) = N
  OBVIOUS
<1>2. A \in SUBSET Nat /\ A # {} /\ B \in SUBSET Nat /\ B # {}
  BY <1>1
<1>3. A \subseteq B /\ \A i \in B : i \in A \/ i > Len(s) + 1
  BY <1>1
<1>4. Len(s) + 1 \in A /\ \A i \in A : i <= Len(s) + 1
  BY <1>1
<1> HIDE DEF A, B
<1>5. Min(A) \in A /\ \A i \in A : Min(A) <= i
  BY <1>2, MinOf
<1>6. Min(B) \in B /\ \A i \in B : Min(B) <= i
  BY <1>2, MinOf
<1>7. Min(A) = Min(B) /\ Min(A) - 1 \in 0 .. Len(s)
  <2>1. Min(A) \in Nat /\ Min(B) \in Nat
    BY <1>2, <1>5, <1>6
  <2>2. Min(B) <= Len(s) + 1
    BY <1>3, <1>4, <1>6
  <2>3. Min(B) \in A
    BY <1>1, <1>3, <1>6, <2>1, <2>2
  <2>4. Min(A) <= Min(B) /\ Min(B) <= Min(A)
    BY <1>3, <1>5, <1>6, <2>3
  <2>5. Min(A) >= 1
    BY <1>1, <1>5, <2>1 DEF A
  <2> QED
    BY <1>1, <1>4, <1>5, <2>1, <2>4, <2>5
<1> DEFINE k == Min(A) - 1
<1>8. k \in 0 .. Len(s)
  BY <1>7
<1>9. CString(s) = SubSeq(s, 1, k) /\ CString(buf) = SubSeq(buf, 1, k)
  BY <1>7 DEF CString, A, B
<1> HIDE DEF k
<1>10. SubSeq(s, 1, k) = SubSeq(buf, 1, k)
  <2> DEFINE x == SubSeq(s, 1, k)
             y == SubSeq(buf, 1, k)
  <2>1. /\ x \in Seq(STRING) /\ Len(x) = k
        /\ \A i \in 1 .. k : x[i] = s[i]
    BY <1>1, <1>8
  <2>2. /\ y \in Seq(Symbol) /\ Len(y) = k
        /\ \A i \in 1 .. k : y[i] = buf[i]
    BY <1>1, <1>8
  <2> HIDE DEF x, y
  <2>3. x \in Seq(STRING \cup Symbol) /\ y \in Seq(STRING \cup Symbol)
    BY <2>1, <2>2, SeqMonotonic
  <2>4. \A i \in 1 .. k : x[i] = y[i]
    BY <1>1, <1>8, <2>1, <2>2
  <2>5. x = y
    BY <2>1, <2>2, <2>3, <2>4, SeqEqual
  <2> QED
    BY <2>5 DEF x, y
<1> QED
  BY <1>9, <1>10

----------------------------------------------------------------------------
(* Key slots.                                                              *)

(* The slot table gives a client the key it may fetch by that name, an      *)
(* error, or "not found" (hwkey_get_slot).                                  *)
LEMMA SlotAnswers ==
  ASSUME NEW u, NEW name, NEW r \in SlotLookup(u, name)
  PROVE  /\ r \in [status : Status, cell : Cell]
         /\ r.status \in {"NO_ERROR", "GENERIC", "NOT_FOUND"}
         /\ r.status # "NO_ERROR" => r.cell = ZeroCell
         /\ r.status = "NO_ERROR" => KeyFor(u, name) = <<r.cell>>
         /\ KeyFor(u, name) = << >> => r.status = "NOT_FOUND"
<1> DEFINE slot == [uuid |-> ss_uuid, key_id |-> RpmbId, key |-> RpmbCell]
           test_slot == [uuid |-> hwcrypto_unittest_uuid, key_id |-> UnittestId, key |-> UnittestCell]
<1>1. RpmbId # UnittestId /\ RpmbCell # UnittestCell
  BY DEF RpmbId, UnittestId, RpmbCell, UnittestCell
<1>2. ASSUME NEW sl, NEW q \in handle_slots(u, name, <<sl>>)
      PROVE  \/ q = NotFound /\ ~(sl.key_id = name /\ sl.uuid = u)
             \/ sl.key_id = name /\ sl.uuid = u /\ q \in SlotResults(sl)
  <2> DEFINE hits == {i \in 1 .. Len(<<sl>>) : <<sl>>[i].key_id = name /\ <<sl>>[i].uuid = u}
  <2>1. hits \subseteq {1} /\ (1 \in hits <=> sl.key_id = name /\ sl.uuid = u)
    OBVIOUS
  <2>2. q \in IF hits = {} THEN {NotFound} ELSE SlotResults(<<sl>>[Min(hits)])
    BY <1>2 DEF handle_slots
  <2>3. CASE hits = {}
    BY <2>1, <2>2, <2>3
  <2>4. CASE hits # {}
    <3>1. hits = {1}
      BY <2>1, <2>4
    <3>2. Min({1}) = 1
      BY MinOf
    <3> QED
      BY <2>1, <2>2, <3>1, <3>2
  <2> QED
    BY <2>3, <2>4
<1>3. PICK q \in handle_slots(u, name, key_slots) :
        r \in IF q.status = "NOT_FOUND" /\ WITH_HWCRYPTO_UNITTEST
              THEN handle_slots(u, name, test_key_slots) ELSE {q}
  BY DEF SlotLookup
<1>4. \/ q = NotFound /\ ~(name = RpmbId /\ u = ss_uuid)
      \/ name = RpmbId /\ u = ss_uuid /\ q \in SlotResults(slot)
  BY <1>2, <1>3 DEF key_slots
<1>5. ASSUME r \in handle_slots(u, name, test_key_slots)
      PROVE  \/ r = NotFound /\ ~(name = UnittestId /\ u = hwcrypto_unittest_uuid)
             \/ name = UnittestId /\ u = hwcrypto_unittest_uuid /\ r \in SlotResults(test_slot)
  BY <1>2, <1>5 DEF test_key_slots
<1>6. /\ \A x \in SlotResults(slot) :
           \/ x = NotFound
           \/ x = [status |-> "NO_ERROR", cell |-> RpmbCell]
           \/ x = [status |-> "GENERIC", cell |-> ZeroCell]
      /\ SlotResults(test_slot) = {[status |-> "NO_ERROR", cell |-> UnittestCell]}
  BY <1>1 DEF SlotResults
<1>7. \/ r = NotFound /\ (KeyFor(u, name) = << >> \/ (name = RpmbId /\ u = ss_uuid))
      \/ r = [status |-> "NO_ERROR", cell |-> RpmbCell] /\ name = RpmbId /\ u = ss_uuid
      \/ r = [status |-> "GENERIC", cell |-> ZeroCell] /\ name = RpmbId /\ u = ss_uuid
      \/ /\ r = [status |-> "NO_ERROR", cell |-> UnittestCell]
         /\ WITH_HWCRYPTO_UNITTEST /\ name = UnittestId /\ u = hwcrypto_unittest_uuid
  <2>1. CASE q.status = "NOT_FOUND" /\ WITH_HWCRYPTO_UNITTEST
    BY <1>1, <1>3, <1>4, <1>5, <1>6, <2>1 DEF KeyFor
  <2>2. CASE q.status # "NOT_FOUND"
    <3>1. r = q /\ q # NotFound
      BY <1>3, <2>2 DEF NotFound
    <3> QED
      BY <1>4, <1>6, <3>1
  <2>3. CASE ~WITH_HWCRYPTO_UNITTEST
    <3>1. r = q
      BY <1>3, <2>3
    <3>2. CASE name = RpmbId /\ u = ss_uuid
      BY <1>4, <1>6, <3>1, <3>2
    <3>3. CASE ~(name = RpmbId /\ u = ss_uuid)
      <4>1. KeyFor(u, name) = << >>
        BY <2>3, <3>3 DEF KeyFor
      <4> QED
        BY <1>4, <3>1, <3>3, <4>1
    <3> QED
      BY <3>2, <3>3
  <2> QED
    BY <2>1, <2>2, <2>3
<1>8. /\ name = RpmbId /\ u = ss_uuid => KeyFor(u, name) = <<RpmbCell>>
      /\ WITH_HWCRYPTO_UNITTEST /\ name = UnittestId /\ u = hwcrypto_unittest_uuid =>
           KeyFor(u, name) = <<UnittestCell>>
  BY <1>1 DEF KeyFor
<1>9. {ZeroCell, RpmbCell, UnittestCell} \subseteq Cell
  BY DEF Cell
<1>10. CASE r = NotFound /\ (KeyFor(u, name) = << >> \/ (name = RpmbId /\ u = ss_uuid))
  BY <1>9, <1>10 DEF NotFound, Status
<1>11. CASE r = [status |-> "NO_ERROR", cell |-> RpmbCell] /\ name = RpmbId /\ u = ss_uuid
  BY <1>8, <1>9, <1>11 DEF Status
<1>12. CASE r = [status |-> "GENERIC", cell |-> ZeroCell] /\ name = RpmbId /\ u = ss_uuid
  BY <1>8, <1>9, <1>12 DEF Status
<1>13. CASE /\ r = [status |-> "NO_ERROR", cell |-> UnittestCell]
            /\ WITH_HWCRYPTO_UNITTEST /\ name = UnittestId /\ u = hwcrypto_unittest_uuid
  BY <1>8, <1>9, <1>13 DEF Status
<1> QED
  BY <1>7, <1>10, <1>11, <1>12, <1>13

----------------------------------------------------------------------------
(* The handlers of a request.                                              *)

Payloads == GetPayloads \cup DerivePayloads \cup OtherPayloads

(* The symbols of a payload are symbols.                                    *)
LEMMA SymbolsIn ==
  ASSUME NEW P, NEW s \in P, NEW i \in 1 .. Len(s)
  PROVE  s[i] \in SymbolsOf(P)
<1>1. s[i] \in {s[j] : j \in 1 .. Len(s)}
  OBVIOUS
<1> QED
  BY <1>1 DEF SymbolsOf

(* A request fits the buffer, and copying it leaves cells that are symbols. *)
LEMMA RequestFits ==
  ASSUME IndInv, NEW m \in Request
  PROVE  /\ m.data \in Payloads /\ m.data \in Seq(STRING)
         /\ Len(m.data) \in 0 .. HWKEY_MAX_PAYLOAD_SIZE
         /\ Received(m.data) \in [ReqIndex -> Symbol]
         /\ \A i \in 1 .. Len(m.data) : i \in ReqIndex /\ Received(m.data)[i] = m.data[i]
         /\ \A i \in ReqIndex : i > Len(m.data) => Received(m.data)[i] = req_data[i]
         /\ "0" \in Symbol
<1>1. m.data \in Payloads
  BY DEF Request, Payloads
<1>2. /\ m.data \in Seq(STRING) /\ Len(m.data) \in 0 .. HWKEY_MAX_PAYLOAD_SIZE
      /\ HWKEY_MAX_PAYLOAD_SIZE \in Nat
  BY <1>1, KeyAssumption DEF Payloads
<1>3. \A i \in 1 .. Len(m.data) : m.data[i] \in Symbol
  BY <1>1, SymbolsIn DEF Symbol, Payloads
<1>4. req_data \in [ReqIndex -> Symbol]
  BY DEF IndInv, TypeOK
<1>5. \A i \in ReqIndex : i <= Len(m.data) => i \in 1 .. Len(m.data)
  BY <1>2 DEF ReqIndex
<1>6. Received(m.data) \in [ReqIndex -> Symbol]
  BY <1>3, <1>4, <1>5 DEF Received
<1>7. \A i \in 1 .. Len(m.data) : i \in ReqIndex /\ Received(m.data)[i] = m.data[i]
  BY <1>2 DEF Received, ReqIndex
<1>8. \A i \in ReqIndex : i > Len(m.data) => Received(m.data)[i] = req_data[i]
  BY <1>2 DEF Received, ReqIndex
<1> QED
  BY <1>1, <1>2, <1>6, <1>7, <1>8 DEF Symbol

(* Only a request to derive a key carries input key material.               *)
LEMMA NoIkmInNames ==
  /\ "0" \notin IkmSymbol
  /\ \A s \in GetPayloads \cup OtherPayloads : \A i \in 1 .. Len(s) : s[i] \notin IkmSymbol
<1>1. ASSUME NEW s \in GetPayloads \cup OtherPayloads, NEW i \in 1 .. Len(s)
      PROVE  s[i] \in SymbolsOf(GetPayloads \cup OtherPayloads)
  BY SymbolsIn
<1> QED
  BY <1>1 DEF IkmSymbol

\* What a handler that has read request m of channel c leaves behind.
HandlerLeaves(c, m) ==
  /\ key_data' \in [KeyIndex -> Cell]
  /\ req_data' \in [ReqIndex -> Symbol]
  /\ job' \in Job /\ job'.chan = c /\ job'.sent = FALSE
  /\ \/ job'.cmd = "DERIVE" /\ job'.arg1 \in {"V1", "unknown"}
     \/ job'.cmd \in {"GET_KEYSLOT", "unknown"} /\ job'.arg1 = "BEST"
  /\ \A i \in KeyIndex : i \in 1 .. job'.key_len \/ key_data'[i] = ZeroCell
  /\ \A i \in ReqIndex : \/ job'.cmd = "DERIVE" /\ i \in 1 .. job'.req_len
                         \/ req_data'[i] \notin IkmSymbol
  /\ Promised(uuid[c], m, Rsp')

(* The state in which a handler is called.                                  *)
LEMMA HandlerFinds ==
  ASSUME IndInv, NEW c \in Chan, pc = "dispatch", inbox[c] \in Request
  PROVE  /\ c \in srv /\ uuid[c] \in Uuid /\ uuid[c] = peer[c]
         /\ key_data = [i \in KeyIndex |-> ZeroCell]
         /\ \A i \in ReqIndex : req_data[i] \notin IkmSymbol
<1>1. c \in srv
  BY MessageAssumption DEF IndInv, ChannelsSound
<1>2. SecretKeys = {} /\ SecretReq = {}
  BY DEF SecretKeys, SecretReq
<1>3. /\ \A i \in KeyIndex : key_data[i] = ZeroCell
      /\ \A i \in ReqIndex : req_data[i] \notin IkmSymbol
  BY <1>2 DEF IndInv, BuffersBounded
<1> QED
  BY <1>1, <1>3 DEF IndInv, TypeOK, ChannelsSound

(* A key slot is fetched.                                                   *)
LEMMA GetKeyslotLeaves ==
  ASSUME IndInv, NEW c \in Chan, pc = "dispatch", inbox[c] \in Request,
         hwkey_get_keyslot(c, inbox[c])
  PROVE  HandlerLeaves(c, inbox[c])
<1> DEFINE m == inbox[c]
           n == Len(m.data)
<1>1. /\ m \in Request /\ m.cmd = "GET_KEYSLOT" /\ m.data \in GetPayloads /\ m.arg1 = "BEST"
  BY DEF hwkey_get_keyslot, Request
<1>2. /\ req_data' = [Received(m.data) EXCEPT ![n + 1] = "0"]
      /\ m.data \in Seq(STRING) /\ n \in 0 .. HWKEY_MAX_PAYLOAD_SIZE
      /\ n + 1 \in ReqIndex /\ HWKEY_MAX_PAYLOAD_SIZE \in Nat \ {0}
      /\ Received(m.data) \in [ReqIndex -> Symbol]
      /\ "0" \in Symbol
  BY RequestFits, KeyAssumption DEF hwkey_get_keyslot, ReqIndex
<1>3. /\ req_data' \in [ReqIndex -> Symbol]
      /\ req_data'[n + 1] = "0"
      /\ \A i \in 1 .. n : req_data'[i] = m.data[i]
  BY <1>2, RequestFits
<1>4. ASSUME NEW i \in ReqIndex PROVE req_data'[i] \notin IkmSymbol
  <2>1. i \in Nat /\ i >= 1
    BY <1>2 DEF ReqIndex
  <2>2. CASE i <= n
    <3>1. i \in 1 .. n
      BY <1>2, <2>1, <2>2
    <3> QED
      BY <1>1, <1>3, <3>1, NoIkmInNames
  <2>3. CASE i = n + 1
    BY <1>3, <2>3, NoIkmInNames
  <2>4. CASE i > n + 1
    <3>1. req_data'[i] = Received(m.data)[i] /\ i > n
      BY <1>2, <2>1, <2>4
    <3>2. Received(m.data)[i] = req_data[i]
      BY <1>1, <3>1, RequestFits
    <3> QED
      BY <3>1, <3>2, HandlerFinds
  <2> QED
    BY <1>2, <2>1, <2>2, <2>3, <2>4
<1>5. CString(req_data') = CString(m.data)
  <2> DEFINE N == HWKEY_MAX_PAYLOAD_SIZE + 1
             buf == req_data'
             s == m.data
  <2>1. /\ s \in Seq(STRING) /\ N \in Nat /\ Len(s) < N /\ buf \in [1 .. N -> Symbol]
        /\ \A i \in 1 .. Len(s) : buf[i] = s[i]
        /\ buf[Len(s) + 1] = "0"
    BY <1>2, <1>3 DEF ReqIndex
  <2> HIDE DEF N, buf, s
  <2>2. CString(buf) = CString(s)
    BY <2>1, TerminatedString
  <2> QED
    BY <2>2 DEF buf, s
<1>6. PICK r \in SlotLookup(uuid[c], CString(m.data)) :
        LET k == IF r.status = "NO_ERROR" THEN 1 ELSE 0 IN
        /\ key_data' = Filled(r, 1)
        /\ job' = [chan |-> c, cmd |-> m.cmd, arg1 |-> m.arg1, status |-> r.status,
                   key_len |-> k, req_len |-> n, sent |-> FALSE]
  BY <1>5 DEF hwkey_get_keyslot
<1>7. /\ r \in [status : Status, cell : Cell]
      /\ r.status \in {"NO_ERROR", "GENERIC", "NOT_FOUND"}
      /\ r.status # "NO_ERROR" => r.cell = ZeroCell
      /\ r.status = "NO_ERROR" => KeyFor(uuid[c], CString(m.data)) = <<r.cell>>
      /\ KeyFor(uuid[c], CString(m.data)) = << >> => r.status = "NOT_FOUND"
  BY SlotAnswers
<1> DEFINE k == IF r.status = "NO_ERROR" THEN 1 ELSE 0
<1>8. /\ k \in 0 .. HWKEY_MAX_PAYLOAD_SIZE
      /\ job' = [chan |-> c, cmd |-> m.cmd, arg1 |-> m.arg1, status |-> r.status,
                 key_len |-> k, req_len |-> n, sent |-> FALSE]
      /\ key_data' = Filled(r, 1)
  BY <1>2, <1>6
<1>9. job' \in Job /\ job'.chan = c /\ job'.sent = FALSE
  BY <1>1, <1>2, <1>7, <1>8 DEF Job, KdfVersion, Status
<1>10. /\ key_data' \in [KeyIndex -> Cell]
       /\ \A i \in KeyIndex : i \in 1 .. k \/ key_data'[i] = ZeroCell
       /\ k = 1 => 1 \in KeyIndex /\ key_data'[1] = r.cell
  <2>1. ZeroCell \in Cell
    BY DEF Cell
  <2> QED
    BY <1>2, <1>7, <1>8, <2>1, HandlerFinds DEF Filled, KeyIndex
<1>11. /\ k = 0 => SubSeq(key_data', 1, k) = << >>
       /\ k = 1 => SubSeq(key_data', 1, k) = <<r.cell>>
  <2>1. k = 0 => SubSeq(key_data', 1, k) = << >>
    BY SubSeqEmpty
  <2>2. ASSUME k = 1 PROVE SubSeq(key_data', 1, 1) = <<r.cell>>
    <3> DEFINE x == SubSeq(key_data', 1, 1)
    <3>1. /\ x \in Seq(Cell) /\ Len(x) = 1 /\ x[1] = r.cell
      BY <1>2, <1>10, <2>2, SubSeqProperties DEF KeyIndex
    <3> HIDE DEF x
    <3>2. x = <<r.cell>>
      BY <3>1
    <3> QED
      BY <3>2 DEF x
  <2> QED
    BY <2>1, <2>2
<1>12. Promised(uuid[c], m, Rsp')
  <2> DEFINE key == KeyFor(uuid[c], CString(m.data))
             q == Rsp'
  <2>1. q.cmd = "GET_KEYSLOT" /\ q.status = r.status /\ q.data = SubSeq(key_data', 1, k)
    BY <1>1, <1>8 DEF Rsp
  <2> HIDE DEF q, key, k
  <2>2. q.status # "NO_ERROR" => q.data = << >>
    BY <1>11, <2>1 DEF k
  <2>3. q.status = "NO_ERROR" => q.data = key /\ key # << >>
    BY <1>7, <1>11, <2>1 DEF k, key
  <2>4. key = << >> => q.status = "NOT_FOUND"
    BY <1>7, <2>1 DEF key
  <2> QED
    BY <1>1, <2>1, <2>2, <2>3, <2>4 DEF Promised, q, key
<1>13. /\ job'.cmd = "GET_KEYSLOT" /\ job'.arg1 = "BEST" /\ job'.key_len = k
  BY <1>1, <1>8
<1> QED
  BY <1>3, <1>4, <1>9, <1>10, <1>12, <1>13 DEF HandlerLeaves

(* A key is derived.                                                        *)
LEMMA DeriveLeaves ==
  ASSUME IndInv, NEW c \in Chan, pc = "dispatch", inbox[c] \in Request,
         hwkey_derive(c, inbox[c])
  PROVE  HandlerLeaves(c, inbox[c])
<1> DEFINE m == inbox[c]
           n == Len(m.data)
           version == kdf_version(m.arg1)
<1>1. m \in Request /\ m.cmd = "DERIVE" /\ m.data \in DerivePayloads /\ m.arg1 \in KdfVersion
  BY DEF hwkey_derive, Request
<1>2. /\ req_data' = Received(m.data)
      /\ m.data \in Seq(STRING) /\ n \in 0 .. HWKEY_MAX_PAYLOAD_SIZE
      /\ HWKEY_MAX_PAYLOAD_SIZE \in Nat \ {0}
      /\ Received(m.data) \in [ReqIndex -> Symbol]
  BY RequestFits, KeyAssumption DEF hwkey_derive
<1>3. SubSeq(req_data', 1, n) = m.data
  <2> DEFINE x == SubSeq(req_data', 1, n)
             y == m.data
  <2>1. y \in Seq(STRING) /\ Len(y) = n /\ \A i \in 1 .. n : y[i] \in STRING
    BY <1>2
  <2>2. \A i \in 1 .. n : req_data'[i] = y[i]
    BY <1>1, <1>2, RequestFits
  <2>3. x \in Seq(STRING) /\ Len(x) = n /\ \A i \in 1 .. n : x[i] = y[i]
    BY <1>2, <2>1, <2>2, SubSeqProperties
  <2> HIDE DEF x, y
  <2>4. x = y
    BY <2>1, <2>3, SeqEqual
  <2> QED
    BY <2>4 DEF x, y
<1>4. ASSUME NEW i \in ReqIndex PROVE i \in 1 .. n \/ req_data'[i] \notin IkmSymbol
  <2>1. i \in Nat /\ i >= 1
    BY <1>2 DEF ReqIndex
  <2>2. CASE i > n
    BY <1>1, <1>2, <2>2, HandlerFinds, RequestFits
  <2> QED
    BY <1>2, <2>1, <2>2
<1>5. PICK r \in DeriveResults(c, version, m.data) :
        LET k == IF r.status = "NO_ERROR" THEN n ELSE 0 IN
        /\ key_data' = Filled(r, n)
        /\ job' = [chan |-> c, cmd |-> m.cmd, arg1 |-> version, status |-> r.status,
                   key_len |-> k, req_len |-> n, sent |-> FALSE]
  BY <1>3 DEF hwkey_derive
<1>6. version \in {"V1", "unknown"} /\ (version = "V1" <=> m.arg1 # "unknown")
  BY <1>1 DEF kdf_version, KdfVersion
<1>7. /\ r \in [status : Status, cell : Cell]
      /\ r.status # "NO_ERROR" => r.cell = ZeroCell
      /\ r.status = "NO_ERROR" =>
           r.cell = Derived(uuid[c], m.data) /\ version = "V1" /\ m.data # << >>
      /\ version = "V1" /\ m.data # << >> /\ "caam" \notin Faults => r.status = "NO_ERROR"
  <2>1. Derived(uuid[c], m.data) \in Cell /\ ZeroCell \in Cell
    BY <1>1, HandlerFinds DEF Cell
  <2>2. CASE version = "V1" /\ m.data # << >>
    <3>1. \/ r = [status |-> "NO_ERROR", cell |-> Derived(uuid[c], m.data)]
          \/ r = [status |-> "GENERIC", cell |-> ZeroCell] /\ "caam" \in Faults
      BY <1>5, <2>2 DEF DeriveResults, derive_key_v1
    <3> QED
      BY <2>1, <2>2, <3>1 DEF Status
  <2>3. CASE version = "V1" /\ m.data = << >>
    <3>1. r = [status |-> "BAD_LEN", cell |-> ZeroCell]
      BY <1>5, <2>3 DEF DeriveResults, derive_key_v1
    <3> QED
      BY <2>1, <2>3, <3>1 DEF Status
  <2>4. CASE version # "V1"
    <3>1. r = [status |-> "NOT_IMPLEMENTED", cell |-> ZeroCell]
      BY <1>5, <2>4 DEF DeriveResults
    <3> QED
      BY <2>1, <2>4, <3>1 DEF Status
  <2> QED
    BY <2>2, <2>3, <2>4
<1> DEFINE k == IF r.status = "NO_ERROR" THEN n ELSE 0
<1>8. /\ k \in 0 .. HWKEY_MAX_PAYLOAD_SIZE
      /\ job' = [chan |-> c, cmd |-> m.cmd, arg1 |-> version, status |-> r.status,
                 key_len |-> k, req_len |-> n, sent |-> FALSE]
      /\ key_data' = Filled(r, n)
  BY <1>2, <1>5
<1>9. /\ job' \in Job /\ job'.chan = c /\ job'.sent = FALSE
      /\ job'.cmd = "DERIVE" /\ job'.arg1 = version /\ job'.status = r.status
      /\ job'.key_len = k /\ job'.req_len = n
  <2> HIDE DEF version, k, n
  <2> QED
    BY <1>1, <1>2, <1>6, <1>7, <1>8 DEF Job, KdfVersion, Status
<1>10. /\ key_data' \in [KeyIndex -> Cell]
       /\ \A i \in KeyIndex : i \in 1 .. k \/ key_data'[i] = ZeroCell
       /\ r.status = "NO_ERROR" => \A i \in 1 .. n : i \in KeyIndex /\ key_data'[i] = r.cell
  <2>1. ZeroCell \in Cell
    BY DEF Cell
  <2> QED
    BY <1>1, <1>2, <1>7, <1>8, <2>1, HandlerFinds DEF Filled, KeyIndex
<1>11. /\ k = 0 => SubSeq(key_data', 1, k) = << >>
       /\ r.status = "NO_ERROR" =>
            SubSeq(key_data', 1, k) = [i \in 1 .. n |-> Derived(uuid[c], m.data)]
  <2>1. k = 0 => SubSeq(key_data', 1, k) = << >>
    BY SubSeqEmpty
  <2>2. ASSUME r.status = "NO_ERROR"
        PROVE  SubSeq(key_data', 1, n) = [i \in 1 .. n |-> Derived(uuid[c], m.data)]
    <3>1. /\ SubSeq(key_data', 1, n) \in [1 .. n -> Cell]
          /\ \A i \in 1 .. n : SubSeq(key_data', 1, n)[i] = key_data'[i]
      <4> DEFINE N == HWKEY_MAX_PAYLOAD_SIZE
                 f == key_data'
      <4>1. N \in Nat /\ f \in [1 .. N -> Cell] /\ n \in 0 .. N
        BY <1>2, <1>10 DEF KeyIndex
      <4> HIDE DEF N, f, n
      <4>2. SubSeq(f, 1, n) \in [1 .. n -> Cell] /\ \A i \in 1 .. n : SubSeq(f, 1, n)[i] = f[i]
        BY <4>1, Prefix
      <4> QED
        BY <4>2 DEF f
    <3>2. \A i \in 1 .. n : key_data'[i] = Derived(uuid[c], m.data)
      BY <1>7, <1>10, <2>2
    <3> QED
      BY <3>1, <3>2
  <2> QED
    BY <2>1, <2>2
<1>12. Promised(uuid[c], m, Rsp')
  <2> DEFINE q == Rsp'
             key == [i \in 1 .. Len(m.data) |-> Derived(uuid[c], m.data)]
             good == m.arg1 # "unknown" /\ m.data # << >>
  <2>1. q.cmd = "DERIVE" /\ q.status = r.status /\ q.data = SubSeq(key_data', 1, k)
    BY <1>9 DEF Rsp
  <2> HIDE DEF q, k
  <2>2. q.status # "NO_ERROR" => q.data = << >>
    BY <1>11, <2>1 DEF k
  <2>3. q.status = "NO_ERROR" => good /\ q.data = key
    BY <1>6, <1>7, <1>11, <2>1
  <2>4. good /\ "caam" \notin Faults => q.status = "NO_ERROR"
    BY <1>6, <1>7, <2>1
  <2> QED
    BY <1>1, <2>1, <2>2, <2>3, <2>4 DEF Promised, q
<1> QED
  BY <1>2, <1>4, <1>6, <1>9, <1>10, <1>12 DEF HandlerLeaves

(* A command the service does not know.                                     *)
LEMMA UnsupportedLeaves ==
  ASSUME IndInv, NEW c \in Chan, pc = "dispatch", inbox[c] \in Request,
         hwkey_unsupported(c, inbox[c])
  PROVE  HandlerLeaves(c, inbox[c])
<1> DEFINE m == inbox[c]
           n == Len(m.data)
<1>1. m \in Request /\ m.cmd = "unknown" /\ m.data \in OtherPayloads /\ m.arg1 = "BEST"
  BY DEF hwkey_unsupported, Request
<1>2. /\ req_data' = Received(m.data)
      /\ n \in 0 .. HWKEY_MAX_PAYLOAD_SIZE /\ HWKEY_MAX_PAYLOAD_SIZE \in Nat
      /\ Received(m.data) \in [ReqIndex -> Symbol]
  BY RequestFits, KeyAssumption DEF hwkey_unsupported
<1>3. ASSUME NEW i \in ReqIndex PROVE req_data'[i] \notin IkmSymbol
  <2>1. i \in Nat /\ i >= 1
    BY <1>2 DEF ReqIndex
  <2>2. CASE i > n
    BY <1>1, <1>2, <2>2, HandlerFinds, RequestFits
  <2>3. CASE i <= n
    <3>1. i \in 1 .. n
      BY <1>2, <2>1, <2>3
    <3> QED
      BY <1>1, <1>2, <3>1, NoIkmInNames, RequestFits
  <2> QED
    BY <1>2, <2>1, <2>2, <2>3
<1>4. job' = [chan |-> c, cmd |-> "unknown", arg1 |-> "BEST", status |-> "NOT_IMPLEMENTED",
              key_len |-> 0, req_len |-> n, sent |-> FALSE]
  BY <1>1 DEF hwkey_unsupported
<1>5. job' \in Job
  <2> HIDE DEF n
  <2> QED
    BY <1>2, <1>4 DEF Job, KdfVersion, Status
<1>6. key_data' \in [KeyIndex -> Cell] /\ \A i \in KeyIndex : key_data'[i] = ZeroCell
  BY <1>1, HandlerFinds DEF hwkey_unsupported, Cell
<1>7. Promised(uuid[c], m, Rsp')
  <2>1. /\ Rsp'.cmd = "unknown" /\ Rsp'.status = "NOT_IMPLEMENTED"
        /\ Rsp'.data = SubSeq(key_data', 1, 0)
    BY <1>4 DEF Rsp
  <2>2. SubSeq(key_data', 1, 0) = << >>
    BY SubSeqEmpty
  <2> QED
    BY <1>1, <2>1, <2>2 DEF Promised
<1> QED
  BY <1>2, <1>3, <1>4, <1>5, <1>6, <1>7 DEF HandlerLeaves

----------------------------------------------------------------------------
(* The parts of the type invariant.                                        *)

DataType ==
  /\ ctx \subseteq Chan
  /\ uuid \in [Chan -> Uuid \cup {NoUuid}]
  /\ key_data \in [KeyIndex -> Cell]
  /\ req_data \in [ReqIndex -> Symbol]
  /\ rpmb_keyblob \in BOOLEAN
  /\ kbox \in {"good", "bad_len", "bad_magic", "wiped"}
  /\ job \in Job
  /\ peer \in [Chan -> Uuid \cup {NoUuid}]

AskedBound == \A c \in Chan : Len(asked[c]) <= MaxPending

(* The parts of the type invariant that concern the buffers and the ghost.  *)
LEMMA TypeParts == TypeOK => DataType /\ AskedBound
BY DEF TypeOK, DataType, AskedBound

(* The empty uevent_t is an event.                                          *)
LEMMA NoEventType == NoEvent \in [handle : Handle, event : SUBSET EventBit]
BY DEF NoEvent, Handle

(* The job of a service without a request is a job.                         *)
LEMMA NoJobType == NoJob \in Job
BY KeyAssumption DEF Job, NoJob, KdfVersion, Status

(* The response to a request is a response.                                 *)
LEMMA RspType ==
  ASSUME IndInv, pc = "reply"
  PROVE  Rsp \in Response /\ Rsp # NoMsg
<1>1. /\ job \in Job /\ key_data \in [KeyIndex -> Cell]
      /\ \/ job.cmd = "DERIVE" /\ job.arg1 \in {"V1", "unknown"}
         \/ job.cmd \in {"GET_KEYSLOT", "unknown"} /\ job.arg1 = "BEST"
  BY TypeParts DEF IndInv, DataType, JobSound
<1>2. job.key_len \in 0 .. HWKEY_MAX_PAYLOAD_SIZE /\ job.status \in Status
  BY <1>1 DEF Job
<1>3. SubSeq(key_data, 1, job.key_len) \in [1 .. job.key_len -> Cell]
  BY <1>1, <1>2, Prefix, KeyAssumption DEF KeyIndex
<1>4. SubSeq(key_data, 1, job.key_len) \in RspData
  BY <1>2, <1>3 DEF RspData
<1>5. Rsp \in Response
  BY <1>1, <1>2, <1>4 DEF Rsp, Response
<1> QED
  BY <1>5, MessageAssumption

----------------------------------------------------------------------------
(* The inductive invariant holds initially and is preserved by each step.   *)

(* IndInv holds when the process starts: the buffers are zero.              *)
LEMMA InitInd == Init => IndInv
<1> SUFFICES ASSUME Init PROVE IndInv
  OBVIOUS
<1> USE DEF Init, LoopInit, IpcInit
<1>1. IpcTypeOK(Request \cup {ShortMsg}, Response) /\ LoopTypeOK({"unpacked", "reply", "sanitize"})
  BY NoEventType DEF IpcTypeOK, LoopTypeOK
<1>2. DataType
  <2>1. rpmb_keyblob \in BOOLEAN
    OBVIOUS
  <2> QED
    BY <2>1, NoJobType DEF DataType, Cell, Symbol
<1>3. TypeOK
  BY <1>1, <1>2, KeyAssumption DEF TypeOK, DataType
<1>4. AskedType
  BY DEF AskedType
<1>5. ChannelsSound /\ HangupIsFinal /\ JobSound /\ Pipeline /\ ReplyMatchesRequest
  BY DEF ChannelsSound, HangupIsFinal, JobSound, Pipeline, ReplyMatchesRequest
<1>6. BuffersBounded
  BY NoIkmInNames DEF BuffersBounded
<1> QED
  BY <1>3, <1>4, <1>5, <1>6 DEF IndInv

(* The key box is unpacked and wiped, or the process aborts; the port is    *)
(* created.                                                                 *)
LEMMA UnpackStep ==
  ASSUME IndInv, unpack_kbox
  PROVE  IndInv'
<1> USE DEF unpack_kbox, ipcVars, keyVars, clientVars
<1>1. TypeOK' /\ AskedType'
  <2>1. IpcTypeOK(Request \cup {ShortMsg}, Response)'
    BY DEF IndInv, TypeOK, IpcTypeOK
  <2>2. LoopTypeOK({"unpacked", "reply", "sanitize"})'
    BY NoEventType DEF IndInv, TypeOK, LoopTypeOK
  <2>3. DataType'
    BY TypeParts, NoJobType DEF IndInv, DataType
  <2>4. AskedType' /\ AskedBound'
    BY TypeParts DEF IndInv, AskedType, AskedBound
  <2> QED
    BY <2>1, <2>2, <2>3, <2>4 DEF TypeOK, DataType, AskedBound
<1>2. ChannelsSound'
  BY DEF IndInv, TypeOK, IpcTypeOK, ChannelsSound
<1>3. HangupIsFinal'
  BY DEF IndInv, TypeOK, IpcTypeOK, ChannelsSound, HangupIsFinal
<1>4. JobSound'
  BY DEF IndInv, TypeOK, IpcTypeOK, ChannelsSound, JobSound
<1>5. BuffersBounded'
  BY DEF IndInv, BuffersBounded, SecretKeys, SecretReq
<1>6. Pipeline'
  BY DEF IndInv, TypeOK, IpcTypeOK, AskedType, ChannelsSound, Pipeline, Handled, Replied, InFlight, Rsp
<1>7. ReplyMatchesRequest'
  BY DEF IndInv, TypeOK, IpcTypeOK, ReplyMatchesRequest
<1> QED
  BY <1>1, <1>2, <1>3, <1>4, <1>5, <1>6, <1>7 DEF IndInv

(* hwkey_start_service creates the port and touches no channel.             *)
LEMMA StartServiceStep ==
  ASSUME IndInv, hwkey_start_service
  PROVE  IndInv'
<1> USE DEF hwkey_start_service, ipcVars, keyVars, clientVars
<1>1. TypeOK' /\ AskedType'
  <2>1. IpcTypeOK(Request \cup {ShortMsg}, Response)'
    BY DEF IndInv, TypeOK, IpcTypeOK
  <2>2. LoopTypeOK({"unpacked", "reply", "sanitize"})'
    BY NoEventType DEF IndInv, TypeOK, LoopTypeOK
  <2>3. DataType'
    BY TypeParts, NoJobType DEF IndInv, DataType
  <2>4. AskedType' /\ AskedBound'
    BY TypeParts DEF IndInv, AskedType, AskedBound
  <2> QED
    BY <2>1, <2>2, <2>3, <2>4 DEF TypeOK, DataType, AskedBound
<1>2. ChannelsSound'
  BY DEF IndInv, TypeOK, IpcTypeOK, ChannelsSound
<1>3. HangupIsFinal'
  BY DEF IndInv, TypeOK, IpcTypeOK, ChannelsSound, HangupIsFinal
<1>4. JobSound'
  BY DEF IndInv, TypeOK, IpcTypeOK, ChannelsSound, JobSound
<1>5. BuffersBounded'
  BY DEF IndInv, BuffersBounded, SecretKeys, SecretReq
<1>6. Pipeline'
  BY DEF IndInv, TypeOK, IpcTypeOK, AskedType, ChannelsSound, Pipeline, Handled, Replied, InFlight, Rsp
<1>7. ReplyMatchesRequest'
  BY DEF IndInv, TypeOK, IpcTypeOK, ReplyMatchesRequest
<1> QED
  BY <1>1, <1>2, <1>3, <1>4, <1>5, <1>6, <1>7 DEF IndInv

\* The process ends, from start-up, the loop or a handler's check.
Ended == ProcessEnds /\ ctx' = {} /\ UNCHANGED <<uuid, key_data, req_data, rpmb_keyblob, kbox, clientVars>>
           /\ job' \in {job, NoJob} /\ pc # "reply"

(* The process ends.                                                        *)
LEMMA EndStep ==
  ASSUME IndInv, Ended
  PROVE  IndInv'
<1> USE DEF Ended, ProcessEnds, CloseAll, HangUpConnecting, ipcVars, keyVars, clientVars
<1>1. TypeOK' /\ AskedType'
  <2>1. IpcTypeOK(Request \cup {ShortMsg}, Response)'
    BY DEF IndInv, TypeOK, IpcTypeOK
  <2>2. LoopTypeOK({"unpacked", "reply", "sanitize"})'
    BY NoEventType DEF IndInv, TypeOK, LoopTypeOK
  <2>3. DataType'
    BY TypeParts, NoJobType DEF IndInv, DataType
  <2>4. AskedType' /\ AskedBound'
    BY TypeParts DEF IndInv, AskedType, AskedBound
  <2> QED
    BY <2>1, <2>2, <2>3, <2>4 DEF TypeOK, DataType, AskedBound
<1>2. ChannelsSound'
  BY DEF IndInv, TypeOK, IpcTypeOK, ChannelsSound
<1>3. HangupIsFinal'
  BY DEF IndInv, TypeOK, IpcTypeOK, ChannelsSound, HangupIsFinal
<1>4. JobSound'
  BY DEF IndInv, TypeOK, IpcTypeOK, ChannelsSound, JobSound
<1>5. BuffersBounded'
  BY DEF IndInv, BuffersBounded, SecretKeys, SecretReq
<1>6. Pipeline'
  BY DEF IndInv, TypeOK, IpcTypeOK, AskedType, ChannelsSound, Pipeline, Handled, Replied, InFlight, Rsp
<1>7. ReplyMatchesRequest'
  BY DEF IndInv, TypeOK, IpcTypeOK, ReplyMatchesRequest
<1> QED
  BY <1>1, <1>2, <1>3, <1>4, <1>5, <1>6, <1>7 DEF IndInv

(* wait_any reports a handle.                                               *)
LEMMA WaitStep ==
  ASSUME IndInv, NEW h \in Chan \cup {Port}, Wait(h)
  PROVE  IndInv'
<1> USE DEF Wait, wait_any, Collect, ipcVars, keyVars, clientVars
<1>1. TypeOK' /\ AskedType'
  <2>1. IpcTypeOK(Request \cup {ShortMsg}, Response)'
    BY DEF IndInv, TypeOK, IpcTypeOK
  <2>2. LoopTypeOK({"unpacked", "reply", "sanitize"})'
    <3>1. h \in Handle /\ Poll(h) \cup {"ERROR"} \subseteq EventBit
      BY DEF Handle, Poll, EventBit
    <3>2. /\ [handle |-> h, event |-> Poll(h)] \in [handle : Handle, event : SUBSET EventBit]
          /\ [handle |-> h, event |-> Poll(h) \cup {"ERROR"}] \in [handle : Handle, event : SUBSET EventBit]
      BY <3>1
    <3> QED
      BY <3>2 DEF IndInv, TypeOK, LoopTypeOK
  <2>3. DataType'
    BY TypeParts, NoJobType DEF IndInv, DataType
  <2>4. AskedType' /\ AskedBound'
    BY TypeParts DEF IndInv, AskedType, AskedBound
  <2> QED
    BY <2>1, <2>2, <2>3, <2>4 DEF TypeOK, DataType, AskedBound
<1>2. ChannelsSound'
  BY DEF IndInv, TypeOK, IpcTypeOK, ChannelsSound
<1>3. HangupIsFinal'
  <2>1. \A c \in Chan : "HUP" \in Poll(c) => cli[c] # "open"
    BY HandleAssumption DEF Poll
  <2>2. ev'.handle = h /\ ("HUP" \in ev'.event => "HUP" \in Poll(h))
    OBVIOUS
  <2> QED
    BY <2>1, <2>2 DEF IndInv, TypeOK, IpcTypeOK, HangupIsFinal
<1>4. JobSound'
  BY DEF IndInv, TypeOK, IpcTypeOK, ChannelsSound, JobSound
<1>5. BuffersBounded'
  BY DEF IndInv, BuffersBounded, SecretKeys, SecretReq
<1>6. Pipeline'
  BY DEF IndInv, TypeOK, IpcTypeOK, AskedType, ChannelsSound, Pipeline, Handled, Replied, InFlight, Rsp
<1>7. ReplyMatchesRequest'
  BY DEF IndInv, TypeOK, IpcTypeOK, ReplyMatchesRequest
<1> QED
  BY <1>1, <1>2, <1>3, <1>4, <1>5, <1>6, <1>7 DEF IndInv

\* The ways of the port handler.
Opened(c) == Dispatched(Port) /\ hwkey_new_ctx(c) /\ BackToLoop /\ UNCHANGED <<keyVars, clientVars>>
Refused(c) == Dispatched(Port) /\ Refuse(c) /\ BackToLoop /\ UNCHANGED <<ctx, uuid, keyVars, clientVars>>
NothingToAccept == Dispatched(Port) /\ BackToLoop /\ UNCHANGED <<ipcVars, ctx, uuid, keyVars, clientVars>>

(* A connection is accepted.                                                *)
LEMMA OpenStep ==
  ASSUME IndInv, NEW c \in Chan, Opened(c)
  PROVE  IndInv'
<1> USE DEF Opened, hwkey_new_ctx, Dispatched, Accept, BackToLoop, ipcVars, keyVars, clientVars
<1>1. TypeOK' /\ AskedType'
  <2>1. IpcTypeOK(Request \cup {ShortMsg}, Response)'
    BY DEF IndInv, TypeOK, IpcTypeOK
  <2>2. LoopTypeOK({"unpacked", "reply", "sanitize"})'
    BY NoEventType DEF IndInv, TypeOK, LoopTypeOK
  <2>3. DataType'
    BY TypeParts, NoJobType DEF IndInv, DataType
  <2>4. AskedType' /\ AskedBound'
    BY TypeParts DEF IndInv, AskedType, AskedBound
  <2> QED
    BY <2>1, <2>2, <2>3, <2>4 DEF TypeOK, DataType, AskedBound
<1>2. ChannelsSound'
  BY DEF IndInv, TypeOK, IpcTypeOK, ChannelsSound
<1>3. HangupIsFinal'
  BY DEF IndInv, TypeOK, IpcTypeOK, ChannelsSound, HangupIsFinal
<1>4. JobSound'
  BY DEF IndInv, TypeOK, IpcTypeOK, ChannelsSound, JobSound
<1>5. BuffersBounded'
  BY DEF IndInv, BuffersBounded, SecretKeys, SecretReq
<1>6. Pipeline'
  <2> SUFFICES ASSUME NEW d \in srv', cli'[d] = "open"
               PROVE  /\ inbox'[d] \notin Request => Len(asked'[d]) = Handled(d)'
                      /\ inbox'[d] \in Request => /\ Len(asked'[d]) = Handled(d)' + 1
                                                  /\ asked'[d][Handled(d)' + 1] = inbox'[d]
                      /\ pc' = "reply" /\ job'.chan = d => Promised(peer'[d], asked'[d][Handled(d)'], Rsp')
    BY DEF Pipeline
  <2>1. CASE d = c
    <3>1. asked[c] = << >> /\ outbox[c] = NoMsg /\ inbox[c] = NoMsg
      BY DEF IndInv, ChannelsSound
    <3>2. Handled(d)' = 0
      BY <2>1, <3>1 DEF Handled, Replied, InFlight
    <3> QED
      BY <2>1, <3>1, <3>2, MessageAssumption
  <2>2. CASE d # c
    BY <2>2 DEF IndInv, TypeOK, IpcTypeOK, Pipeline, Handled, Replied, InFlight, Rsp
  <2> QED
    BY <2>1, <2>2
<1>7. ReplyMatchesRequest'
  BY DEF IndInv, TypeOK, IpcTypeOK, ReplyMatchesRequest
<1> QED
  BY <1>1, <1>2, <1>3, <1>4, <1>5, <1>6, <1>7 DEF IndInv

(* A connection is refused, or was withdrawn.                               *)
LEMMA RefuseStep ==
  ASSUME IndInv, NEW c \in Chan, Refused(c)
  PROVE  IndInv'
<1> USE DEF Refused, Dispatched, Refuse, BackToLoop, ipcVars, keyVars, clientVars
<1>1. TypeOK' /\ AskedType'
  <2>1. IpcTypeOK(Request \cup {ShortMsg}, Response)'
    BY DEF IndInv, TypeOK, IpcTypeOK
  <2>2. LoopTypeOK({"unpacked", "reply", "sanitize"})'
    BY NoEventType DEF IndInv, TypeOK, LoopTypeOK
  <2>3. DataType'
    BY TypeParts, NoJobType DEF IndInv, DataType
  <2>4. AskedType' /\ AskedBound'
    BY TypeParts DEF IndInv, AskedType, AskedBound
  <2> QED
    BY <2>1, <2>2, <2>3, <2>4 DEF TypeOK, DataType, AskedBound
<1>2. ChannelsSound'
  BY DEF IndInv, TypeOK, IpcTypeOK, ChannelsSound
<1>3. HangupIsFinal'
  BY DEF IndInv, TypeOK, IpcTypeOK, ChannelsSound, HangupIsFinal
<1>4. JobSound'
  BY DEF IndInv, TypeOK, IpcTypeOK, ChannelsSound, JobSound
<1>5. BuffersBounded'
  BY DEF IndInv, BuffersBounded, SecretKeys, SecretReq
<1>6. Pipeline'
  BY DEF IndInv, TypeOK, IpcTypeOK, AskedType, ChannelsSound, Pipeline, Handled, Replied, InFlight, Rsp
<1>7. ReplyMatchesRequest'
  BY DEF IndInv, TypeOK, IpcTypeOK, ReplyMatchesRequest
<1> QED
  BY <1>1, <1>2, <1>3, <1>4, <1>5, <1>6, <1>7 DEF IndInv

(* hwkey_port_handler finds that the connecting client has gone.            *)
LEMMA NothingStep ==
  ASSUME IndInv, NothingToAccept
  PROVE  IndInv'
<1> USE DEF NothingToAccept, Dispatched, BackToLoop, ipcVars, keyVars, clientVars
<1>1. TypeOK' /\ AskedType'
  <2>1. IpcTypeOK(Request \cup {ShortMsg}, Response)'
    BY DEF IndInv, TypeOK, IpcTypeOK
  <2>2. LoopTypeOK({"unpacked", "reply", "sanitize"})'
    BY NoEventType DEF IndInv, TypeOK, LoopTypeOK
  <2>3. DataType'
    BY TypeParts, NoJobType DEF IndInv, DataType
  <2>4. AskedType' /\ AskedBound'
    BY TypeParts DEF IndInv, AskedType, AskedBound
  <2> QED
    BY <2>1, <2>2, <2>3, <2>4 DEF TypeOK, DataType, AskedBound
<1>2. ChannelsSound'
  BY DEF IndInv, TypeOK, IpcTypeOK, ChannelsSound
<1>3. HangupIsFinal'
  BY DEF IndInv, TypeOK, IpcTypeOK, ChannelsSound, HangupIsFinal
<1>4. JobSound'
  BY DEF IndInv, TypeOK, IpcTypeOK, ChannelsSound, JobSound
<1>5. BuffersBounded'
  BY DEF IndInv, BuffersBounded, SecretKeys, SecretReq
<1>6. Pipeline'
  BY DEF IndInv, TypeOK, IpcTypeOK, AskedType, ChannelsSound, Pipeline, Handled, Replied, InFlight, Rsp
<1>7. ReplyMatchesRequest'
  BY DEF IndInv, TypeOK, IpcTypeOK, ReplyMatchesRequest
<1> QED
  BY <1>1, <1>2, <1>3, <1>4, <1>5, <1>6, <1>7 DEF IndInv

(* A request is read and handled.                                           *)
LEMMA HandleStep ==
  ASSUME IndInv, NEW c \in Chan, hwkey_chan_handle_msg(c)
  PROVE  IndInv'
<1> USE DEF Consume, Dispatched, clientVars
<1>a. /\ HandlerLeaves(c, inbox[c]) /\ c \in srv /\ uuid[c] = peer[c]
      /\ pc = "dispatch" /\ inbox[c] \in Request /\ pc' = "reply"
      /\ UNCHANGED <<ev, ctx, uuid, rpmb_keyblob, kbox, clientVars>>
      /\ Consume(c)
  BY GetKeyslotLeaves, DeriveLeaves, UnsupportedLeaves, HandlerFinds DEF hwkey_chan_handle_msg
<1>1. TypeOK' /\ AskedType'
  <2>1. IpcTypeOK(Request \cup {ShortMsg}, Response)'
    BY <1>a DEF IndInv, TypeOK, IpcTypeOK
  <2>2. LoopTypeOK({"unpacked", "reply", "sanitize"})'
    BY <1>a, NoEventType DEF IndInv, TypeOK, LoopTypeOK
  <2>3. DataType'
    BY <1>a, TypeParts DEF IndInv, DataType, HandlerLeaves
  <2>4. AskedType' /\ AskedBound'
    BY <1>a, TypeParts DEF IndInv, AskedType, AskedBound
  <2> QED
    BY <2>1, <2>2, <2>3, <2>4 DEF TypeOK, DataType, AskedBound
<1>2. ChannelsSound'
  BY <1>a DEF IndInv, TypeOK, IpcTypeOK, ChannelsSound
<1>3. HangupIsFinal'
  BY <1>a DEF IndInv, TypeOK, IpcTypeOK, ChannelsSound, HangupIsFinal
<1>4. JobSound'
  BY <1>a DEF HandlerLeaves, JobSound
<1>5. BuffersBounded'
  BY <1>a DEF HandlerLeaves, BuffersBounded, SecretKeys, SecretReq
<1>6. Pipeline'
  <2> SUFFICES ASSUME NEW d \in srv', cli'[d] = "open"
               PROVE  /\ inbox'[d] \notin Request => Len(asked'[d]) = Handled(d)'
                      /\ inbox'[d] \in Request => /\ Len(asked'[d]) = Handled(d)' + 1
                                                  /\ asked'[d][Handled(d)' + 1] = inbox'[d]
                      /\ pc' = "reply" /\ job'.chan = d => Promised(peer'[d], asked'[d][Handled(d)'], Rsp')
    BY DEF Pipeline
  <2>1. CASE d = c
    <3>1. Handled(c) = Replied(c) /\ Handled(c)' = Replied(c) + 1 /\ Replied(c) \in Nat
      BY <1>a DEF Handled, Replied, InFlight, HandlerLeaves
    <3>2. Len(asked[c]) = Handled(c) + 1 /\ asked[c][Handled(c) + 1] = inbox[c]
      BY <1>a, <2>1 DEF IndInv, Pipeline
    <3>3. inbox'[c] = NoMsg /\ asked' = asked /\ peer' = peer
      BY <1>a DEF IndInv, TypeOK, IpcTypeOK
    <3> QED
      BY <1>a, <2>1, <3>1, <3>2, <3>3, MessageAssumption DEF HandlerLeaves
  <2>2. CASE d # c
    <3>1. inbox'[d] = inbox[d] /\ asked' = asked /\ outbox' = outbox /\ d \in srv /\ cli[d] = "open"
      BY <1>a, <2>2 DEF IndInv, TypeOK, IpcTypeOK
    <3>2. Handled(d)' = Handled(d) /\ job'.chan # d
      BY <1>a, <2>2, <3>1 DEF Handled, Replied, InFlight, HandlerLeaves
    <3> QED
      BY <3>1, <3>2 DEF IndInv, Pipeline
  <2> QED
    BY <2>1, <2>2
<1>7. ReplyMatchesRequest'
  BY <1>a DEF IndInv, TypeOK, IpcTypeOK, ReplyMatchesRequest
<1> QED
  BY <1>1, <1>2, <1>3, <1>4, <1>5, <1>6, <1>7 DEF IndInv

(* A channel is closed by its handler.                                      *)
LEMMA CloseStep ==
  ASSUME IndInv, NEW c \in Chan, hwkey_chan_close(c)
  PROVE  IndInv'
<1> USE DEF hwkey_chan_close, hwkey_ctx_close, CloseChan, Dispatched, BackToLoop, ipcVars, keyVars, clientVars
<1>1. TypeOK' /\ AskedType'
  <2>1. IpcTypeOK(Request \cup {ShortMsg}, Response)'
    BY DEF IndInv, TypeOK, IpcTypeOK
  <2>2. LoopTypeOK({"unpacked", "reply", "sanitize"})'
    BY NoEventType DEF IndInv, TypeOK, LoopTypeOK
  <2>3. DataType'
    BY TypeParts, NoJobType DEF IndInv, DataType
  <2>4. AskedType' /\ AskedBound'
    BY TypeParts DEF IndInv, AskedType, AskedBound
  <2> QED
    BY <2>1, <2>2, <2>3, <2>4 DEF TypeOK, DataType, AskedBound
<1>2. ChannelsSound'
  BY DEF IndInv, TypeOK, IpcTypeOK, ChannelsSound
<1>3. HangupIsFinal'
  BY DEF IndInv, TypeOK, IpcTypeOK, ChannelsSound, HangupIsFinal
<1>4. JobSound'
  BY DEF IndInv, TypeOK, IpcTypeOK, ChannelsSound, JobSound
<1>5. BuffersBounded'
  BY DEF IndInv, BuffersBounded, SecretKeys, SecretReq
<1>6. Pipeline'
  BY DEF IndInv, TypeOK, IpcTypeOK, AskedType, ChannelsSound, Pipeline, Handled, Replied, InFlight, Rsp
<1>7. ReplyMatchesRequest'
  BY DEF IndInv, TypeOK, IpcTypeOK, ReplyMatchesRequest
<1> QED
  BY <1>1, <1>2, <1>3, <1>4, <1>5, <1>6, <1>7 DEF IndInv

\* The ways of a send.
Delivered ==
  /\ pc = "reply" /\ pc' = "sanitize"
  /\ Deliver(job.chan, Rsp) /\ job' = [job EXCEPT !.sent = TRUE]
  /\ UNCHANGED <<ev, ctx, uuid, key_data, req_data, rpmb_keyblob, kbox, clientVars>>
MetFull ==
  /\ pc = "reply" /\ pc' = "sanitize"
  /\ MeetFull(job.chan)
  /\ UNCHANGED <<ev, ctx, uuid, keyVars, clientVars>>
PeerGone ==
  /\ pc = "reply" /\ pc' = "sanitize"
  /\ SendResult(job.chan) = "ERR_CHANNEL_CLOSED"
  /\ UNCHANGED <<ipcVars, ev, ctx, uuid, keyVars, clientVars>>

(* The response is sent.                                                    *)
LEMMA DeliverStep ==
  ASSUME IndInv, Delivered
  PROVE  IndInv'
<1> USE DEF Delivered, Deliver, SendResult, clientVars
<1>1. TypeOK' /\ AskedType'
  <2>1. IpcTypeOK(Request \cup {ShortMsg}, Response)'
    BY RspType DEF IndInv, TypeOK, IpcTypeOK
  <2>2. LoopTypeOK({"unpacked", "reply", "sanitize"})'
    BY NoEventType DEF IndInv, TypeOK, LoopTypeOK
  <2>3. DataType'
    <3>1. job' \in Job
      BY TypeParts DEF IndInv, DataType, Job
    <3> QED
      BY <3>1, TypeParts DEF IndInv, DataType
  <2>4. AskedType' /\ AskedBound'
    BY TypeParts DEF IndInv, AskedType, AskedBound
  <2> QED
    BY <2>1, <2>2, <2>3, <2>4 DEF TypeOK, DataType, AskedBound
<1>2. ChannelsSound'
  BY DEF IndInv, TypeOK, IpcTypeOK, ChannelsSound
<1>3. HangupIsFinal'
  BY DEF IndInv, TypeOK, IpcTypeOK, ChannelsSound, HangupIsFinal
<1>4. JobSound'
  BY DEF IndInv, TypeOK, IpcTypeOK, ChannelsSound, JobSound
<1>5. BuffersBounded'
  BY DEF IndInv, BuffersBounded, SecretKeys, SecretReq
<1>6. Pipeline'
  <2> SUFFICES ASSUME NEW d \in srv', cli'[d] = "open"
               PROVE  /\ inbox'[d] \notin Request => Len(asked'[d]) = Handled(d)'
                      /\ inbox'[d] \in Request => /\ Len(asked'[d]) = Handled(d)' + 1
                                                  /\ asked'[d][Handled(d)' + 1] = inbox'[d]
                      /\ pc' = "reply" /\ job'.chan = d => Promised(peer'[d], asked'[d][Handled(d)'], Rsp')
    BY DEF Pipeline
  <2>1. CASE d = job.chan
    <3>1. /\ outbox[d] = NoMsg /\ outbox'[d] = Rsp /\ Rsp # NoMsg /\ ~job.sent
          /\ job.chan \in srv /\ job'.sent = TRUE /\ inbox' = inbox
      BY <2>1, RspType, TypeParts DEF IndInv, TypeOK, IpcTypeOK, JobSound, DataType, Job
    <3>2. Handled(d) = 1 /\ Handled(d)' = 1
      BY <2>1, <3>1 DEF Handled, Replied, InFlight
    <3> QED
      BY <2>1, <3>1, <3>2 DEF IndInv, Pipeline
  <2>2. CASE d # job.chan
    <3>1. outbox'[d] = outbox[d] /\ job'.chan = job.chan
      BY <2>2, TypeParts DEF IndInv, TypeOK, IpcTypeOK, DataType, Job
    <3>2. Handled(d)' = Handled(d)
      BY <2>2, <3>1 DEF Handled, Replied, InFlight
    <3> QED
      BY <2>2, <3>1, <3>2 DEF IndInv, Pipeline
  <2> QED
    BY <2>1, <2>2
<1>7. ReplyMatchesRequest'
  <2> DEFINE c == job.chan
  <2>1. /\ outbox[c] = NoMsg /\ cli[c] = "open" /\ c \in srv /\ c \in Chan /\ ~job.sent
        /\ outbox' = [outbox EXCEPT ![c] = Rsp] /\ outbox \in [Chan -> Response \cup {NoMsg}]
    BY DEF IndInv, TypeOK, IpcTypeOK, JobSound
  <2>2. Handled(c) = 1
    BY <2>1 DEF Handled, Replied, InFlight
  <2>3. Len(asked[c]) >= 1 /\ Promised(peer[c], asked[c][1], Rsp)
    BY <2>1, <2>2 DEF IndInv, Pipeline
  <2>4. asked[c] # << >> /\ Head(asked[c]) = asked[c][1]
    BY <2>1, <2>3 DEF IndInv, AskedType
  <2>5. ASSUME NEW d \in Chan, outbox'[d] # NoMsg
        PROVE  asked[d] # << >> /\ Promised(peer[d], Head(asked[d]), outbox'[d])
    <3>1. CASE d = c
      BY <2>1, <2>3, <2>4, <3>1
    <3>2. CASE d # c
      BY <2>1, <2>5, <3>2 DEF IndInv, ReplyMatchesRequest
    <3> QED
      BY <3>1, <3>2
  <2> QED
    BY <2>5 DEF ReplyMatchesRequest
<1> QED
  BY <1>1, <1>2, <1>3, <1>4, <1>5, <1>6, <1>7 DEF IndInv

(* The response meets a full buffer, or its client is gone.                 *)
LEMMA FullStep ==
  ASSUME IndInv, MetFull
  PROVE  IndInv'
<1> USE DEF MetFull, MeetFull, SendResult, ipcVars, keyVars, clientVars
<1>1. TypeOK' /\ AskedType'
  <2>1. IpcTypeOK(Request \cup {ShortMsg}, Response)'
    BY DEF IndInv, TypeOK, IpcTypeOK, JobSound
  <2>2. LoopTypeOK({"unpacked", "reply", "sanitize"})'
    BY NoEventType DEF IndInv, TypeOK, LoopTypeOK
  <2>3. DataType'
    BY TypeParts, NoJobType DEF IndInv, DataType
  <2>4. AskedType' /\ AskedBound'
    BY TypeParts DEF IndInv, AskedType, AskedBound
  <2> QED
    BY <2>1, <2>2, <2>3, <2>4 DEF TypeOK, DataType, AskedBound
<1>2. ChannelsSound'
  BY DEF IndInv, TypeOK, IpcTypeOK, ChannelsSound
<1>3. HangupIsFinal'
  BY DEF IndInv, TypeOK, IpcTypeOK, ChannelsSound, HangupIsFinal
<1>4. JobSound'
  BY DEF IndInv, TypeOK, IpcTypeOK, ChannelsSound, JobSound
<1>5. BuffersBounded'
  BY DEF IndInv, BuffersBounded, SecretKeys, SecretReq
<1>6. Pipeline'
  BY DEF IndInv, TypeOK, IpcTypeOK, AskedType, ChannelsSound, Pipeline, Handled, Replied, InFlight, Rsp
<1>7. ReplyMatchesRequest'
  BY DEF IndInv, TypeOK, IpcTypeOK, ReplyMatchesRequest
<1> QED
  BY <1>1, <1>2, <1>3, <1>4, <1>5, <1>6, <1>7 DEF IndInv

(* hwkey_send_rsp fails because the client has gone.                        *)
LEMMA GoneStep ==
  ASSUME IndInv, PeerGone
  PROVE  IndInv'
<1> USE DEF PeerGone, SendResult, ipcVars, keyVars, clientVars
<1>1. TypeOK' /\ AskedType'
  <2>1. IpcTypeOK(Request \cup {ShortMsg}, Response)'
    BY DEF IndInv, TypeOK, IpcTypeOK
  <2>2. LoopTypeOK({"unpacked", "reply", "sanitize"})'
    BY NoEventType DEF IndInv, TypeOK, LoopTypeOK
  <2>3. DataType'
    BY TypeParts, NoJobType DEF IndInv, DataType
  <2>4. AskedType' /\ AskedBound'
    BY TypeParts DEF IndInv, AskedType, AskedBound
  <2> QED
    BY <2>1, <2>2, <2>3, <2>4 DEF TypeOK, DataType, AskedBound
<1>2. ChannelsSound'
  BY DEF IndInv, TypeOK, IpcTypeOK, ChannelsSound
<1>3. HangupIsFinal'
  BY DEF IndInv, TypeOK, IpcTypeOK, ChannelsSound, HangupIsFinal
<1>4. JobSound'
  BY DEF IndInv, TypeOK, IpcTypeOK, ChannelsSound, JobSound
<1>5. BuffersBounded'
  BY DEF IndInv, BuffersBounded, SecretKeys, SecretReq
<1>6. Pipeline'
  BY DEF IndInv, TypeOK, IpcTypeOK, AskedType, ChannelsSound, Pipeline, Handled, Replied, InFlight, Rsp
<1>7. ReplyMatchesRequest'
  BY DEF IndInv, TypeOK, IpcTypeOK, ReplyMatchesRequest
<1> QED
  BY <1>1, <1>2, <1>3, <1>4, <1>5, <1>6, <1>7 DEF IndInv

(* The buffers are zeroed; a response that was not sent closes the channel. *)
LEMMA SanitizeStep ==
  ASSUME IndInv, hwkey_sanitize
  PROVE  IndInv'
<1> USE DEF hwkey_sanitize, hwkey_ctx_close, CloseChan, BackToLoop, ipcVars, clientVars
<1>1. TypeOK' /\ AskedType'
  <2>1. IpcTypeOK(Request \cup {ShortMsg}, Response)'
    BY DEF IndInv, TypeOK, IpcTypeOK
  <2>2. LoopTypeOK({"unpacked", "reply", "sanitize"})'
    BY NoEventType DEF IndInv, TypeOK, LoopTypeOK
  <2>3. DataType'
    <3>1. SanitizedKey \in [KeyIndex -> Cell] /\ SanitizedReq \in [ReqIndex -> Symbol]
      <4>1. ZeroCell \in Cell /\ "0" \in Symbol
        BY DEF Cell, Symbol
      <4> QED
        BY <4>1, TypeParts DEF IndInv, DataType, SanitizedKey, SanitizedReq
    <3> QED
      BY <3>1, TypeParts, NoJobType DEF IndInv, DataType
  <2>4. AskedType' /\ AskedBound'
    BY TypeParts DEF IndInv, AskedType, AskedBound
  <2> QED
    BY <2>1, <2>2, <2>3, <2>4 DEF TypeOK, DataType, AskedBound
<1>2. ChannelsSound'
  BY DEF IndInv, TypeOK, IpcTypeOK, ChannelsSound
<1>3. HangupIsFinal'
  BY DEF IndInv, TypeOK, IpcTypeOK, ChannelsSound, HangupIsFinal
<1>4. JobSound'
  BY DEF IndInv, TypeOK, IpcTypeOK, ChannelsSound, JobSound
<1>5. BuffersBounded'
  <2>1. job \in Job /\ job.key_len \in Nat /\ job.req_len \in Nat
    BY TypeParts, KeyAssumption DEF IndInv, DataType, Job
  <2>2. \A i \in KeyIndex : SanitizedKey[i] = ZeroCell
    BY <2>1 DEF IndInv, BuffersBounded, SecretKeys, SanitizedKey, KeyIndex
  <2>3. \A i \in ReqIndex : SanitizedReq[i] \notin IkmSymbol
    BY <2>1, NoIkmInNames DEF IndInv, BuffersBounded, SecretReq, SanitizedReq, ReqIndex
  <2> QED
    BY <2>2, <2>3 DEF BuffersBounded
<1>6. Pipeline'
  BY DEF IndInv, TypeOK, IpcTypeOK, AskedType, ChannelsSound, Pipeline, Handled, Replied, InFlight, Rsp
<1>7. ReplyMatchesRequest'
  BY DEF IndInv, TypeOK, IpcTypeOK, ReplyMatchesRequest
<1> QED
  BY <1>1, <1>2, <1>3, <1>4, <1>5, <1>6, <1>7 DEF IndInv

(* A client connects, asks, sends less than a header, takes its reply or     *)
(* hangs up.                                                                *)
LEMMA ConnectStep ==
  ASSUME IndInv, NEW c \in Chan, NEW u \in Uuid, ClientConnect(c, u),
         UNCHANGED <<pc, ev, ctx, uuid, keyVars>>
  PROVE  IndInv'
<1> USE DEF ClientConnect, Connect, keyVars
<1>1. TypeOK' /\ AskedType'
  <2>1. IpcTypeOK(Request \cup {ShortMsg}, Response)'
    BY DEF IndInv, TypeOK, IpcTypeOK
  <2>2. LoopTypeOK({"unpacked", "reply", "sanitize"})'
    BY NoEventType DEF IndInv, TypeOK, LoopTypeOK
  <2>3. DataType'
    BY TypeParts, NoJobType DEF IndInv, DataType
  <2>4. AskedType' /\ AskedBound'
    BY TypeParts, KeyAssumption, EmptySeq DEF IndInv, AskedType, AskedBound
  <2> QED
    BY <2>1, <2>2, <2>3, <2>4 DEF TypeOK, DataType, AskedBound
<1>2. ChannelsSound'
  BY DEF IndInv, TypeOK, IpcTypeOK, ChannelsSound
<1>3. HangupIsFinal'
  BY DEF IndInv, TypeOK, IpcTypeOK, ChannelsSound, HangupIsFinal
<1>4. JobSound'
  BY DEF IndInv, TypeOK, IpcTypeOK, ChannelsSound, JobSound
<1>5. BuffersBounded'
  BY DEF IndInv, BuffersBounded, SecretKeys, SecretReq
<1>6. Pipeline'
  BY DEF IndInv, TypeOK, IpcTypeOK, AskedType, ChannelsSound, Pipeline, Handled, Replied, InFlight, Rsp
<1>7. ReplyMatchesRequest'
  BY DEF IndInv, TypeOK, IpcTypeOK, ChannelsSound, ReplyMatchesRequest, AskedType
<1> QED
  BY <1>1, <1>2, <1>3, <1>4, <1>5, <1>6, <1>7 DEF IndInv

(* The client sends a whole request.                                        *)
LEMMA RequestStep ==
  ASSUME IndInv, NEW c \in Chan, NEW m \in Request, ClientRequest(c, m),
         UNCHANGED <<pc, ev, ctx, uuid, keyVars>>
  PROVE  IndInv'
<1> USE DEF ClientRequest, Send, keyVars
<1>1. TypeOK' /\ AskedType'
  <2>1. IpcTypeOK(Request \cup {ShortMsg}, Response)'
    BY DEF IndInv, TypeOK, IpcTypeOK
  <2>2. LoopTypeOK({"unpacked", "reply", "sanitize"})'
    BY NoEventType DEF IndInv, TypeOK, LoopTypeOK
  <2>3. DataType'
    BY TypeParts, NoJobType DEF IndInv, DataType
  <2>4. AskedType' /\ AskedBound'
    BY TypeParts, KeyAssumption, AppendProperties DEF IndInv, AskedType, AskedBound
  <2> QED
    BY <2>1, <2>2, <2>3, <2>4 DEF TypeOK, DataType, AskedBound
<1>2. ChannelsSound'
  BY DEF IndInv, TypeOK, IpcTypeOK, ChannelsSound
<1>3. HangupIsFinal'
  BY DEF IndInv, TypeOK, IpcTypeOK, ChannelsSound, HangupIsFinal
<1>4. JobSound'
  BY DEF IndInv, TypeOK, IpcTypeOK, ChannelsSound, JobSound
<1>5. BuffersBounded'
  BY DEF IndInv, BuffersBounded, SecretKeys, SecretReq
<1>6. Pipeline'
  <2> SUFFICES ASSUME NEW d \in srv', cli'[d] = "open"
               PROVE  /\ inbox'[d] \notin Request => Len(asked'[d]) = Handled(d)'
                      /\ inbox'[d] \in Request => /\ Len(asked'[d]) = Handled(d)' + 1
                                                  /\ asked'[d][Handled(d)' + 1] = inbox'[d]
                      /\ pc' = "reply" /\ job'.chan = d => Promised(peer'[d], asked'[d][Handled(d)'], Rsp')
    BY DEF Pipeline
  <2>1. CASE d = c
    <3>1. /\ asked[c] \in Seq(Request) /\ asked'[c] = Append(asked[c], m)
          /\ inbox[c] = NoMsg /\ inbox'[c] = m /\ c \in srv /\ cli[c] = "open"
      BY DEF IndInv, TypeOK, IpcTypeOK, AskedType
    <3>2. /\ Len(asked'[c]) = Len(asked[c]) + 1 /\ asked'[c][Len(asked[c]) + 1] = m
          /\ \A i \in 1 .. Len(asked[c]) : asked'[c][i] = asked[c][i]
      BY <3>1, AppendProperties
    <3>3. Len(asked[c]) = Handled(c) /\ Handled(c)' = Handled(c)
      BY <3>1, MessageAssumption DEF IndInv, Pipeline, Handled, Replied, InFlight
    <3>4. pc = "reply" /\ job.chan = c => Handled(c) \in 1 .. Len(asked[c])
      BY <3>3 DEF Handled, Replied, InFlight, IndInv, JobSound
    <3>5. peer' = peer /\ Rsp' = Rsp
      BY DEF Rsp
    <3> QED
      BY <2>1, <3>1, <3>2, <3>3, <3>4, <3>5 DEF IndInv, Pipeline
  <2>2. CASE d # c
    <3>1. asked'[d] = asked[d] /\ inbox'[d] = inbox[d]
      BY <2>2 DEF IndInv, TypeOK, IpcTypeOK, AskedType
    <3>2. Handled(d)' = Handled(d) /\ Rsp' = Rsp
      BY DEF Handled, Replied, InFlight, Rsp
    <3> QED
      BY <2>2, <3>1, <3>2 DEF IndInv, Pipeline
  <2> QED
    BY <2>1, <2>2
<1>7. ReplyMatchesRequest'
  BY DEF IndInv, TypeOK, IpcTypeOK, ReplyMatchesRequest
<1> QED
  BY <1>1, <1>2, <1>3, <1>4, <1>5, <1>6, <1>7 DEF IndInv

(* The client sends a message shorter than the header.                      *)
LEMMA ShortStep ==
  ASSUME IndInv, NEW c \in Chan, Send(c, ShortMsg), UNCHANGED clientVars,
         UNCHANGED <<pc, ev, ctx, uuid, keyVars>>
  PROVE  IndInv'
<1> USE DEF Send, clientVars, keyVars
<1>1. TypeOK' /\ AskedType'
  <2>1. IpcTypeOK(Request \cup {ShortMsg}, Response)'
    BY DEF IndInv, TypeOK, IpcTypeOK
  <2>2. LoopTypeOK({"unpacked", "reply", "sanitize"})'
    BY NoEventType DEF IndInv, TypeOK, LoopTypeOK
  <2>3. DataType'
    BY TypeParts, NoJobType DEF IndInv, DataType
  <2>4. AskedType' /\ AskedBound'
    BY TypeParts DEF IndInv, AskedType, AskedBound
  <2> QED
    BY <2>1, <2>2, <2>3, <2>4 DEF TypeOK, DataType, AskedBound
<1>2. ChannelsSound'
  BY DEF IndInv, TypeOK, IpcTypeOK, ChannelsSound
<1>3. HangupIsFinal'
  BY DEF IndInv, TypeOK, IpcTypeOK, ChannelsSound, HangupIsFinal
<1>4. JobSound'
  BY DEF IndInv, TypeOK, IpcTypeOK, ChannelsSound, JobSound
<1>5. BuffersBounded'
  BY DEF IndInv, BuffersBounded, SecretKeys, SecretReq
<1>6. Pipeline'
  BY MessageAssumption DEF IndInv, TypeOK, IpcTypeOK, AskedType, ChannelsSound, Pipeline, Handled, Replied, InFlight, Rsp
<1>7. ReplyMatchesRequest'
  BY DEF IndInv, TypeOK, IpcTypeOK, ReplyMatchesRequest
<1> QED
  BY <1>1, <1>2, <1>3, <1>4, <1>5, <1>6, <1>7 DEF IndInv

(* The client takes a reply.                                                *)
LEMMA TakeStep ==
  ASSUME IndInv, NEW c \in Chan, ClientTake(c),
         UNCHANGED <<pc, ev, ctx, uuid, keyVars>>
  PROVE  IndInv'
<1> USE DEF ClientTake, Recv, keyVars
<1>1. TypeOK' /\ AskedType'
  <2>1. IpcTypeOK(Request \cup {ShortMsg}, Response)'
    BY DEF IndInv, TypeOK, IpcTypeOK
  <2>2. LoopTypeOK({"unpacked", "reply", "sanitize"})'
    BY NoEventType DEF IndInv, TypeOK, LoopTypeOK
  <2>3. DataType'
    BY TypeParts, NoJobType DEF IndInv, DataType
  <2>4. AskedType' /\ AskedBound'
    <3>1. /\ asked[c] \in Seq(Request) /\ asked[c] # << >> /\ Len(asked[c]) <= MaxPending
      BY TypeParts DEF IndInv, AskedType, AskedBound, ReplyMatchesRequest
    <3>2. Tail(asked[c]) \in Seq(Request) /\ Len(Tail(asked[c])) = Len(asked[c]) - 1
      BY <3>1, HeadTailProperties
    <3>3. Len(Tail(asked[c])) <= MaxPending
      BY <3>1, <3>2, KeyAssumption
    <3> QED
      BY <3>2, <3>3, TypeParts DEF IndInv, AskedType, AskedBound
  <2> QED
    BY <2>1, <2>2, <2>3, <2>4 DEF TypeOK, DataType, AskedBound
<1>2. ChannelsSound'
  BY DEF IndInv, TypeOK, IpcTypeOK, ChannelsSound
<1>3. HangupIsFinal'
  BY DEF IndInv, TypeOK, IpcTypeOK, ChannelsSound, HangupIsFinal
<1>4. JobSound'
  BY DEF IndInv, TypeOK, IpcTypeOK, ChannelsSound, JobSound
<1>5. BuffersBounded'
  BY DEF IndInv, BuffersBounded, SecretKeys, SecretReq
<1>6. Pipeline'
  <2> SUFFICES ASSUME NEW d \in srv', cli'[d] = "open"
               PROVE  /\ inbox'[d] \notin Request => Len(asked'[d]) = Handled(d)'
                      /\ inbox'[d] \in Request => /\ Len(asked'[d]) = Handled(d)' + 1
                                                  /\ asked'[d][Handled(d)' + 1] = inbox'[d]
                      /\ pc' = "reply" /\ job'.chan = d => Promised(peer'[d], asked'[d][Handled(d)'], Rsp')
    BY DEF Pipeline
  <2>1. CASE d = c
    <3>1. /\ asked[c] \in Seq(Request) /\ asked[c] # << >> /\ asked'[c] = Tail(asked[c])
          /\ outbox[c] # NoMsg /\ outbox'[c] = NoMsg /\ inbox' = inbox /\ c \in srv /\ cli[c] = "open"
      BY <2>1 DEF IndInv, TypeOK, IpcTypeOK, AskedType, ReplyMatchesRequest
    <3>2. /\ Len(asked'[c]) = Len(asked[c]) - 1 /\ Len(asked[c]) \in Nat
          /\ \A i \in 1 .. Len(asked[c]) - 1 : asked'[c][i] = asked[c][i + 1]
      BY <3>1, TailShifts
    <3>3. Handled(c)' = Handled(c) - 1 /\ Handled(c) \in 1 .. 2
      BY <3>1 DEF Handled, Replied, InFlight
    <3>4. pc = "reply" /\ job.chan = c => Handled(c) = 2
      BY <3>1 DEF Handled, Replied, InFlight, IndInv, JobSound
    <3>5. peer' = peer /\ Rsp' = Rsp
      BY DEF Rsp
    <3>6. CASE inbox[c] \in Request
      <4>1. Len(asked[c]) = Handled(c) + 1 /\ asked[c][Handled(c) + 1] = inbox[c]
        BY <2>1, <3>1, <3>6 DEF IndInv, Pipeline
      <4>2. pc = "reply" /\ job.chan = c => Promised(peer[c], asked[c][Handled(c)], Rsp)
        BY <3>1 DEF IndInv, Pipeline
      <4>3. \A i \in 1 .. 2 : i < Len(asked[c]) => asked'[c][i] = asked[c][i + 1]
        BY <3>2
      <4>4. pc = "reply" /\ job.chan = c => asked'[c][Handled(c)'] = asked[c][Handled(c)]
        BY <3>2, <3>3, <3>4, <4>1, <4>3
      <4>5. asked'[c][Handled(c)] = inbox[c] /\ Handled(c)' + 1 = Handled(c)
        <5> DEFINE n == Handled(c)
        <5>1. n \in 1 .. 2 /\ n < Len(asked[c]) /\ asked[c][n + 1] = inbox[c] /\ Handled(c)' + 1 = n
          BY <3>2, <3>3, <4>1
        <5> HIDE DEF n
        <5>2. asked'[c][n] = asked[c][n + 1]
          BY <4>3, <5>1
        <5> QED
          BY <5>1, <5>2 DEF n
      <4>6. inbox'[c] = inbox[c] /\ Len(asked'[c]) = Handled(c)' + 1
        BY <3>1, <3>2, <3>3, <4>1
      <4> QED
        BY <2>1, <3>5, <3>6, <4>2, <4>4, <4>5, <4>6
    <3>7. CASE inbox[c] \notin Request
      <4>1. Len(asked[c]) = Handled(c)
        BY <2>1, <3>1, <3>7 DEF IndInv, Pipeline
      <4>2. pc = "reply" /\ job.chan = c => Promised(peer[c], asked[c][Handled(c)], Rsp)
        BY <3>1 DEF IndInv, Pipeline
      <4>3. \A i \in 1 .. 2 : i < Len(asked[c]) => asked'[c][i] = asked[c][i + 1]
        BY <3>2
      <4>4. pc = "reply" /\ job.chan = c => asked'[c][Handled(c)'] = asked[c][Handled(c)]
        BY <3>2, <3>3, <3>4, <4>1, <4>3
      <4> QED
        BY <2>1, <3>1, <3>2, <3>3, <3>5, <3>7, <4>1, <4>2, <4>3, <4>4
    <3> QED
      BY <3>6, <3>7
  <2>2. CASE d # c
    <3>1. asked'[d] = asked[d] /\ outbox'[d] = outbox[d]
      BY <2>2 DEF IndInv, TypeOK, IpcTypeOK, AskedType
    <3>2. Handled(d)' = Handled(d) /\ Rsp' = Rsp
      BY <3>1 DEF Handled, Replied, InFlight, Rsp
    <3> QED
      BY <2>2, <3>1, <3>2 DEF IndInv, Pipeline
  <2> QED
    BY <2>1, <2>2
<1>7. ReplyMatchesRequest'
  BY DEF IndInv, TypeOK, IpcTypeOK, ReplyMatchesRequest
<1> QED
  BY <1>1, <1>2, <1>3, <1>4, <1>5, <1>6, <1>7 DEF IndInv

(* The client hangs up.                                                     *)
LEMMA HangupStep ==
  ASSUME IndInv, NEW c \in Chan, ClientHangup(c),
         UNCHANGED <<pc, ev, ctx, uuid, keyVars>>
  PROVE  IndInv'
<1> USE DEF ClientHangup, Disconnect, keyVars
<1>1. TypeOK' /\ AskedType'
  <2>1. IpcTypeOK(Request \cup {ShortMsg}, Response)'
    BY DEF IndInv, TypeOK, IpcTypeOK
  <2>2. LoopTypeOK({"unpacked", "reply", "sanitize"})'
    BY NoEventType DEF IndInv, TypeOK, LoopTypeOK
  <2>3. DataType'
    BY TypeParts, NoJobType DEF IndInv, DataType
  <2>4. AskedType' /\ AskedBound'
    BY TypeParts, KeyAssumption, EmptySeq DEF IndInv, AskedType, AskedBound
  <2> QED
    BY <2>1, <2>2, <2>3, <2>4 DEF TypeOK, DataType, AskedBound
<1>2. ChannelsSound'
  BY DEF IndInv, TypeOK, IpcTypeOK, AskedType, ChannelsSound
<1>3. HangupIsFinal'
  BY DEF IndInv, TypeOK, IpcTypeOK, ChannelsSound, HangupIsFinal
<1>4. JobSound'
  BY DEF IndInv, TypeOK, IpcTypeOK, ChannelsSound, JobSound
<1>5. BuffersBounded'
  BY DEF IndInv, BuffersBounded, SecretKeys, SecretReq
<1>6. Pipeline'
  BY DEF IndInv, TypeOK, IpcTypeOK, AskedType, ChannelsSound, Pipeline, Handled, Replied, InFlight, Rsp
<1>7. ReplyMatchesRequest'
  BY DEF IndInv, TypeOK, IpcTypeOK, ReplyMatchesRequest
<1> QED
  BY <1>1, <1>2, <1>3, <1>4, <1>5, <1>6, <1>7 DEF IndInv

----------------------------------------------------------------------------
(* Every step is one of these.                                              *)

ServerStep(c) == \/ Opened(c) \/ Refused(c) \/ hwkey_chan_handle_msg(c) \/ hwkey_chan_close(c)

ClientStep(c) == /\ \/ \E u \in Uuid : ClientConnect(c, u)
                    \/ \E m \in Request : ClientRequest(c, m)
                    \/ Send(c, ShortMsg) /\ UNCHANGED clientVars
                    \/ ClientTake(c)
                    \/ ClientHangup(c)
                 /\ UNCHANGED <<pc, ev, ctx, uuid, keyVars>>

(* What a step may be: one of the service, of a client, or none.            *)
LEMMA StepCases ==
  ASSUME IndInv, [Next]_vars
  PROVE  \/ UNCHANGED vars
         \/ unpack_kbox
         \/ hwkey_start_service
         \/ Ended
         \/ \E h \in Chan \cup {Port} : Wait(h)
         \/ NothingToAccept
         \/ \E c \in Chan : ServerStep(c)
         \/ Delivered \/ MetFull \/ PeerGone
         \/ hwkey_sanitize
         \/ \E c \in Chan : ClientStep(c)
<1>1. CASE hwkey_port_handler
  BY <1>1 DEF hwkey_port_handler, Opened, Refused, NothingToAccept, ServerStep
<1>2. CASE hwkey_send_rsp
  BY <1>2 DEF hwkey_send_rsp, Delivered, MetFull, PeerGone, keyVars, MeetFull
<1>3. CASE unpack_kbox_abort
  <2>1. ctx = {}
    BY <1>3 DEF unpack_kbox_abort, IndInv, ChannelsSound
  <2> QED
    BY <1>3, <2>1 DEF unpack_kbox_abort, Ended, keyVars
<1>4. CASE (wait_any_failed \/ tipc_handle_errors) /\ ForgetAll
  BY <1>4 DEF wait_any_failed, tipc_handle_errors, ForgetAll, Ended
<1>5. ASSUME NEW c \in Chan, Client(c) PROVE ClientStep(c)
  BY <1>5 DEF Client, ClientStep
<1> QED
  BY <1>1, <1>2, <1>3, <1>4, <1>5 DEF Next, Start, HandleEvent, ServerStep

(* A stuttering step keeps IndInv.                                          *)
LEMMA StutterStep ==
  ASSUME IndInv, UNCHANGED vars
  PROVE  IndInv'
<1> USE DEF vars, ipcVars, keyVars, clientVars
<1>1. TypeOK' /\ AskedType' /\ ChannelsSound' /\ HangupIsFinal' /\ JobSound'
  BY DEF IndInv, TypeOK, IpcTypeOK, LoopTypeOK, AskedType, ChannelsSound, HangupIsFinal, JobSound
<1>2. BuffersBounded' /\ Pipeline' /\ ReplyMatchesRequest'
  BY DEF IndInv, BuffersBounded, SecretKeys, SecretReq, Pipeline, Handled, Replied, InFlight, Rsp,
       ReplyMatchesRequest
<1> QED
  BY <1>1, <1>2 DEF IndInv

(* Every step of the service and of its clients keeps IndInv.               *)
LEMMA StepInd == IndInv /\ [Next]_vars => IndInv'
<1> SUFFICES ASSUME IndInv, [Next]_vars PROVE IndInv'
  OBVIOUS
<1>1. ASSUME NEW c \in Chan, ServerStep(c) PROVE IndInv'
  BY <1>1, OpenStep, RefuseStep, HandleStep, CloseStep DEF ServerStep
<1>2. ASSUME NEW c \in Chan, ClientStep(c) PROVE IndInv'
  BY <1>2, ConnectStep, RequestStep, ShortStep, TakeStep, HangupStep DEF ClientStep
<1> QED
  BY <1>1, <1>2, StepCases, StutterStep, UnpackStep, StartServiceStep, EndStep, WaitStep, NothingStep,
     DeliverStep, FullStep, GoneStep, SanitizeStep

(* IndInv holds in every reachable state.                                   *)
THEOREM Inductive == Spec => []IndInv
BY InitInd, StepInd, PTL DEF Spec

----------------------------------------------------------------------------
(* The properties.                                                         *)

(* Type correctness: lengths stay within the two static buffers, and every  *)
(* reply is a well-formed hwkey_msg.                                        *)
THEOREM TypeCorrect == Spec => []TypeOK
<1>1. IndInv => TypeOK
  BY DEF IndInv
<1> QED
  BY <1>1, Inductive, PTL

(* Between two events no key and no input key material is left in key_data  *)
(* and req_data.                                                            *)
THEOREM BuffersAreClean == Spec => []BuffersClean
<1>1. IndInv => BuffersClean
  BY DEF IndInv, BuffersBounded, SecretKeys, SecretReq, BuffersClean
<1> QED
  BY <1>1, Inductive, PTL

(* Every reply answers the oldest request of its own client with that       *)
(* client's key and nothing else.                                           *)
THEOREM RepliesMatch == Spec => []ReplyMatchesRequest
<1>1. IndInv => ReplyMatchesRequest
  BY DEF IndInv
<1> QED
  BY <1>1, Inductive, PTL

(* The service closes a channel only for a reason its client gave, and a    *)
(* client that takes each reply before it asks again gives none.            *)
THEOREM DropsHaveCause == Spec => DropsOnlyForCause
<1> DEFINE Cause == /\ \A c \in srv \ srv' : \/ cli[c] # "open" \/ inbox[c] = ShortMsg
                                                \/ c \in blocked \cup unblocked
                                                \/ pc' = "exited"
                    /\ \A c \in blocked' \ blocked : Len(asked[c]) > 1
<1>1. ASSUME IndInv, [Next]_vars PROVE [Cause]_vars
  <2>1. CASE Ended
    BY <1>1, <2>1 DEF Ended, ProcessEnds, CloseAll
  <2>2. ASSUME NEW c \in Chan, hwkey_chan_close(c) PROVE Cause
    BY <1>1, <2>2 DEF IndInv, HangupIsFinal, hwkey_chan_close, hwkey_ctx_close, CloseChan, Dispatched
  <2>3. CASE hwkey_sanitize
    BY <1>1, <2>3 DEF IndInv, JobSound, hwkey_sanitize, hwkey_ctx_close, CloseChan, ipcVars
  <2>4. CASE MetFull
    <3> DEFINE c == job.chan
    <3>1. /\ c \in srv /\ cli[c] = "open" /\ outbox[c] # NoMsg /\ ~job.sent
          /\ srv' = srv /\ blocked' = blocked \cup {c}
      BY <1>1, <2>4 DEF IndInv, JobSound, MetFull, MeetFull, SendResult
    <3>2. Handled(c) = 2
      BY <2>4, <3>1 DEF MetFull, Handled, Replied, InFlight
    <3>3. Len(asked[c]) > 1
      BY <1>1, <3>1, <3>2 DEF IndInv, Pipeline
    <3> QED
      BY <3>1, <3>3
  <2>5. ASSUME NEW c \in Chan, Opened(c) \/ Refused(c) \/ hwkey_chan_handle_msg(c)
        PROVE  Cause
    BY <2>5 DEF Opened, hwkey_new_ctx, Accept, Refused, Refuse, hwkey_chan_handle_msg, Consume
  <2>6. ASSUME NEW c \in Chan, ClientStep(c) PROVE Cause
    BY <2>6 DEF ClientStep, ClientConnect, Connect, ClientRequest, Send, ClientTake, Recv, ClientHangup,
         Disconnect
  <2>7. ASSUME NEW h \in Chan \cup {Port}, Wait(h) PROVE Cause
    BY <2>7 DEF Wait, wait_any, Collect
  <2>8. CASE unpack_kbox \/ hwkey_start_service \/ NothingToAccept \/ Delivered \/ PeerGone
    BY <2>8 DEF unpack_kbox, hwkey_start_service, NothingToAccept, Delivered, Deliver, PeerGone, ipcVars
  <2> QED
    BY <1>1, <2>1, <2>2, <2>3, <2>4, <2>5, <2>6, <2>7, <2>8, StepCases DEF ServerStep
<1> QED
  BY <1>1, Inductive, PTL DEF Spec, DropsOnlyForCause

(* The service implements KeyService, step by step: a reply that is sent is *)
(* an Answer, a channel that is closed a Drop, and everything the handlers  *)
(* do in between is invisible.                                              *)
THEOREM KeyServiceImplemented == Spec => ImplementsKeyService
<1>1. Init => Service!ServiceInit
  BY DEF Init, LoopInit, IpcInit, Service!ServiceInit
<1>2. ASSUME IndInv, [Next]_vars
      PROVE  [Service!ServiceNext]_(Service!svcVars)
  <2> USE DEF Service!svcVars
  <2>1. CASE \/ UNCHANGED vars \/ unpack_kbox \/ hwkey_start_service \/ NothingToAccept
             \/ MetFull \/ PeerGone
    BY <2>1 DEF vars, ipcVars, clientVars, unpack_kbox, hwkey_start_service, NothingToAccept, MetFull,
         MeetFull, PeerGone
  <2>2. ASSUME NEW h \in Chan \cup {Port}, Wait(h) PROVE UNCHANGED Service!svcVars
    BY <2>2 DEF Wait, wait_any, Collect, clientVars
  <2>3. CASE Ended
    <3>1. Service!Drop(ctx)
      BY <2>3 DEF Ended, ProcessEnds, CloseAll, clientVars, Service!Drop
    <3> QED
      BY <3>1 DEF Service!ServiceNext
  <2>4. ASSUME NEW c \in Chan, Opened(c) PROVE Service!ServiceNext
    <3>1. Service!Open(c)
      BY <1>2, <2>4 DEF Opened, hwkey_new_ctx, Accept, clientVars, IndInv, ChannelsSound, Service!Open
    <3> QED
      BY <3>1 DEF Service!ServiceNext
  <2>5. ASSUME NEW c \in Chan, Refused(c) \/ hwkey_chan_handle_msg(c) PROVE UNCHANGED Service!svcVars
    BY <2>5 DEF Refused, Refuse, hwkey_chan_handle_msg, Consume, clientVars
  <2>6. ASSUME NEW c \in Chan, hwkey_chan_close(c) PROVE Service!ServiceNext
    <3>1. Service!Drop(ctx \cap {c})
      BY <2>6 DEF hwkey_chan_close, hwkey_ctx_close, CloseChan, clientVars, Service!Drop
    <3> QED
      BY <3>1 DEF Service!ServiceNext
  <2>7. CASE hwkey_sanitize
    <3>1. CASE job.sent
      BY <2>7, <3>1 DEF hwkey_sanitize, ipcVars, clientVars
    <3>2. CASE ~job.sent
      <4>1. Service!Drop(ctx \cap {job.chan})
        BY <2>7, <3>2 DEF hwkey_sanitize, hwkey_ctx_close, CloseChan, clientVars, Service!Drop
      <4> QED
        BY <4>1 DEF Service!ServiceNext
    <3> QED
      BY <3>1, <3>2
  <2>8. CASE Delivered
    <3> DEFINE c == job.chan
    <3>1. /\ c \in Chan /\ c \in ctx /\ outbox[c] = NoMsg
          /\ outbox' = [outbox EXCEPT ![c] = Rsp] /\ outbox \in [Chan -> Response \cup {NoMsg}]
          /\ Rsp # NoMsg
          /\ UNCHANGED <<ctx, peer, asked>>
      BY <1>2, <2>8, RspType DEF Delivered, Deliver, SendResult, clientVars, IndInv, TypeOK, IpcTypeOK,
           ChannelsSound, JobSound
    <3>2. outbox'[c] = Rsp /\ \A d \in Chan \ {c} : outbox'[d] = outbox[d]
      BY <3>1
    <3>3. asked[c] # << >> /\ Promised(peer[c], Head(asked[c]), outbox'[c])
      BY <1>2, <2>8, <3>1, <3>2, DeliverStep DEF IndInv, ReplyMatchesRequest
    <3>4. Service!Answer(c)
      BY <3>1, <3>2, <3>3 DEF Service!Answer
    <3> QED
      BY <3>1, <3>4 DEF Service!ServiceNext
  <2>9. ASSUME NEW c \in Chan, ClientStep(c) PROVE [Service!ServiceNext]_(Service!svcVars)
    <3>1. ASSUME NEW u \in Uuid, ClientConnect(c, u) PROVE Service!ServiceNext
      <4>1. Service!Call(c, u)
        BY <1>2, <2>9, <3>1 DEF ClientStep, ClientConnect, Connect, IndInv, ChannelsSound, Service!Call
      <4> QED
        BY <4>1 DEF Service!ServiceNext
    <3>2. ASSUME NEW m \in Request, ClientRequest(c, m) PROVE Service!ServiceNext
      <4>1. Service!Ask(c, m)
        BY <1>2, <2>9, <3>2 DEF ClientStep, ClientRequest, Send, IndInv, ChannelsSound, Service!Ask
      <4> QED
        BY <4>1 DEF Service!ServiceNext
    <3>3. CASE Send(c, ShortMsg) /\ UNCHANGED clientVars
      BY <2>9, <3>3 DEF ClientStep, Send, clientVars
    <3>4. CASE ClientTake(c)
      <4>1. Service!Take(c)
        BY <2>9, <3>4 DEF ClientStep, ClientTake, Recv, Service!Take
      <4> QED
        BY <4>1 DEF Service!ServiceNext
    <3>5. CASE ClientHangup(c)
      <4>1. Service!Hangup(c)
        BY <2>9, <3>5 DEF ClientStep, ClientHangup, Disconnect, Service!Hangup
      <4> QED
        BY <4>1 DEF Service!ServiceNext
    <3> QED
      BY <2>9, <3>1, <3>2, <3>3, <3>4, <3>5 DEF ClientStep
  <2> QED
    BY <1>2, <2>1, <2>2, <2>3, <2>4, <2>5, <2>6, <2>7, <2>8, <2>9, StepCases DEF ServerStep
<1> QED
  BY <1>1, <1>2, Inductive, PTL DEF Spec, ImplementsKeyService, Service!ServiceSpec
=============================================================================
