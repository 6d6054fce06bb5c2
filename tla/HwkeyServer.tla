---------------------------- MODULE HwkeyServer ----------------------------
(***************************************************************************)
(* The HWKEY service of the hwcrypto application (hwkey_srv.c,              *)
(* hwkey_srv_provider.c) run by the event loop of main.c.                   *)
(*                                                                          *)
(* Buffers are kept cell by cell, since what matters is which cells a       *)
(* request leaves behind: a payload is a short sequence of symbols, "0" is  *)
(* the terminating zero, and a cell of key material names the key it        *)
(* belongs to.  RPMB_SS_AUTH_KEY_SIZE and the unittest key are one cell.    *)
(***************************************************************************)
EXTENDS EventLoop, Integers, Sequences, FiniteSetsExt

CONSTANTS Uuid,                     \* clients
          ss_uuid,                  \* the secure storage server
          hwcrypto_unittest_uuid,
          HWKEY_MAX_PAYLOAD_SIZE,   \* cells
          GetPayloads,              \* payloads of HWKEY_GET_KEYSLOT requests
          DerivePayloads,           \* payloads of HWKEY_DERIVE requests
          OtherPayloads,            \* payloads of unknown commands
          ShortMsg,                 \* a message shorter than hwkey_msg
          NoUuid,
          WITH_HWCRYPTO_UNITTEST,   \* build option
          MaxPending                \* bound: requests a client has outstanding

ASSUME KeyAssumption ==
  /\ HWKEY_MAX_PAYLOAD_SIZE \in Nat \ {0}
  /\ MaxPending \in Nat
  /\ {ss_uuid, hwcrypto_unittest_uuid} \subseteq Uuid
  /\ NoUuid \notin Uuid
  /\ WITH_HWCRYPTO_UNITTEST \in BOOLEAN
  /\ \A p \in GetPayloads \cup DerivePayloads \cup OtherPayloads :
       p \in Seq(STRING) /\ Len(p) <= HWKEY_MAX_PAYLOAD_SIZE

VARIABLES
  ctx,          \* channels with an allocated hwkey_chan_ctx
  uuid,         \* ctx->uuid
  key_data,     \* the key buffer
  req_data,     \* the request buffer, one cell longer than a payload
  rpmb_keyblob, \* was an RPMB key blob found in the key box?
  kbox,         \* the key box in secure RAM: "good", "bad_len", "bad_magic", "wiped"
  job,          \* the request being handled: its response header and lengths
  peer,         \* the client at the other end of a channel
  asked         \* ghost: requests of a channel without a reply taken, in order

keyVars == <<key_data, req_data, rpmb_keyblob, kbox, job>>
clientVars == <<peer, asked>>
vars == <<ipcVars, pc, ev, ctx, uuid, keyVars, clientVars>>

\* A cell of key material: which key, whose, derived from what.
ZeroCell == <<"zero", NoUuid, << >> >>
Derived(u, ikm) == <<"derived", u, ikm>>
RpmbCell == <<"rpmb", NoUuid, << >> >>
UnittestCell == <<"unittest", NoUuid, << >> >>

Cell == {ZeroCell, RpmbCell, UnittestCell}
          \cup {Derived(u, p) : u \in Uuid, p \in DerivePayloads}

KeyIndex == 1 .. HWKEY_MAX_PAYLOAD_SIZE
ReqIndex == 1 .. HWKEY_MAX_PAYLOAD_SIZE + 1

KdfVersion == {"BEST", "V1", "unknown"}
Status == {"NO_ERROR", "GENERIC", "NOT_FOUND", "NOT_IMPLEMENTED", "BAD_LEN"}

Request == [cmd : {"GET_KEYSLOT"}, arg1 : {"BEST"}, data : GetPayloads]
             \cup [cmd : {"DERIVE"}, arg1 : KdfVersion, data : DerivePayloads]
             \cup [cmd : {"unknown"}, arg1 : {"BEST"}, data : OtherPayloads]

RspData == UNION {[1 .. n -> Cell] : n \in 0 .. HWKEY_MAX_PAYLOAD_SIZE}

Response == [cmd : {"DERIVE"}, arg1 : {"V1", "unknown"}, status : Status, data : RspData]
              \cup [cmd : {"GET_KEYSLOT", "unknown"}, arg1 : {"BEST"}, status : Status, data : RspData]

ASSUME MessageAssumption == NoMsg \notin Request \cup Response \cup {ShortMsg} /\ ShortMsg \notin Request

\* The symbols payloads are made of.
SymbolsOf(P) == UNION {{p[i] : i \in 1 .. Len(p)} : p \in P}

Symbol == {"0"} \cup SymbolsOf(GetPayloads \cup DerivePayloads \cup OtherPayloads)

NoJob == [chan |-> NoHandle, cmd |-> "none", arg1 |-> "BEST", status |-> "NO_ERROR",
          key_len |-> 0, req_len |-> 0, sent |-> TRUE]

Job == [chan : Chan \cup {NoHandle}, cmd : {"none", "GET_KEYSLOT", "DERIVE", "unknown"},
        arg1 : KdfVersion, status : Status, key_len : 0 .. HWKEY_MAX_PAYLOAD_SIZE,
        req_len : 0 .. HWKEY_MAX_PAYLOAD_SIZE, sent : BOOLEAN]

TypeOK ==
  /\ IpcTypeOK(Request \cup {ShortMsg}, Response)
  /\ LoopTypeOK({"unpacked", "reply", "sanitize"})
  /\ ctx \subseteq Chan
  /\ uuid \in [Chan -> Uuid \cup {NoUuid}]
  /\ key_data \in [KeyIndex -> Cell]
  /\ req_data \in [ReqIndex -> Symbol]
  /\ rpmb_keyblob \in BOOLEAN
  /\ kbox \in {"good", "bad_len", "bad_magic", "wiped"}
  /\ job \in Job
  /\ peer \in [Chan -> Uuid \cup {NoUuid}]
  /\ \A c \in Chan : Len(asked[c]) <= MaxPending

Init ==
  /\ LoopInit
  /\ ctx = {}
  /\ uuid = [c \in Chan |-> NoUuid]
  /\ key_data = [i \in KeyIndex |-> ZeroCell]
  /\ req_data = [i \in ReqIndex |-> "0"]
  /\ rpmb_keyblob = FALSE
  /\ kbox \in {"good", "bad_len", "bad_magic"}
  /\ job = NoJob
  /\ peer = [c \in Chan |-> NoUuid]
  /\ asked = [c \in Chan |-> << >>]

----------------------------------------------------------------------------
(* Start-up.                                                               *)

\* unpack_kbox aborts on a bad magic or when the root key cannot be derived.
unpack_kbox ==
  /\ pc = "start"
  /\ kbox # "bad_magic"
  /\ rpmb_keyblob' = (kbox = "good")
  /\ kbox' = "wiped"
  /\ pc' = "unpacked"
  /\ UNCHANGED <<ipcVars, ev, ctx, uuid, key_data, req_data, job, clientVars>>

unpack_kbox_abort ==
  /\ pc = "start"
  /\ kbox = "bad_magic" \/ "caam" \in Faults
  /\ ProcessEnds
  /\ UNCHANGED <<ctx, uuid, keyVars, clientVars>>

\* hwkey_install_keys, then hwkey_start_service: unlike the HWRNG service it
\* closes a port it cannot set the cookie of.
hwkey_start_service ==
  /\ pc = "unpacked"
  /\ \/ port' = "ready"
     \/ Faults \cap {"port_create", "port_cookie"} # {} /\ port' = "absent"
  /\ pc' = "wait"
  /\ UNCHANGED <<cli, srv, inbox, outbox, blocked, unblocked, ev, ctx, uuid, keyVars, clientVars>>

----------------------------------------------------------------------------
(* The port handler.                                                       *)

hwkey_new_ctx(c) ==
  /\ Accept(c)
  /\ ctx' = ctx \cup {c}
  /\ uuid' = [uuid EXCEPT ![c] = peer[c]]

hwkey_port_handler ==
  /\ Dispatched(Port)
  /\ \/ \E c \in Chan : hwkey_new_ctx(c)
     \/ \E c \in Chan :
          /\ Faults \cap {"accept", "ctx_setup"} # {}
          /\ Refuse(c)
          /\ UNCHANGED <<ctx, uuid>>
     \/ Poll(Port) = {} /\ UNCHANGED <<ipcVars, ctx, uuid>>
  /\ BackToLoop
  /\ UNCHANGED <<keyVars, clientVars>>

----------------------------------------------------------------------------
(* Key slots.                                                              *)

\* The string strcmp sees at the start of a buffer.
CString(buf) ==
  SubSeq(buf, 1, Min({i \in 1 .. Len(buf) : buf[i] = "0"} \cup {Len(buf) + 1}) - 1)

RpmbId == <<"r">>
UnittestId == <<"r", "u">>

key_slots == <<[uuid |-> ss_uuid, key_id |-> RpmbId, key |-> RpmbCell]>>
test_key_slots ==
  <<[uuid |-> hwcrypto_unittest_uuid, key_id |-> UnittestId, key |-> UnittestCell]>>

NotFound == [status |-> "NOT_FOUND", cell |-> ZeroCell]

\* The handlers of the slots: get_rpmb_ss_auth_key, get_unittest_key32.
SlotResults(slot) ==
  IF slot.key = RpmbCell /\ ~rpmb_keyblob THEN {NotFound}
  ELSE {[status |-> "NO_ERROR", cell |-> slot.key]}
         \cup {r \in {[status |-> "GENERIC", cell |-> ZeroCell]} :
                 slot.key = RpmbCell /\ "caam" \in Faults}

\* The first slot with this name that the caller may use.
handle_slots(u, slot_id, slots) ==
  LET hits == {i \in 1 .. Len(slots) : slots[i].key_id = slot_id /\ slots[i].uuid = u}
  IN  IF hits = {} THEN {NotFound} ELSE SlotResults(slots[Min(hits)])

SlotLookup(u, slot_id) ==
  UNION {IF r.status = "NOT_FOUND" /\ WITH_HWCRYPTO_UNITTEST
         THEN handle_slots(u, slot_id, test_key_slots) ELSE {r} :
           r \in handle_slots(u, slot_id, key_slots)}

----------------------------------------------------------------------------
(* The channel handler: receive and compute, send, sanitize.                *)

\* tipc_recv_two_segments copies the payload and leaves the rest of the buffer.
Received(data) == [i \in ReqIndex |-> IF i <= Len(data) THEN data[i] ELSE req_data[i]]

\* The key buffer after a handler with result r was to write n cells: it
\* writes the key, wipes what it wrote before it failed, or writes nothing.
Filled(r, n) ==
  [i \in KeyIndex |-> IF i <= n /\ r.status \in {"NO_ERROR", "GENERIC"} THEN r.cell
                      ELSE key_data[i]]

\* Mutant: no zero termination of the slot name.
hwkey_get_keyslot_unterminated(c, m) ==
  /\ m.cmd = "GET_KEYSLOT"
  /\ req_data' = Received(m.data)
  /\ \E r \in SlotLookup(uuid[c], CString(req_data')) :
       LET n == IF r.status = "NO_ERROR" THEN 1 ELSE 0 IN
       /\ key_data' = Filled(r, 1)
       /\ job' = [chan |-> c, cmd |-> m.cmd, arg1 |-> m.arg1, status |-> r.status,
                  key_len |-> n, req_len |-> Len(m.data), sent |-> FALSE]

hwkey_get_keyslot(c, m) ==
  /\ m.cmd = "GET_KEYSLOT"
  /\ req_data' = [Received(m.data) EXCEPT ![Len(m.data) + 1] = "0"]
  /\ \E r \in SlotLookup(uuid[c], CString(req_data')) :
       LET n == IF r.status = "NO_ERROR" THEN 1 ELSE 0 IN
       /\ key_data' = Filled(r, 1)
       /\ job' = [chan |-> c, cmd |-> m.cmd, arg1 |-> m.arg1, status |-> r.status,
                  key_len |-> n, req_len |-> Len(m.data), sent |-> FALSE]

\* derive_key_v1: HKDF may fail, and then its output is wiped.
derive_key_v1(c, ikm) ==
  IF ikm = << >> THEN {[status |-> "BAD_LEN", cell |-> ZeroCell]}
  ELSE {[status |-> "NO_ERROR", cell |-> Derived(uuid[c], ikm)]}
         \cup {r \in {[status |-> "GENERIC", cell |-> ZeroCell]} : "caam" \in Faults}

DeriveResults(c, version, ikm) ==
  IF version = "V1" THEN derive_key_v1(c, ikm)
  ELSE {[status |-> "NOT_IMPLEMENTED", cell |-> ZeroCell]}

\* Mutant: the requested version is not resolved.
kdf_version_asis(arg1) == arg1

\* "we only support V1"
kdf_version(arg1) == IF arg1 = "BEST" THEN "V1" ELSE arg1

hwkey_derive(c, m) ==
  LET version == kdf_version(m.arg1) IN
  /\ m.cmd = "DERIVE"
  /\ req_data' = Received(m.data)
  /\ \E r \in DeriveResults(c, version, SubSeq(req_data', 1, Len(m.data))) :
       LET n == IF r.status = "NO_ERROR" THEN Len(m.data) ELSE 0 IN
       /\ key_data' = Filled(r, Len(m.data))
       /\ job' = [chan |-> c, cmd |-> m.cmd, arg1 |-> version, status |-> r.status,
                  key_len |-> n, req_len |-> Len(m.data), sent |-> FALSE]

hwkey_unsupported(c, m) ==
  /\ m.cmd = "unknown"
  /\ req_data' = Received(m.data)
  /\ job' = [chan |-> c, cmd |-> m.cmd, arg1 |-> m.arg1, status |-> "NOT_IMPLEMENTED",
             key_len |-> 0, req_len |-> Len(m.data), sent |-> FALSE]
  /\ UNCHANGED key_data

hwkey_ctx_close(c) == CloseChan(c) /\ ctx' = ctx \ {c} /\ UNCHANGED uuid

\* Mutant: the message is not put back, so it is found again.
hwkey_chan_handle_msg_kept(c) ==
  /\ Dispatched(c) /\ "HUP" \notin ev.event /\ "MSG" \in ev.event
  /\ inbox[c] \in Request
  /\ \/ hwkey_get_keyslot(c, inbox[c])
     \/ hwkey_derive(c, inbox[c])
     \/ hwkey_unsupported(c, inbox[c])
  /\ pc' = "reply"
  /\ UNCHANGED <<ipcVars, ev, ctx, uuid, rpmb_keyblob, kbox, clientVars>>

hwkey_chan_handle_msg(c) ==
  /\ Dispatched(c) /\ "HUP" \notin ev.event /\ "MSG" \in ev.event
  /\ inbox[c] \in Request
  /\ \/ hwkey_get_keyslot(c, inbox[c])
     \/ hwkey_derive(c, inbox[c])
     \/ hwkey_unsupported(c, inbox[c])
  /\ Consume(c)
  /\ pc' = "reply"
  /\ UNCHANGED <<ev, ctx, uuid, rpmb_keyblob, kbox, clientVars>>

\* The peer hung up, or sent less than a header.  No event has neither HUP
\* nor MSG: a send that meets a full buffer closes the channel, so none is
\* ever unblocked.
hwkey_chan_close(c) ==
  /\ Dispatched(c)
  /\ "HUP" \in ev.event \/ ("MSG" \in ev.event /\ inbox[c] = ShortMsg)
  /\ hwkey_ctx_close(c)
  /\ BackToLoop
  /\ UNCHANGED <<keyVars, clientVars>>

Rsp == [cmd |-> job.cmd, arg1 |-> job.arg1, status |-> job.status,
        data |-> SubSeq(key_data, 1, job.key_len)]

hwkey_send_rsp ==
  /\ pc = "reply"
  /\ \/ Deliver(job.chan, Rsp) /\ job' = [job EXCEPT !.sent = TRUE]
     \/ MeetFull(job.chan) /\ UNCHANGED job
     \/ /\ SendResult(job.chan) = "ERR_CHANNEL_CLOSED"
        /\ UNCHANGED <<ipcVars, job>>
  /\ pc' = "sanitize"
  /\ UNCHANGED <<ev, ctx, uuid, key_data, req_data, rpmb_keyblob, kbox, clientVars>>

\* Mutant: the request buffer is not zeroed.
SanitizedReq_never == req_data

\* The key buffer is zeroed up to key_len, the request buffer after a derive.
SanitizedKey == [i \in KeyIndex |-> IF i <= job.key_len THEN ZeroCell ELSE key_data[i]]
SanitizedReq == [i \in ReqIndex |-> IF job.cmd = "DERIVE" /\ i <= job.req_len
                                    THEN "0" ELSE req_data[i]]

\* Mutant: a request that fails closes the channel.
hwkey_sanitize_strict ==
  /\ pc = "sanitize"
  /\ key_data' = SanitizedKey
  /\ req_data' = SanitizedReq
  /\ IF job.sent /\ job.status = "NO_ERROR"
     THEN UNCHANGED <<ipcVars, ctx, uuid>> ELSE hwkey_ctx_close(job.chan)
  /\ job' = NoJob
  /\ BackToLoop
  /\ UNCHANGED <<rpmb_keyblob, kbox, clientVars>>

\* Mutant: the result of the send is ignored.
hwkey_sanitize_lenient ==
  /\ pc = "sanitize"
  /\ key_data' = SanitizedKey
  /\ req_data' = SanitizedReq
  /\ job' = NoJob
  /\ BackToLoop
  /\ UNCHANGED <<ipcVars, ctx, uuid, rpmb_keyblob, kbox, clientVars>>

\* A response that could not be sent closes the channel.
hwkey_sanitize ==
  /\ pc = "sanitize"
  /\ key_data' = SanitizedKey
  /\ req_data' = SanitizedReq
  /\ IF job.sent THEN UNCHANGED <<ipcVars, ctx, uuid>> ELSE hwkey_ctx_close(job.chan)
  /\ job' = NoJob
  /\ BackToLoop
  /\ UNCHANGED <<rpmb_keyblob, kbox, clientVars>>

\* The memory of a process that ended.
ForgetAll ==
  /\ ctx' = {}
  /\ job' = NoJob
  /\ UNCHANGED <<uuid, key_data, req_data, rpmb_keyblob, kbox, clientVars>>

----------------------------------------------------------------------------
(* Clients.                                                                *)

ClientConnect(c, u) ==
  /\ Connect(c)
  /\ peer' = [peer EXCEPT ![c] = u]
  /\ asked' = [asked EXCEPT ![c] = << >>]

\* The guard bounds how many replies a client leaves waiting.
ClientRequest(c, m) ==
  /\ Len(asked[c]) < MaxPending
  /\ Send(c, m)
  /\ asked' = [asked EXCEPT ![c] = Append(asked[c], m)]
  /\ UNCHANGED peer

ClientTake(c) ==
  /\ Recv(c)
  /\ asked' = [asked EXCEPT ![c] = Tail(asked[c])]
  /\ UNCHANGED peer

ClientHangup(c) ==
  /\ Disconnect(c)
  /\ asked' = [asked EXCEPT ![c] = << >>]
  /\ UNCHANGED peer

Client(c) ==
  /\ \/ \E u \in Uuid : ClientConnect(c, u)
     \/ \E m \in Request : ClientRequest(c, m)
     \/ Send(c, ShortMsg) /\ UNCHANGED clientVars
     \/ ClientTake(c)
     \/ ClientHangup(c)
  /\ UNCHANGED <<pc, ev, ctx, uuid, keyVars>>

----------------------------------------------------------------------------
Start == unpack_kbox \/ unpack_kbox_abort \/ hwkey_start_service

Wait(h) == wait_any(h) /\ UNCHANGED <<ctx, uuid, keyVars, clientVars>>

HandleEvent ==
  \/ tipc_handle_errors /\ ForgetAll
  \/ hwkey_port_handler
  \/ \E c \in Chan : \/ hwkey_chan_handle_msg(c)
                     \/ hwkey_chan_close(c)
  \/ hwkey_send_rsp
  \/ hwkey_sanitize

Next == \/ Start
        \/ \E h \in Chan \cup {Port} : Wait(h)
        \/ wait_any_failed /\ ForgetAll
        \/ HandleEvent
        \/ \E c \in Chan : Client(c)

Spec == Init /\ [][Next]_vars

(***************************************************************************)
(* As for the HWRNG service: the thread keeps running and wait_any reports  *)
(* every handle that is ready again and again.                              *)
(***************************************************************************)
FairSpec ==
  /\ Spec
  /\ WF_vars(Start)
  /\ WF_vars(HandleEvent)
  /\ \A h \in Chan \cup {Port} : SF_vars(Wait(h))

----------------------------------------------------------------------------
(* Properties.                                                             *)

\* Symbols that only key material to derive from is made of.
IkmSymbol == SymbolsOf(DerivePayloads) \ ({"0"} \cup SymbolsOf(GetPayloads \cup OtherPayloads))

(* Between two events no key and no input key material is left in the       *)
(* static buffers, whatever the last request was and however it failed      *)
(* ("sanitize key buffer", "sanitize request buffer").                      *)
BuffersClean ==
  pc = "wait" => /\ \A i \in KeyIndex : key_data[i] = ZeroCell
                 /\ \A i \in ReqIndex : req_data[i] \notin IkmSymbol

\* The key a client may fetch by name.
KeyFor(u, name) ==
  IF u = ss_uuid /\ name = RpmbId THEN <<RpmbCell>>
  ELSE IF WITH_HWCRYPTO_UNITTEST /\ u = hwcrypto_unittest_uuid /\ name = UnittestId
  THEN <<UnittestCell>> ELSE << >>

\* What a request of client u may be answered with.
Promised(u, m, r) ==
  /\ r.cmd = m.cmd
  /\ r.status # "NO_ERROR" => r.data = << >>
  /\ m.cmd = "GET_KEYSLOT" =>
       LET key == KeyFor(u, CString(m.data)) IN
       /\ r.status = "NO_ERROR" => r.data = key /\ key # << >>
       /\ key = << >> => r.status = "NOT_FOUND"
  /\ m.cmd = "DERIVE" =>
       LET good == m.arg1 # "unknown" /\ m.data # << >> IN
       /\ r.status = "NO_ERROR" => good /\ r.data = [i \in 1 .. Len(m.data) |-> Derived(u, m.data)]
       /\ good /\ "caam" \notin Faults => r.status = "NO_ERROR"
  /\ m.cmd = "unknown" => r.status = "NOT_IMPLEMENTED"

(* A reply answers the oldest request of its own client and carries that    *)
(* client's key and nothing else: nothing of an earlier request in          *)
(* req_data or key_data, of another client, or of the slot's last owner     *)
(* (memcmp of ctx->uuid, "force zero termination", klen).                   *)
ReplyMatchesRequest ==
  \A c \in Chan : outbox[c] # NoMsg =>
    asked[c] # << >> /\ Promised(peer[c], Head(asked[c]), outbox[c])

(* The service implements KeyService: every request is answered at most     *)
(* once and in order, no reply is sent unasked or over one not yet taken,   *)
(* however the handler's steps and the client's interleave and whichever    *)
(* of them fails.                                                           *)
Service == INSTANCE KeyService WITH
  Peer <- Chan, Owner <- Uuid, Req <- Request, NoReply <- NoMsg, Allowed <- Promised,
  open <- ctx, owner <- peer, reply <- outbox

ImplementsKeyService == Service!ServiceSpec

(* A channel is closed by the service only when the client hung up, sent    *)
(* less than a header or has a reply that met a full buffer, or the process *)
(* ended; and a reply meets a full buffer only when its client asked again  *)
(* before it took the last one.  So one that takes each reply before it     *)
(* asks again is never dropped, whatever the others do.                     *)
DropsOnlyForCause ==
  [][/\ \A c \in srv \ srv' : \/ cli[c] # "open" \/ inbox[c] = ShortMsg
                               \/ c \in blocked \cup unblocked
                               \/ pc' = "exited"
     /\ \A c \in blocked' \ blocked : Len(asked[c]) > 1]_vars

(* Every request gets its reply or its channel is closed, also when the     *)
(* reply cannot be sent because the client has not taken the last one.      *)
AnsweredOrClosed ==
  \A c \in Chan : asked[c] # << >> ~> (outbox[c] # NoMsg \/ c \notin srv \/ asked[c] = << >>)

============================================================================
