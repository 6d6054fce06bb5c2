------------------------- MODULE HwcryptoAppProofs -------------------------
(***************************************************************************)
(* Proofs about HwcryptoApp: each service runs as on a loop of its own, and *)
(* what the order of main and the one thread guarantee between the two, for *)
(* every set of clients, all payloads and every combination of failing      *)
(* calls.                                                                   *)
(***************************************************************************)
EXTENDS HwcryptoApp, Integers, Sequences, TLAPS

(* Where each service is while main starts up, loops and has ended; only    *)
(* one of them handles an event.                                            *)
Stages ==
  /\ main \in {"init", "rng", "key", "loop", "ended"}
  /\ main \in {"init", "rng"} => rpc = "start" /\ kpc = "start"
  /\ main = "key" => rpc = "wait" /\ kpc \in {"start", "unpacked"}
  /\ main = "loop" => /\ rpc \in {"wait", "dispatch", "kick"}
                      /\ kpc \in {"wait", "dispatch", "reply", "sanitize"}
  /\ main = "ended" => ~RngBusy /\ ~KeyBusy
  /\ ~(RngBusy /\ KeyBusy)

(* Channels are open in the loop only, which is reached with the key box    *)
(* wiped.                                                                   *)
ServedInLoop ==
  /\ main # "loop" => rsrv = {} /\ ksrv = {}
  /\ kpc = "unpacked" \/ main = "loop" => kbox = "wiped"

(* The inductive invariant.                                                 *)
IndInv == Stages /\ ServedInLoop

----------------------------------------------------------------------------
(* What a step of a service may do to its part of the state.               *)

(* The start of the HWRNG service.                                          *)
LEMMA RngStart ==
  ASSUME R!hwrng_start_service
  PROVE  rpc' = "wait" /\ rsrv' = rsrv
BY DEF R!hwrng_start_service

(* A handler of the HWRNG service runs while it is busy, and goes on,       *)
(* returns or ends the process.                                             *)
LEMMA RngHandles ==
  ASSUME RngHandler
  PROVE  RngBusy /\ rpc' \in {"wait", "dispatch", "kick", "exited"}
<1>1. CASE R!Dispatch
  <2>1. ASSUME NEW c \in RngChan, R!hwrng_chan_handler(c)
        PROVE  rpc = "dispatch" /\ rpc' \in {"wait", "dispatch", "kick", "exited"}
    BY <2>1 DEF R!hwrng_chan_handler, R!Dispatched, R!ProcessEnds, R!BackToLoop
  <2> QED
    BY <1>1, <2>1 DEF R!Dispatch, R!dispatch_no_handler, R!tipc_handle_errors, R!hwrng_port_handler,
                      R!Dispatched, R!ProcessEnds, R!BackToLoop, RngBusy
<1>2. CASE R!Kick
  BY <1>2 DEF R!Kick, R!hwrng_handle_req_queue, R!hwrng_dev_get_rng_data_failed, R!hwrng_kick_done,
              R!ProcessEnds, RngBusy
<1> QED
  BY <1>1, <1>2 DEF RngHandler

(* A handler that ends the process closes its channels.                     *)
LEMMA RngExit ==
  ASSUME RngHandler, rpc' = "exited"
  PROVE  rsrv' = {}
<1>1. CASE R!Dispatch
  BY <1>1 DEF R!Dispatch, R!dispatch_no_handler, R!tipc_handle_errors, R!hwrng_port_handler,
              R!hwrng_chan_handler, R!Dispatched, R!ProcessEnds, R!CloseAll, R!BackToLoop
<1>2. CASE R!Kick
  BY <1>2 DEF R!Kick, R!hwrng_handle_req_queue, R!hwrng_dev_get_rng_data_failed, R!hwrng_kick_done,
              R!ProcessEnds, R!CloseAll
<1> QED
  BY <1>1, <1>2 DEF RngHandler

(* The HWRNG service ends.                                                  *)
LEMMA RngEnded ==
  ASSUME RngEnds
  PROVE  rpc = "wait" /\ rpc' = "exited" /\ rsrv' = {}
BY DEF RngEnds, R!wait_any_failed, R!ProcessEnds, R!CloseAll

(* A client of the HWRNG service.                                           *)
LEMMA RngClientKeeps ==
  ASSUME NEW c \in RngChan, R!Client(c)
  PROVE  rpc' = rpc /\ rsrv' = rsrv
BY DEF R!Client, R!Connect, R!ClientRequest, R!Send, R!Recv, R!Disconnect, R!loopVars

(* The HWKEY service starts.                                                *)
LEMMA KeyStart ==
  ASSUME K!Start
  PROVE  \/ /\ kpc = "start" /\ kpc' = "unpacked"
            /\ kbox' = "wiped" /\ ksrv' = ksrv
         \/ /\ kpc = "start" /\ kpc' = "exited" /\ ksrv' = {}
         \/ /\ kpc = "unpacked" /\ kpc' = "wait"
            /\ kbox' = kbox /\ ksrv' = ksrv
BY DEF K!Start, K!unpack_kbox, K!unpack_kbox_abort, K!hwkey_start_service, K!ProcessEnds,
       K!CloseAll, K!ipcVars, K!keyVars

(* A handler of the HWKEY service.                                          *)
LEMMA KeyHandles ==
  ASSUME KeyHandler
  PROVE  /\ KeyBusy /\ kbox' = kbox
         /\ kpc' \in {"wait", "dispatch", "reply", "sanitize", "exited"}
<1> USE DEF KeyBusy, K!keyVars, K!Dispatched, K!BackToLoop
<1>1. CASE K!tipc_handle_errors /\ K!ForgetAll
  BY <1>1 DEF K!tipc_handle_errors, K!ForgetAll, K!ProcessEnds
<1>2. CASE K!hwkey_port_handler
  BY <1>2 DEF K!hwkey_port_handler
<1>3. ASSUME NEW c \in KeyChan, K!hwkey_chan_handle_msg(c) \/ K!hwkey_chan_close(c)
      PROVE  /\ KeyBusy /\ kbox' = kbox
             /\ kpc' \in {"wait", "dispatch", "reply", "sanitize", "exited"}
  BY <1>3 DEF K!hwkey_chan_handle_msg, K!hwkey_chan_close
<1>4. CASE K!hwkey_send_rsp
  BY <1>4 DEF K!hwkey_send_rsp
<1>5. CASE K!hwkey_sanitize
  BY <1>5 DEF K!hwkey_sanitize
<1> QED
  BY <1>1, <1>2, <1>3, <1>4, <1>5 DEF KeyHandler, K!HandleEvent

(* The same of the HWKEY service.                                           *)
LEMMA KeyExit ==
  ASSUME KeyHandler, kpc' = "exited"
  PROVE  ksrv' = {}
<1> USE DEF K!BackToLoop
<1>1. CASE K!tipc_handle_errors
  BY <1>1 DEF K!tipc_handle_errors, K!ProcessEnds, K!CloseAll
<1>2. ~K!hwkey_port_handler /\ ~K!hwkey_send_rsp /\ ~K!hwkey_sanitize
  BY DEF K!hwkey_port_handler, K!hwkey_send_rsp, K!hwkey_sanitize
<1>3. \A c \in KeyChan : ~K!hwkey_chan_handle_msg(c) /\ ~K!hwkey_chan_close(c)
  BY DEF K!hwkey_chan_handle_msg, K!hwkey_chan_close
<1> QED
  BY <1>1, <1>2, <1>3 DEF KeyHandler, K!HandleEvent

(* The HWKEY service ends.                                                  *)
LEMMA KeyEnded ==
  ASSUME KeyEnds
  PROVE  kpc = "wait" /\ kpc' = "exited" /\ ksrv' = {}
BY DEF KeyEnds, K!wait_any_failed, K!ProcessEnds, K!CloseAll

(* A client of the HWKEY service.                                           *)
LEMMA KeyClientKeeps ==
  ASSUME NEW c \in KeyChan, K!Client(c)
  PROVE  kpc' = kpc /\ ksrv' = ksrv /\ kbox' = kbox
BY DEF K!Client, K!ClientConnect, K!ClientRequest, K!ClientTake, K!ClientHangup,
       K!Connect, K!Send, K!Recv, K!Disconnect, K!keyVars
----------------------------------------------------------------------------
(* The invariant.                                                          *)

(* IndInv holds before main has done anything.                              *)
LEMMA InitInd == Init => IndInv
BY DEF Init, IndInv, Stages, ServedInLoop, RngBusy, KeyBusy, R!Init, R!LoopInit, R!IpcInit,
       K!Init, K!LoopInit, K!IpcInit

(* A step of start-up preserves IndInv.                                     *)
LEMMA StartUpInd ==
  ASSUME IndInv, StartUp
  PROVE  IndInv'
<1> USE DEF IndInv, Stages, ServedInLoop, RngBusy, KeyBusy, rngVars, keyVars
<1>1. CASE init_caam_env
  BY <1>1 DEF init_caam_env
<1>2. CASE hwrng_init_srv_provider
  BY <1>2, RngStart DEF hwrng_init_srv_provider
<1>3. CASE hwkey_init_srv_provider
  <2>1. CASE kpc' = "unpacked"
    BY <1>3, <2>1, KeyStart, RngEnded DEF hwkey_init_srv_provider
  <2>2. CASE kpc' = "wait"
    BY <1>3, <2>2, KeyStart, RngEnded DEF hwkey_init_srv_provider
  <2>3. CASE kpc' = "exited"
    BY <1>3, <2>3, KeyStart, RngEnded DEF hwkey_init_srv_provider
  <2> QED
    BY <1>3, <2>1, <2>2, <2>3 DEF hwkey_init_srv_provider
<1> QED
  BY <1>1, <1>2, <1>3 DEF StartUp

(* A step of the loop preserves IndInv: main lets no handler run under      *)
(* another, and the end of one service is the end of both.                  *)
LEMMA LoopInd ==
  ASSUME IndInv,
         \/ \E h \in RngChan \cup {RngPort} : rng_wait(h)
         \/ \E h \in KeyChan \cup {KeyPort} : key_wait(h)
         \/ rng_event \/ key_event \/ wait_any_failed
  PROVE  IndInv'
<1> USE DEF IndInv, Stages, ServedInLoop, RngBusy, KeyBusy, rngVars, keyVars
<1>1. ASSUME NEW h \in RngChan \cup {RngPort}, rng_wait(h) PROVE IndInv'
  BY <1>1 DEF rng_wait, R!Wait, R!wait_any
<1>2. ASSUME NEW h \in KeyChan \cup {KeyPort}, key_wait(h) PROVE IndInv'
  BY <1>2 DEF key_wait, K!Wait, K!wait_any, K!keyVars
<1>3. CASE rng_event
  <2>1. main = "loop" /\ ~KeyBusy /\ RngBusy
    BY <1>3, RngHandles DEF rng_event
  <2>2. rpc' \in {"wait", "dispatch", "kick", "exited"}
    BY <1>3, RngHandles DEF rng_event
  <2>3. CASE rpc' = "exited"
    BY <1>3, <2>3, KeyEnded, RngExit DEF rng_event
  <2>4. CASE rpc' # "exited"
    BY <1>3, <2>1, <2>2, <2>4 DEF rng_event
  <2> QED
    BY <2>3, <2>4
<1>4. CASE key_event
  <2>1. main = "loop" /\ ~RngBusy /\ KeyBusy /\ kbox' = kbox
    BY <1>4, KeyHandles DEF key_event
  <2>2. kpc' \in {"wait", "dispatch", "reply", "sanitize", "exited"}
    BY <1>4, KeyHandles DEF key_event
  <2>3. CASE kpc' = "exited"
    BY <1>4, <2>3, RngEnded, KeyExit DEF key_event
  <2>4. CASE kpc' # "exited"
    BY <1>4, <2>1, <2>2, <2>4 DEF key_event
  <2> QED
    BY <2>3, <2>4
<1>5. CASE wait_any_failed
  BY <1>5, RngEnded, KeyEnded DEF wait_any_failed
<1> QED
  BY <1>1, <1>2, <1>3, <1>4, <1>5

(* IndInv is preserved by every step.                                       *)
LEMMA NextInd == IndInv /\ [Next]_vars => IndInv'
<1> SUFFICES ASSUME IndInv, [Next]_vars PROVE IndInv'
  OBVIOUS
<1> USE DEF IndInv, Stages, ServedInLoop, RngBusy, KeyBusy, rngVars, keyVars
<1>1. ASSUME NEW c \in RngChan, RngClient(c) PROVE IndInv'
  BY <1>1, RngClientKeeps DEF RngClient
<1>2. ASSUME NEW c \in KeyChan, KeyClient(c) PROVE IndInv'
  BY <1>2, KeyClientKeeps DEF KeyClient
<1>3. CASE UNCHANGED vars
  BY <1>3 DEF vars
<1> QED
  BY <1>1, <1>2, <1>3, StartUpInd, LoopInd DEF Next

(* The stages of main and of both services, in every reachable state.       *)
THEOREM Inductive == Spec => []IndInv
BY InitInd, NextInd, PTL DEF Spec

(* No connection of either service is accepted before unpack_kbox has wiped *)
(* the key box.                                                             *)
THEOREM WipedFirst == Spec => []WipedBeforeService
<1>1. IndInv => WipedBeforeService
  BY DEF IndInv, ServedInLoop, WipedBeforeService
<1> QED
  BY <1>1, Inductive, PTL

----------------------------------------------------------------------------
(* Each service runs as on a loop of its own.                              *)

(* The variables of a service are those of its module.                      *)
LEMMA SameVars ==
  /\ UNCHANGED rngVars => UNCHANGED R!vars
  /\ UNCHANGED keyVars => UNCHANGED K!vars
BY DEF rngVars, keyVars, R!vars, R!ipcVars, R!loopVars, R!srvVars,
       K!vars, K!ipcVars, K!keyVars, K!clientVars

(* Every step of the application is a step of the HWRNG service or leaves   *)
(* it alone.                                                                *)
LEMMA RngSteps == [Next]_vars => [R!Next]_R!vars
<1> SUFFICES ASSUME [Next]_vars PROVE R!Next \/ UNCHANGED rngVars
  BY SameVars
<1>1. ASSUME RngEnds PROVE R!Next
  BY <1>1 DEF RngEnds, R!Next
<1>2. CASE StartUp
  BY <1>1, <1>2 DEF StartUp, init_caam_env, hwrng_init_srv_provider, hwkey_init_srv_provider, R!Next
<1>3. CASE (\E h \in RngChan \cup {RngPort} : rng_wait(h)) \/ rng_event
  BY <1>3 DEF rng_wait, rng_event, RngHandler, R!Next
<1>4. CASE (\E h \in KeyChan \cup {KeyPort} : key_wait(h)) \/ key_event \/ wait_any_failed
  BY <1>1, <1>4 DEF key_wait, key_event, wait_any_failed
<1>5. CASE (\E c \in RngChan : RngClient(c)) \/ \E c \in KeyChan : KeyClient(c)
  BY <1>5 DEF RngClient, KeyClient, R!Next
<1>6. CASE UNCHANGED vars
  BY <1>6 DEF vars
<1> QED
  BY <1>2, <1>3, <1>4, <1>5, <1>6 DEF Next

(* The same of the HWKEY service.                                           *)
LEMMA KeySteps == [Next]_vars => [K!Next]_K!vars
<1> SUFFICES ASSUME [Next]_vars PROVE K!Next \/ UNCHANGED keyVars
  BY SameVars
<1>1. ASSUME KeyEnds PROVE K!Next
  BY <1>1 DEF KeyEnds, K!Next
<1>2. CASE StartUp
  BY <1>2 DEF StartUp, init_caam_env, hwrng_init_srv_provider, hwkey_init_srv_provider, K!Next
<1>3. CASE (\E h \in RngChan \cup {RngPort} : rng_wait(h)) \/ rng_event \/ wait_any_failed
  BY <1>1, <1>3 DEF rng_wait, rng_event, wait_any_failed
<1>4. CASE (\E h \in KeyChan \cup {KeyPort} : key_wait(h)) \/ key_event
  BY <1>4 DEF key_wait, key_event, KeyHandler, K!Next
<1>5. CASE (\E c \in RngChan : RngClient(c)) \/ \E c \in KeyChan : KeyClient(c)
  BY <1>5 DEF RngClient, KeyClient, K!Next
<1>6. CASE UNCHANGED vars
  BY <1>6 DEF vars
<1> QED
  BY <1>2, <1>3, <1>4, <1>5, <1>6 DEF Next

(* The application implements the specification of each service: what       *)
(* HwrngServerProofs and HwkeyServerProofs prove holds on the shared loop.  *)
LEMMA ServicesRun == Spec => R!Spec /\ K!Spec
<1>1. Init => R!Init /\ K!Init
  BY DEF Init
<1> QED
  BY <1>1, RngSteps, KeySteps, PTL DEF Spec, R!Spec, K!Spec

----------------------------------------------------------------------------
(* The static buffers of the HWKEY service.                                *)

NoKeyFrom(k) == \A i \in K!KeyIndex : i <= k \/ key_data[i] = K!ZeroCell

NoIkmFrom(k) == \A i \in K!ReqIndex : i <= k \/ req_data[i] \notin K!IkmSymbol

(* They hold no key and no input key material but inside a handler, and     *)
(* there only in the cells hwkey_sanitize is going to zero.                 *)
KeyBuffers ==
  /\ kpc \in {"start", "unpacked", "wait", "dispatch"} => NoKeyFrom(0) /\ NoIkmFrom(0)
  /\ kpc \in {"reply", "sanitize"} =>
       /\ NoKeyFrom(job.key_len)
       /\ NoIkmFrom(IF job.cmd = "DERIVE" THEN job.req_len ELSE 0)
       /\ {"cmd", "key_len", "req_len"} \subseteq DOMAIN job

(* Indices start at 1.                                                      *)
LEMMA FromZero ==
  /\ NoKeyFrom(0) <=> \A i \in K!KeyIndex : key_data[i] = K!ZeroCell
  /\ NoIkmFrom(0) <=> \A i \in K!ReqIndex : req_data[i] \notin K!IkmSymbol
BY AppAssumption DEF NoKeyFrom, NoIkmFrom, K!KeyIndex, K!ReqIndex

(* Zero is no input key material, and names and unknown commands carry      *)
(* none.                                                                    *)
LEMMA NoIkmInNames ==
  /\ "0" \notin K!IkmSymbol
  /\ \A s \in GetPayloads \cup OtherPayloads : \A i \in 1 .. Len(s) : s[i] \notin K!IkmSymbol
<1>1. ASSUME NEW s \in GetPayloads \cup OtherPayloads, NEW i \in 1 .. Len(s)
      PROVE  s[i] \in K!SymbolsOf(GetPayloads \cup OtherPayloads)
  <2>1. s[i] \in {s[j] : j \in 1 .. Len(s)}
    OBVIOUS
  <2> QED
    BY <2>1 DEF K!SymbolsOf
<1> QED
  BY <1>1 DEF K!IkmSymbol

(* A slot that does not answer with a key answers with zeros.               *)
LEMMA SlotZero ==
  ASSUME NEW u, NEW name, NEW r \in K!SlotLookup(u, name), r.status # "NO_ERROR"
  PROVE  r.cell = K!ZeroCell
<1>1. ASSUME NEW slots, NEW q \in K!handle_slots(u, name, slots), q.status # "NO_ERROR"
      PROVE  q.cell = K!ZeroCell
  BY <1>1 DEF K!handle_slots, K!SlotResults, K!NotFound
<1>2. \/ r \in K!handle_slots(u, name, K!test_key_slots)
      \/ r \in K!handle_slots(u, name, K!key_slots)
  BY DEF K!SlotLookup
<1> QED
  BY <1>1, <1>2

(* A request is received and computed.                                      *)
LEMMA HandlerBuffers ==
  ASSUME KeyBuffers, NEW c \in KeyChan, K!hwkey_chan_handle_msg(c)
  PROVE  KeyBuffers'
<1> DEFINE m == kinbox[c]
<1>1. /\ \A i \in K!KeyIndex : key_data[i] = K!ZeroCell
      /\ \A i \in K!ReqIndex : req_data[i] \notin K!IkmSymbol
  BY FromZero DEF KeyBuffers, K!hwkey_chan_handle_msg, K!Dispatched
<1>2. kpc' = "reply" /\ m \in K!Request
  BY DEF K!hwkey_chan_handle_msg
<1>3. ASSUME m.data \in GetPayloads \cup OtherPayloads, NEW i \in K!ReqIndex
      PROVE  K!Received(m.data)[i] \notin K!IkmSymbol
  <2>1. CASE i <= Len(m.data)
    <3>1. i \in 1 .. Len(m.data)
      BY <1>3, <2>1, AppAssumption DEF K!ReqIndex
    <3> QED
      BY <1>3, <2>1, <3>1, NoIkmInNames DEF K!Received
  <2> QED
    BY <1>1, <2>1 DEF K!Received
<1>4. CASE K!hwkey_get_keyslot(c, m)
  <2>1. m.data \in GetPayloads /\ m.cmd = "GET_KEYSLOT"
    BY <1>2, <1>4 DEF K!hwkey_get_keyslot, K!Request
  <2>2. req_data' = [K!Received(m.data) EXCEPT ![Len(m.data) + 1] = "0"]
    BY <1>4 DEF K!hwkey_get_keyslot
  <2>3. \A i \in K!ReqIndex : req_data'[i] \in {"0", K!Received(m.data)[i]}
    BY <2>2 DEF K!Received
  <2>4. \A i \in K!ReqIndex : req_data'[i] \notin K!IkmSymbol
    BY <1>3, <2>1, <2>3, NoIkmInNames
  <2>5. PICK name : name = K!CString(req_data')
    OBVIOUS
  <2>6. PICK r \in K!SlotLookup(uuid[c], name) :
          /\ key_data' = K!Filled(r, 1)
          /\ job'.key_len = (IF r.status = "NO_ERROR" THEN 1 ELSE 0)
          /\ job'.cmd = m.cmd
          /\ {"cmd", "key_len", "req_len"} \subseteq DOMAIN job'
    BY <1>4, <2>5 DEF K!hwkey_get_keyslot
  <2>7. r.status # "NO_ERROR" => r.cell = K!ZeroCell
    BY SlotZero
  <2>8. NoKeyFrom(job.key_len)'
    BY <1>1, <2>6, <2>7 DEF NoKeyFrom, K!Filled
  <2> QED
    BY <1>2, <2>1, <2>4, <2>6, <2>8 DEF KeyBuffers, NoIkmFrom
<1>5. CASE K!hwkey_derive(c, m)
  <2>1. PICK ikm : ikm = SubSeq(req_data', 1, Len(m.data))
    OBVIOUS
  <2>2. PICK r \in K!DeriveResults(c, K!kdf_version(m.arg1), ikm) :
          /\ key_data' = K!Filled(r, Len(m.data))
          /\ job'.key_len = (IF r.status = "NO_ERROR" THEN Len(m.data) ELSE 0)
          /\ job'.cmd = "DERIVE" /\ job'.req_len = Len(m.data)
          /\ {"cmd", "key_len", "req_len"} \subseteq DOMAIN job'
          /\ req_data' = K!Received(m.data)
    BY <1>5, <2>1 DEF K!hwkey_derive
  <2>3. r.status # "NO_ERROR" => r.cell = K!ZeroCell
    BY DEF K!DeriveResults, K!derive_key_v1
  <2>4. NoKeyFrom(job.key_len)'
    BY <1>1, <2>2, <2>3 DEF NoKeyFrom, K!Filled
  <2>5. NoIkmFrom(job.req_len)'
    BY <1>1, <2>2 DEF NoIkmFrom, K!Received
  <2> QED
    BY <1>2, <2>2, <2>4, <2>5 DEF KeyBuffers
<1>6. CASE K!hwkey_unsupported(c, m)
  <2>1. /\ m.data \in OtherPayloads /\ job'.cmd = "unknown"
        /\ {"cmd", "key_len", "req_len"} \subseteq DOMAIN job'
        /\ req_data' = K!Received(m.data) /\ key_data' = key_data
    BY <1>2, <1>6 DEF K!hwkey_unsupported, K!Request
  <2>2. \A i \in K!ReqIndex : req_data'[i] \notin K!IkmSymbol
    BY <1>3, <2>1
  <2> QED
    BY <1>1, <1>2, <2>1, <2>2 DEF KeyBuffers, NoKeyFrom, NoIkmFrom
<1> QED
  BY <1>4, <1>5, <1>6 DEF K!hwkey_chan_handle_msg

(* The buffers are zeroed before the handler returns.                       *)
LEMMA SanitizeBuffers ==
  ASSUME KeyBuffers, K!hwkey_sanitize
  PROVE  KeyBuffers'
<1>1. /\ NoKeyFrom(job.key_len)
      /\ NoIkmFrom(IF job.cmd = "DERIVE" THEN job.req_len ELSE 0)
      /\ kpc' = "wait"
  BY DEF KeyBuffers, K!hwkey_sanitize, K!BackToLoop
<1>2. \A i \in K!KeyIndex : key_data'[i] = K!ZeroCell
  BY <1>1 DEF NoKeyFrom, K!hwkey_sanitize, K!SanitizedKey
<1>3. \A i \in K!ReqIndex : req_data'[i] \notin K!IkmSymbol
  <2>1. CASE job.cmd = "DERIVE"
    BY <1>1, <2>1, NoIkmInNames DEF NoIkmFrom, K!hwkey_sanitize, K!SanitizedReq
  <2>2. CASE job.cmd # "DERIVE"
    BY <1>1, <2>2, FromZero DEF K!hwkey_sanitize, K!SanitizedReq
  <2> QED
    BY <2>1, <2>2
<1> QED
  BY <1>1, <1>2, <1>3 DEF KeyBuffers, NoKeyFrom, NoIkmFrom

(* Every step of the HWKEY service keeps KeyBuffers.                        *)
LEMMA BuffersNext == KeyBuffers /\ [K!Next]_K!vars => KeyBuffers'
<1> SUFFICES ASSUME KeyBuffers, [K!Next]_K!vars PROVE KeyBuffers'
  OBVIOUS
<1> USE DEF KeyBuffers, NoKeyFrom, NoIkmFrom, K!keyVars
<1>1. CASE K!Start
  BY <1>1 DEF K!Start, K!unpack_kbox, K!unpack_kbox_abort, K!hwkey_start_service, K!ProcessEnds
<1>2. ASSUME NEW h \in KeyChan \cup {KeyPort}, K!Wait(h) PROVE KeyBuffers'
  BY <1>2 DEF K!Wait, K!wait_any
<1>3. CASE (K!wait_any_failed \/ K!tipc_handle_errors) /\ K!ForgetAll
  BY <1>3 DEF K!wait_any_failed, K!tipc_handle_errors, K!ProcessEnds
<1>4. CASE K!hwkey_port_handler
  BY <1>4 DEF K!hwkey_port_handler, K!Dispatched, K!BackToLoop
<1>5. ASSUME NEW c \in KeyChan, K!hwkey_chan_close(c) PROVE KeyBuffers'
  BY <1>5 DEF K!hwkey_chan_close, K!Dispatched, K!BackToLoop
<1>6. CASE K!hwkey_send_rsp
  <2>1. /\ job'.key_len = job.key_len /\ job'.cmd = job.cmd /\ job'.req_len = job.req_len
        /\ key_data' = key_data /\ req_data' = req_data
        /\ DOMAIN job' = DOMAIN job
        /\ kpc = "reply" /\ kpc' = "sanitize"
    BY <1>6 DEF K!hwkey_send_rsp
  <2> QED
    BY <2>1
<1>7. ASSUME NEW c \in KeyChan, K!Client(c) PROVE KeyBuffers'
  BY <1>7 DEF K!Client
<1>8. CASE UNCHANGED K!vars
  BY <1>8 DEF K!vars
<1> QED
  BY <1>1, <1>2, <1>3, <1>4, <1>5, <1>6, <1>7, <1>8, HandlerBuffers, SanitizeBuffers
     DEF K!Next, K!HandleEvent

(* While a handler of the HWRNG service runs, no key and no input key       *)
(* material is in the buffers of the HWKEY service: that one is in wait_any *)
(* then, and every handler of it has zeroed what it wrote.                  *)
THEOREM RngSeesNoKeys == Spec => []NoKeysUnderRng
<1>1. K!Init => KeyBuffers
  BY NoIkmInNames DEF K!Init, K!LoopInit, KeyBuffers, NoKeyFrom, NoIkmFrom
<1>2. K!Spec => []KeyBuffers
  BY <1>1, BuffersNext, PTL DEF K!Spec
<1>3. IndInv /\ KeyBuffers => NoKeysUnderRng
  BY FromZero DEF IndInv, Stages, RngBusy, KeyBusy, KeyBuffers, NoKeysUnderRng
<1>4. Spec => K!Spec
  BY ServicesRun, PTL
<1> QED
  BY <1>2, <1>3, <1>4, Inductive, PTL
============================================================================
