---------------------------- MODULE HwcryptoApp ----------------------------
(***************************************************************************)
(* The hwcrypto application as main.c runs it: start-up in the order of     *)
(* main, then both services on one event loop, in one thread and one        *)
(* process.  The services are instances of HwrngServer and HwkeyServer,     *)
(* each over its own handles and memory; this module adds what they share:  *)
(* the thread, the order they start in, and their end.                      *)
(***************************************************************************)
CONSTANTS RngChan, KeyChan, RngPort, KeyPort, NoHandle, NoMsg, Faults,
          MAX_HWRNG_MSG_SIZE, SizeMod, ReqLens, BadMsg, MaxOwed,
          Uuid, ss_uuid, hwcrypto_unittest_uuid, HWKEY_MAX_PAYLOAD_SIZE,
          GetPayloads, DerivePayloads, OtherPayloads, ShortMsg, NoUuid,
          WITH_HWCRYPTO_UNITTEST, MaxPending

ASSUME AppAssumption == (RngChan \cup {RngPort}) \cap (KeyChan \cup {KeyPort}) = {}

VARIABLES
  main,  \* what main does next: "init", "rng", "key", "loop", "ended"
  \* the HWRNG service
  rport, rcli, rsrv, rinbox, routbox, rblocked, runblocked, rpc, rev,
  rctx, req_size, send_blocked, hwrng_req_list, next, owed,
  \* the HWKEY service
  kport, kcli, ksrv, kinbox, koutbox, kblocked, kunblocked, kpc, kev,
  kctx, uuid, key_data, req_data, rpmb_keyblob, kbox, job, peer, asked

rngVars == <<rport, rcli, rsrv, rinbox, routbox, rblocked, runblocked, rpc, rev,
             rctx, req_size, send_blocked, hwrng_req_list, next, owed>>
keyVars == <<kport, kcli, ksrv, kinbox, koutbox, kblocked, kunblocked, kpc, kev,
             kctx, uuid, key_data, req_data, rpmb_keyblob, kbox, job, peer, asked>>
vars == <<main, rngVars, keyVars>>

\* To one service the end of the process by the other's hand looks like a
\* wait_any that failed.
SeenFaults == Faults \cup {"wait_any"}

R == INSTANCE HwrngServer WITH
  Chan <- RngChan, Port <- RngPort, Faults <- SeenFaults,
  port <- rport, cli <- rcli, srv <- rsrv, inbox <- rinbox, outbox <- routbox,
  blocked <- rblocked, unblocked <- runblocked, pc <- rpc, ev <- rev, ctx <- rctx

K == INSTANCE HwkeyServer WITH
  Chan <- KeyChan, Port <- KeyPort, Faults <- SeenFaults,
  port <- kport, cli <- kcli, srv <- ksrv, inbox <- kinbox, outbox <- koutbox,
  blocked <- kblocked, unblocked <- kunblocked, pc <- kpc, ev <- kev, ctx <- kctx

Init == main = "init" /\ R!Init /\ K!Init

----------------------------------------------------------------------------
(* The end of the process.                                                 *)

RngEnds == R!wait_any_failed /\ R!ForgetAll

KeyEnds == K!wait_any_failed /\ K!ForgetAll

----------------------------------------------------------------------------
(* main, up to the loop.                                                   *)

\* main returns before it has created any port when the CAAM is not there.
init_caam_env ==
  /\ main = "init"
  /\ main' = "rng" \/ ("caam" \in Faults /\ main' = "ended")
  /\ UNCHANGED <<rngVars, keyVars>>

\* Mutant: the loop is entered without the key service.
hwrng_init_srv_provider_last ==
  /\ main = "rng"
  /\ R!hwrng_start_service
  /\ main' \in {"key", "loop"}
  /\ UNCHANGED keyVars

\* A port that could not be created does not keep main from going on.
hwrng_init_srv_provider ==
  /\ main = "rng"
  /\ R!hwrng_start_service
  /\ main' = "key"
  /\ UNCHANGED keyVars

\* Clients of the HWRNG port may already connect; an abort ends both services.
hwkey_init_srv_provider ==
  /\ main = "key"
  /\ K!Start
  /\ \/ kpc' = "unpacked" /\ main' = "key" /\ UNCHANGED rngVars
     \/ kpc' = "wait" /\ main' = "loop" /\ UNCHANGED rngVars
     \/ kpc' = "exited" /\ main' = "ended" /\ RngEnds

----------------------------------------------------------------------------
(* The loop: while one service handles an event the other's handler does    *)
(* not run, and its state is where its last handler left it.                *)

RngHandler == R!Dispatch \/ R!Kick
KeyHandler == K!HandleEvent

RngBusy == rpc \in {"dispatch", "kick"}
KeyBusy == kpc \in {"dispatch", "reply", "sanitize"}

\* Mutant: events are also taken while the other service handles one.
rng_event_nested ==
  /\ main = "loop"
  /\ (\E h \in RngChan \cup {RngPort} : R!Wait(h)) \/ RngHandler
  /\ IF rpc' = "exited" THEN main' = "ended" /\ KeyEnds ELSE UNCHANGED <<main, keyVars>>

\* wait_any returned a handle of the HWRNG service, or its handler goes on.
rng_wait(h) == main = "loop" /\ ~KeyBusy /\ R!Wait(h) /\ UNCHANGED <<main, keyVars>>

rng_event ==
  /\ main = "loop" /\ ~KeyBusy
  /\ RngHandler
  /\ IF rpc' = "exited" THEN main' = "ended" /\ KeyEnds ELSE UNCHANGED <<main, keyVars>>

\* Mutant: the handles of the HWRNG service are looked at first.
key_wait_last(h) ==
  /\ main = "loop" /\ ~RngBusy /\ R!Pollable = {}
  /\ K!Wait(h)
  /\ UNCHANGED <<main, rngVars>>

\* The same of the HWKEY service.
key_wait(h) == main = "loop" /\ ~RngBusy /\ K!Wait(h) /\ UNCHANGED <<main, rngVars>>

key_event ==
  /\ main = "loop" /\ ~RngBusy
  /\ KeyHandler
  /\ IF kpc' = "exited" THEN main' = "ended" /\ RngEnds ELSE UNCHANGED <<main, rngVars>>

wait_any_failed ==
  /\ main = "loop" /\ "wait_any" \in Faults
  /\ main' = "ended"
  /\ RngEnds /\ KeyEnds

----------------------------------------------------------------------------
RngClient(c) == R!Client(c) /\ UNCHANGED <<main, keyVars>>
KeyClient(c) == K!Client(c) /\ UNCHANGED <<main, rngVars>>

StartUp == init_caam_env \/ hwrng_init_srv_provider \/ hwkey_init_srv_provider

Next == \/ StartUp
        \/ \E h \in RngChan \cup {RngPort} : rng_wait(h)
        \/ \E h \in KeyChan \cup {KeyPort} : key_wait(h)
        \/ rng_event
        \/ key_event
        \/ wait_any_failed
        \/ \E c \in RngChan : RngClient(c)
        \/ \E c \in KeyChan : KeyClient(c)

Spec == Init /\ [][Next]_vars

(***************************************************************************)
(* As for each service: the one thread keeps running, wait_any reports      *)
(* every handle that is ready again and again, of whichever service.        *)
(***************************************************************************)
FairSpec ==
  /\ Spec
  /\ WF_vars(StartUp) /\ WF_vars(rng_event) /\ WF_vars(key_event)
  /\ \A h \in RngChan \cup {RngPort} : SF_vars(rng_wait(h))
  /\ \A h \in KeyChan \cup {KeyPort} : SF_vars(key_wait(h))

----------------------------------------------------------------------------
(* Properties.                                                             *)

(* While a handler of the HWRNG service runs, no key and no input key       *)
(* material is in the HWKEY service's static buffers.                       *)
NoKeysUnderRng ==
  RngBusy =>
    /\ \A i \in K!KeyIndex : key_data[i] = K!ZeroCell
    /\ \A i \in K!ReqIndex : req_data[i] \notin K!IkmSymbol

(* No connection of either service is accepted before the key box in the    *)
(* secure RAM has been wiped, although the HWRNG port is open earlier       *)
(* (hwkey_init_srv_provider runs before the loop).                          *)
WipedBeforeService == rsrv \cup ksrv # {} => kbox = "wiped"

(* No client waits forever for its connection: it is accepted or hung up,   *)
(* also when the port has no handler (its cookie could not be set), accept  *)
(* fails or the process ends before it entered the loop.                    *)
ConnectAnswered ==
  /\ \A c \in RngChan : rcli[c] = "connecting" ~> rcli[c] # "connecting"
  /\ \A c \in KeyChan : kcli[c] = "connecting" ~> kcli[c] # "connecting"

(* Neither service starves the other: requests to the HWRNG service that    *)
(* fit one reply are served and requests to the HWKEY service answered,     *)
(* whatever the clients of the other do.                                    *)
NoStarvation == R!RequestServed /\ K!AnsweredOrClosed
============================================================================
