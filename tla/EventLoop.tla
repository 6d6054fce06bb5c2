----------------------------- MODULE EventLoop -----------------------------
(***************************************************************************)
(* The event loop of the hwcrypto application (main.c): main, wait_any,     *)
(* dispatch_event and the checks for unexpected events, as one service      *)
(* sees it.  The module of a service extends this one, adds the service's   *)
(* start-up and handlers as steps of the loop, and its own state.           *)
(***************************************************************************)
EXTENDS TipcChannel

CONSTANT Faults  \* the calls that may fail

ASSUME FaultAssumption ==
  Faults \subseteq {"port_create", "port_cookie", "accept", "ctx_setup",
                    "poll_error", "wait_any", "caam"}

VARIABLES pc,  \* what the service thread does next
          ev   \* the uevent_t that wait_any filled in

NoEvent == [handle |-> NoHandle, event |-> {}]

LoopInit == IpcInit /\ pc = "start" /\ ev = NoEvent

LoopTypeOK(Steps) ==
  /\ pc \in Steps \cup {"start", "wait", "dispatch", "exited"}
  /\ ev \in [handle : Handle, event : SUBSET EventBit]

\* wait_any reports one ready handle.
wait_any(h) ==
  /\ pc = "wait"
  /\ h \in Pollable
  /\ Collect(h)
  /\ \/ ev' = [handle |-> h, event |-> Poll(h)]
     \/ "poll_error" \in Faults /\ ev' = [handle |-> h, event |-> Poll(h) \cup {"ERROR"}]
  /\ pc' = "dispatch"

\* The handler has returned and main waits again.
BackToLoop == pc' = "wait" /\ ev' = NoEvent

\* The process ends and the kernel closes its handles.
ProcessEnds == CloseAll /\ pc' = "exited" /\ ev' = NoEvent

\* main returns when wait_any fails.
wait_any_failed == pc = "wait" /\ "wait_any" \in Faults /\ ProcessEnds

\* dispatch_event invokes the handler of an event free of errors ...
Dispatched(h) == pc = "dispatch" /\ ev.handle = h /\ "ERROR" \notin ev.event

\* ... which aborts on others (tipc_handle_port_errors, tipc_handle_chan_errors).
tipc_handle_errors ==
  /\ pc = "dispatch" /\ "ERROR" \in ev.event
  /\ ev.handle = Port => port # "bare"
  /\ ProcessEnds

\* Mutant: an event without a handler is ignored.
dispatch_no_handler_ignored ==
  /\ pc = "dispatch" /\ ev.handle = Port /\ port = "bare"
  /\ BackToLoop
  /\ UNCHANGED ipcVars

\* No cookie on the handle: close it.  Only a port can be without one.
dispatch_no_handler ==
  /\ pc = "dispatch" /\ ev.handle = Port /\ port = "bare"
  /\ ClosePort
  /\ BackToLoop
============================================================================
