---------------------------- MODULE TipcChannel ----------------------------
(***************************************************************************)
(* The part of the Trusty kernel IPC the hwcrypto services use, as their    *)
(* code relies on it: one service port, and channels between a client and   *)
(* the service with one receive buffer per direction (both services call    *)
(* port_create with num_recv_bufs = 1).                                     *)
(*                                                                          *)
(* The kernel is not in this repository: everything here is external and is *)
(* modelled from the calls port_create, set_cookie, wait_any, accept,       *)
(* get_msg/put_msg, send_msg and close in main.c, hwrng_srv.c, hwkey_srv.c. *)
(*                                                                          *)
(* A channel name stands for one connection slot.  It is used again for a   *)
(* new connection once both ends of the old one are closed, as the kernel   *)
(* reuses handle numbers.                                                   *)
(***************************************************************************)
CONSTANTS Chan,     \* connection slots
          Port,     \* the handle of the service port
          NoHandle, \* INVALID_IPC_HANDLE
          NoMsg     \* an empty receive buffer

ASSUME HandleAssumption == Port \notin Chan /\ NoHandle \notin Chan \cup {Port}

VARIABLES
  port,      \* "absent", "bare" (created, no cookie), "ready" (cookie set)
  cli,       \* client end: "none", "connecting", "open"
  srv,       \* channels whose server end is open
  inbox,     \* the server's receive buffer of a channel
  outbox,    \* the client's receive buffer of a channel
  blocked,   \* channels where send_msg of the server met a full buffer
  unblocked  \* channels with an uncollected SEND_UNBLOCKED event

ipcVars == <<port, cli, srv, inbox, outbox, blocked, unblocked>>

EventBit == {"READY", "MSG", "HUP", "SEND_UNBLOCKED", "ERROR"}

Handle == Chan \cup {Port, NoHandle}

IpcTypeOK(Req, Rsp) ==
  /\ port \in {"absent", "bare", "ready"}
  /\ cli \in [Chan -> {"none", "connecting", "open"}]
  /\ srv \subseteq Chan
  /\ inbox \in [Chan -> Req \cup {NoMsg}]
  /\ outbox \in [Chan -> Rsp \cup {NoMsg}]
  /\ blocked \subseteq Chan
  /\ unblocked \subseteq Chan

IpcInit ==
  /\ port = "absent"
  /\ cli = [c \in Chan |-> "none"]
  /\ srv = {}
  /\ inbox = [c \in Chan |-> NoMsg]
  /\ outbox = [c \in Chan |-> NoMsg]
  /\ blocked = {}
  /\ unblocked = {}

----------------------------------------------------------------------------
(* What the service sees.                                                  *)

\* The events pending on a handle of the service.
Poll(h) ==
  IF h = Port
  THEN {b \in {"READY"} : \E c \in Chan : cli[c] = "connecting"}
  ELSE {b \in {"HUP"} : cli[h] # "open"}
         \cup {b \in {"MSG"} : inbox[h] # NoMsg}
         \cup {b \in {"SEND_UNBLOCKED"} : h \in unblocked}

\* Handles wait_any can report: open, with an event pending.
Pollable == {h \in srv \cup {p \in {Port} : port # "absent"} : Poll(h) # {}}

\* wait_any collects the event; SEND_UNBLOCKED is reported once.
Collect(h) ==
  /\ unblocked' = unblocked \ {h}
  /\ UNCHANGED <<port, cli, srv, inbox, outbox, blocked>>

\* accept() of the connection on c.
Accept(c) ==
  /\ cli[c] = "connecting"
  /\ cli' = [cli EXCEPT ![c] = "open"]
  /\ srv' = srv \cup {c}
  /\ UNCHANGED <<port, inbox, outbox, blocked, unblocked>>

\* The connection on c is dropped before the service keeps a handle for it:
\* the client finds its end hung up.
Refuse(c) ==
  /\ cli[c] = "connecting"
  /\ cli' = [cli EXCEPT ![c] = "open"]
  /\ UNCHANGED <<port, srv, inbox, outbox, blocked, unblocked>>

\* get_msg, read_msg and put_msg of the message in c's buffer.
Consume(c) ==
  /\ inbox' = [inbox EXCEPT ![c] = NoMsg]
  /\ UNCHANGED <<port, cli, srv, outbox, blocked, unblocked>>

\* close() of the server end of c frees its buffer and its pending events.
CloseChan(c) ==
  /\ srv' = srv \ {c}
  /\ inbox' = [inbox EXCEPT ![c] = NoMsg]
  /\ blocked' = blocked \ {c}
  /\ unblocked' = unblocked \ {c}
  /\ UNCHANGED <<port, cli, outbox>>

\* The value send_msg returns on c.
SendResult(c) ==
  IF cli[c] # "open" THEN "ERR_CHANNEL_CLOSED"
  ELSE IF outbox[c] # NoMsg THEN "ERR_NOT_ENOUGH_BUFFER" ELSE "NO_ERROR"

\* send_msg puts m in the client's buffer ...
Deliver(c, m) ==
  /\ SendResult(c) = "NO_ERROR"
  /\ outbox' = [outbox EXCEPT ![c] = m]
  /\ UNCHANGED <<port, cli, srv, inbox, blocked, unblocked>>

\* ... or finds it full, and the kernel notes that it owes an event.
MeetFull(c) ==
  /\ SendResult(c) = "ERR_NOT_ENOUGH_BUFFER"
  /\ blocked' = blocked \cup {c}
  /\ UNCHANGED <<port, cli, srv, inbox, outbox, unblocked>>

\* Connections still waiting on a port that goes away are hung up.
HangUpConnecting == [c \in Chan |-> IF cli[c] = "connecting" THEN "open" ELSE cli[c]]

ClosePort ==
  /\ port' = "absent"
  /\ cli' = HangUpConnecting
  /\ UNCHANGED <<srv, inbox, outbox, blocked, unblocked>>

\* The kernel closes every handle of a process that exits.
CloseAll ==
  /\ port' = "absent"
  /\ cli' = HangUpConnecting
  /\ srv' = {}
  /\ inbox' = [c \in Chan |-> NoMsg]
  /\ blocked' = {}
  /\ unblocked' = {}
  /\ UNCHANGED outbox

----------------------------------------------------------------------------
(* What clients do, at any time.                                           *)

Connect(c) ==
  /\ port # "absent"
  /\ cli[c] = "none" /\ c \notin srv
  /\ cli' = [cli EXCEPT ![c] = "connecting"]
  /\ UNCHANGED <<port, srv, inbox, outbox, blocked, unblocked>>

Send(c, m) ==
  /\ cli[c] = "open" /\ c \in srv
  /\ inbox[c] = NoMsg
  /\ inbox' = [inbox EXCEPT ![c] = m]
  /\ UNCHANGED <<port, cli, srv, outbox, blocked, unblocked>>

\* The client takes its message; a sender that was refused is told so.
Recv(c) ==
  /\ cli[c] = "open"
  /\ outbox[c] # NoMsg
  /\ outbox' = [outbox EXCEPT ![c] = NoMsg]
  /\ blocked' = blocked \ {c}
  /\ unblocked' = unblocked \cup (blocked \cap {c})
  /\ UNCHANGED <<port, cli, srv, inbox>>

Disconnect(c) ==
  /\ cli[c] # "none"
  /\ cli' = [cli EXCEPT ![c] = "none"]
  /\ outbox' = [outbox EXCEPT ![c] = NoMsg]
  /\ UNCHANGED <<port, srv, inbox, blocked, unblocked>>
============================================================================
