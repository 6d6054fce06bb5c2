---------------------------- MODULE HwrngServer ----------------------------
(***************************************************************************)
(* The HWRNG service of the hwcrypto application (hwrng_srv.c,              *)
(* hwrng_srv_provider.c) run by the event loop of main.c.  The service is   *)
(* single threaded; its clients are other trusted applications that connect,*)
(* send, receive and hang up between any two steps of the service.          *)
(*                                                                          *)
(* A request is the number of bytes asked for, a reply the number of bytes  *)
(* sent.  The random bytes themselves are left out.                         *)
(***************************************************************************)
EXTENDS EventLoop, Integers, Sequences, SequencesExt

CONSTANTS MAX_HWRNG_MSG_SIZE, \* largest reply
          SizeMod,            \* size_t counts modulo SizeMod (2^32 on the target)
          ReqLens,            \* values clients put in hwrng_req.len
          BadMsg,             \* a message that is not a hwrng_req
          MaxOwed             \* bound: bytes a client has requested and not been sent

ASSUME SizeAssumption ==
  /\ MAX_HWRNG_MSG_SIZE \in Nat \ {0}
  /\ SizeMod \in Nat \ {0}
  /\ MaxOwed \in Nat
  /\ ReqLens \subseteq 0 .. SizeMod - 1
  /\ NoMsg \notin Nat \cup {BadMsg}
  /\ BadMsg \notin Nat

VARIABLES
  ctx,            \* channels with an allocated hwrng_chan_ctx
  req_size,       \* ctx->req_size
  send_blocked,   \* channels with ctx->send_blocked set
  hwrng_req_list, \* ctx->node linked: the pending requests, in order
  next,           \* position in the list of the entry visited next (temp)
  owed            \* ghost: bytes requested on the channel and not yet sent

loopVars == <<pc, ev, next>>
srvVars == <<ctx, req_size, send_blocked, hwrng_req_list, owed>>
vars == <<ipcVars, loopVars, srvVars>>

TypeOK ==
  /\ IpcTypeOK(ReqLens \cup {BadMsg}, 0 .. MAX_HWRNG_MSG_SIZE)
  /\ LoopTypeOK({"kick"})
  /\ ctx \subseteq Chan
  /\ req_size \in [Chan -> 0 .. SizeMod - 1]
  /\ send_blocked \subseteq Chan
  /\ hwrng_req_list \in Seq(Chan)
  /\ next \in Nat \ {0}
  /\ owed \in [Chan -> 0 .. MaxOwed]

Init ==
  /\ LoopInit
  /\ ctx = {}
  /\ req_size = [c \in Chan |-> 0]
  /\ send_blocked = {}
  /\ hwrng_req_list = << >>
  /\ next = 1
  /\ owed = [c \in Chan |-> 0]

----------------------------------------------------------------------------
(* The pending list.                                                       *)

\* list_in_list(&ctx->node)
Listed(c) == \E i \in 1 .. Len(hwrng_req_list) : hwrng_req_list[i] = c

Position(c) == CHOOSE i \in 1 .. Len(hwrng_req_list) : hwrng_req_list[i] = c

----------------------------------------------------------------------------
(* Start-up and the event loop.                                            *)

\* A failed port_create is only logged by hwrng_init_srv_provider; a failed
\* set_cookie on the port is ignored.
hwrng_start_service ==
  /\ pc = "start"
  /\ \/ port' = "ready"
     \/ "port_cookie" \in Faults /\ port' = "bare"
     \/ "port_create" \in Faults /\ port' = "absent"
  /\ pc' = "wait"
  /\ UNCHANGED <<cli, srv, inbox, outbox, blocked, unblocked, ev, next, srvVars>>

\* The memory of a process that ended.
ForgetAll ==
  /\ ctx' = {}
  /\ send_blocked' = {}
  /\ hwrng_req_list' = << >>
  /\ next' = 1
  /\ UNCHANGED <<req_size, owed>>

----------------------------------------------------------------------------
(* The port handler.                                                       *)

\* calloc and set_cookie succeed: the channel gets its context.
hwrng_new_ctx(c) ==
  /\ Accept(c)
  /\ ctx' = ctx \cup {c}
  /\ req_size' = [req_size EXCEPT ![c] = 0]
  /\ owed' = [owed EXCEPT ![c] = 0]
  /\ send_blocked' = send_blocked \ {c}
  /\ UNCHANGED hwrng_req_list

\* accept finds no connection when the client has hung up since the event.
hwrng_port_handler ==
  /\ Dispatched(Port) /\ port = "ready"
  /\ \/ \E c \in Chan : hwrng_new_ctx(c)
     \/ \E c \in Chan :
          /\ Faults \cap {"accept", "ctx_setup"} # {}
          /\ Refuse(c)
          /\ UNCHANGED srvVars
     \/ /\ Poll(Port) = {}
        /\ UNCHANGED <<ipcVars, srvVars>>
  /\ BackToLoop
  /\ UNCHANGED next

----------------------------------------------------------------------------
(* The channel handler.                                                    *)

\* Mutant: the context stays in the pending list.
hwrng_close_chan_linked(c) ==
  /\ CloseChan(c)
  /\ ctx' = ctx \ {c}
  /\ send_blocked' = send_blocked \ {c}
  /\ UNCHANGED <<hwrng_req_list, req_size, owed>>

\* Mutant: the context is not freed.
hwrng_close_chan_leak(c) ==
  /\ CloseChan(c)
  /\ hwrng_req_list' = IF Listed(c) THEN RemoveAt(hwrng_req_list, Position(c))
                                    ELSE hwrng_req_list
  /\ UNCHANGED <<ctx, send_blocked, req_size, owed>>

hwrng_close_chan(c) ==
  /\ CloseChan(c)
  /\ ctx' = ctx \ {c}
  /\ hwrng_req_list' = IF Listed(c) THEN RemoveAt(hwrng_req_list, Position(c))
                                    ELSE hwrng_req_list
  /\ send_blocked' = send_blocked \ {c}
  /\ UNCHANGED <<req_size, owed>>

\* Mutant: a second request replaces the pending one.
hwrng_chan_handle_msg_replace(c) ==
  /\ inbox[c] \in ReqLens
  /\ Consume(c)
  /\ req_size' = [req_size EXCEPT ![c] = inbox[c]]
  /\ hwrng_req_list' = IF Listed(c) THEN hwrng_req_list ELSE Append(hwrng_req_list, c)
  /\ owed' = [owed EXCEPT ![c] = owed[c] + inbox[c]]
  /\ UNCHANGED ctx

\* The request in the buffer extends the pending one or is queued.
hwrng_chan_handle_msg(c) ==
  /\ inbox[c] \in ReqLens
  /\ Consume(c)
  /\ req_size' = [req_size EXCEPT ![c] =
                    IF Listed(c) THEN (req_size[c] + inbox[c]) % SizeMod ELSE inbox[c]]
  /\ hwrng_req_list' = IF Listed(c) THEN hwrng_req_list ELSE Append(hwrng_req_list, c)
  /\ owed' = [owed EXCEPT ![c] = owed[c] + inbox[c]]
  /\ UNCHANGED ctx

\* Mutant: SEND_UNBLOCKED is ignored.
StillBlocked_always(c) == send_blocked

\* send_blocked after the event's SEND_UNBLOCKED bit has been looked at.
StillBlocked(c) ==
  IF "SEND_UNBLOCKED" \in ev.event THEN send_blocked \ {c} ELSE send_blocked

hwrng_chan_handler(c) ==
  /\ Dispatched(c) /\ c \in ctx
  /\ \/ "HUP" \in ev.event /\ hwrng_close_chan(c)
     \/ /\ "HUP" \notin ev.event
        /\ \/ "MSG" \in ev.event /\ inbox[c] = BadMsg /\ hwrng_close_chan(c)
           \/ /\ "MSG" \in ev.event
              /\ hwrng_chan_handle_msg(c)
              /\ send_blocked' = StillBlocked(c)
           \/ /\ "MSG" \notin ev.event
              /\ send_blocked' = StillBlocked(c)
              /\ UNCHANGED <<ipcVars, ctx, req_size, hwrng_req_list, owed>>
  /\ pc' = "kick" /\ ev' = NoEvent
  /\ next' = 1

----------------------------------------------------------------------------
(* hwrng_handle_req_queue: one step per entry of the pending list.  Its      *)
(* result, need_more, is dropped by hwrng_kick_req_queue.                   *)

\* Mutant: the reply is not limited to one message.
ChunkLen_unlimited(c) == req_size[c]

ChunkLen(c) == IF req_size[c] > MAX_HWRNG_MSG_SIZE THEN MAX_HWRNG_MSG_SIZE ELSE req_size[c]

\* The reply is sent; the entry leaves the list when nothing remains.
hwrng_send_chunk(c) ==
  /\ Deliver(c, ChunkLen(c))
  /\ req_size' = [req_size EXCEPT ![c] = req_size[c] - ChunkLen(c)]
  /\ owed' = [owed EXCEPT ![c] = owed[c] - ChunkLen(c)]
  /\ IF req_size[c] = ChunkLen(c)
     THEN hwrng_req_list' = RemoveAt(hwrng_req_list, next) /\ UNCHANGED next
     ELSE next' = next + 1 /\ UNCHANGED hwrng_req_list
  /\ UNCHANGED <<ctx, send_blocked>>

\* Mutant: a full buffer is an error like any other.
hwrng_send_full_close(c) ==
  /\ SendResult(c) = "ERR_NOT_ENOUGH_BUFFER"
  /\ hwrng_close_chan(c)
  /\ UNCHANGED next

\* The client has not taken its last reply.
hwrng_send_full(c) ==
  /\ MeetFull(c)
  /\ send_blocked' = send_blocked \cup {c}
  /\ next' = next + 1
  /\ UNCHANGED <<ctx, req_size, hwrng_req_list, owed>>

\* Mutant: the walk ends at a blocked entry.
hwrng_skip_blocked_break(c) ==
  /\ c \in send_blocked
  /\ next' = Len(hwrng_req_list) + 1
  /\ UNCHANGED <<ipcVars, srvVars>>

\* "cant service it right now"
hwrng_skip_blocked(c) ==
  /\ c \in send_blocked
  /\ next' = next + 1
  /\ UNCHANGED <<ipcVars, srvVars>>

hwrng_handle_req_queue ==
  /\ pc = "kick" /\ next <= Len(hwrng_req_list)
  /\ LET c == hwrng_req_list[next] IN
     \/ hwrng_skip_blocked(c)
     \/ /\ c \notin send_blocked
        /\ \/ hwrng_send_chunk(c)
           \/ hwrng_send_full(c)
           \/ SendResult(c) = "ERR_CHANNEL_CLOSED" /\ hwrng_close_chan(c) /\ UNCHANGED next
  /\ UNCHANGED <<pc, ev>>

\* hwrng_dev_get_rng_data asserts that the generator succeeded.
hwrng_dev_get_rng_data_failed ==
  /\ pc = "kick" /\ next <= Len(hwrng_req_list)
  /\ hwrng_req_list[next] \notin send_blocked
  /\ "caam" \in Faults
  /\ ProcessEnds /\ ForgetAll

hwrng_kick_done ==
  /\ pc = "kick" /\ next > Len(hwrng_req_list)
  /\ pc' = "wait" /\ next' = 1
  /\ UNCHANGED <<ipcVars, ev, srvVars>>

----------------------------------------------------------------------------
(* Clients.                                                                *)

\* Bytes the client will be owed once its unread request is read.
Requested(c) == owed[c] + (IF inbox[c] \in ReqLens THEN inbox[c] ELSE 0)

\* The guard is the bound on what a client has outstanding.
ClientRequest(c, n) == Requested(c) + n <= MaxOwed /\ Send(c, n)

Client(c) ==
  /\ \/ Connect(c)
     \/ \E n \in ReqLens : ClientRequest(c, n)
     \/ Send(c, BadMsg)
     \/ Recv(c)
     \/ Disconnect(c)
  /\ UNCHANGED <<loopVars, srvVars>>

----------------------------------------------------------------------------
Wait(h) == wait_any(h) /\ UNCHANGED <<next, srvVars>>

Dispatch == \/ dispatch_no_handler /\ UNCHANGED <<next, srvVars>>
            \/ tipc_handle_errors /\ ForgetAll
            \/ hwrng_port_handler
            \/ \E c \in Chan : hwrng_chan_handler(c)

Kick == \/ hwrng_handle_req_queue
        \/ hwrng_dev_get_rng_data_failed
        \/ hwrng_kick_done

Next == \/ hwrng_start_service
        \/ \E h \in Chan \cup {Port} : Wait(h)
        \/ wait_any_failed /\ ForgetAll
        \/ Dispatch
        \/ Kick
        \/ \E c \in Chan : Client(c)

Spec == Init /\ [][Next]_vars

(***************************************************************************)
(* The service thread keeps running; wait_any reports every handle that     *)
(* stays ready or becomes ready again and again (the kernel takes handles   *)
(* from its ready list in turn).  Nothing is assumed of the clients.        *)
(***************************************************************************)
FairSpec ==
  /\ Spec
  /\ WF_vars(hwrng_start_service)
  /\ WF_vars(Dispatch)
  /\ WF_vars(Kick)
  /\ \A h \in Chan \cup {Port} : SF_vars(Wait(h))

----------------------------------------------------------------------------
(* Properties.                                                             *)

(* The pending list holds live contexts, each once, the position of the     *)
(* list walk stays inside it whatever the walk removes, and an event on a   *)
(* channel finds that channel's context: no freed hwrng_chan_ctx is used    *)
(* (list_for_every_entry_safe with hwrng_close_chan in its body).           *)
ListSound ==
  /\ ctx = srv
  /\ \A i \in 1 .. Len(hwrng_req_list) : hwrng_req_list[i] \in ctx
  /\ \A i, j \in 1 .. Len(hwrng_req_list) :
       hwrng_req_list[i] = hwrng_req_list[j] => i = j
  /\ next <= Len(hwrng_req_list) + 1
  /\ pc = "dispatch" => ev.handle \in ctx \cup {Port}

(* A blocked request always has something left to wake it: the client's     *)
(* buffer is still full with the kernel owing SEND_UNBLOCKED, or the event  *)
(* is pending or being dispatched, or the client has hung up.  Otherwise    *)
(* send_blocked would never be cleared (lines 118-120 and 192-194).         *)
NoLostWakeup ==
  \A c \in send_blocked :
    \/ c \in blocked /\ outbox[c] # NoMsg
    \/ c \in unblocked
    \/ cli[c] # "open"
    \/ pc = "dispatch" /\ ev.handle = c /\ ev.event \cap {"HUP", "SEND_UNBLOCKED", "ERROR"} # {}

(* When no client is owed SizeMod bytes the request counter is the debt:    *)
(* merged requests and partial replies lose and invent nothing, and an      *)
(* unlisted channel is owed nothing ("extend it", hwrng_srv.c:167).         *)
DebtExact ==
  \A c \in ctx : owed[c] = IF Listed(c) THEN req_size[c] ELSE 0

(* When no client is owed more than one reply holds, the service never      *)
(* waits for events with a request it could answer: every pending request   *)
(* has met a full buffer (need_more is dropped by hwrng_kick_req_queue).    *)
NeverIdleWithWork ==
  pc = "wait" => \A i \in 1 .. Len(hwrng_req_list) : hwrng_req_list[i] \in send_blocked

(* A channel is closed by the service only when the client hung up, sent    *)
(* something that is not a request, or the process ended; in particular not *)
(* because a client is slow to take its replies.                            *)
DropsOnlyForCause ==
  [][\A c \in srv \ srv' : cli[c] # "open" \/ inbox[c] = BadMsg \/ pc' = "exited"]_vars

(* Every queued request of a client that takes its replies is worked off    *)
(* (or its channel is given up), whatever the other clients do: one that    *)
(* never takes a reply holds up nobody else ("for all pending requests",    *)
(* "kick state machine").                                                   *)
RequestServed ==
  \A c \in Chan :
    WF_vars(Recv(c) /\ UNCHANGED <<loopVars, srvVars>>) => (Listed(c) ~> ~Listed(c))

(* The context of a client that hung up is freed and its handle closed.     *)
HangupFreed == \A c \in Chan : (c \in ctx /\ cli[c] # "open") ~> (c \notin ctx)

(* The service implements RngService: the list is the set of clients that   *)
(* wait for a reply, req_size their debt, the client's buffer its reply.    *)
Service == INSTANCE RngService WITH
  Peer <- Chan, MaxReply <- MAX_HWRNG_MSG_SIZE, Modulus <- SizeMod, Lens <- ReqLens, NoReply <- NoMsg,
  open <- ctx,
  pending <- {c \in Chan : Listed(c)},
  debt <- [c \in Chan |-> IF Listed(c) THEN req_size[c] ELSE 0],
  reply <- outbox

ImplementsService == Service!ServiceSpec
============================================================================
