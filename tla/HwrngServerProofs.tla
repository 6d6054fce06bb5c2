------------------------- MODULE HwrngServerProofs -------------------------
(***************************************************************************)
(* Proofs about HwrngServer for every set of channels, every reply size,    *)
(* every width of size_t and every combination of failing calls.            *)
(*                                                                          *)
(* IndInv is the inductive invariant.  ListSound and NoLostWakeup are not   *)
(* inductive alone: a blocked context must be a live one, a connection that *)
(* is not accepted yet must have no open server end, a HUP that is being    *)
(* dispatched must still be true, and the request counter must not exceed   *)
(* what the client is owed.                                                 *)
(***************************************************************************)
EXTENDS HwrngServer, SequenceTheorems, TLAPS

(* Only a live context is marked send_blocked.                              *)
BlockedIsLive == send_blocked \subseteq ctx

(* A connection that was not accepted yet has no open server end.           *)
ConnectingIsFresh == \A c \in Chan : cli[c] = "connecting" => c \notin srv

(* A hang-up that is being dispatched is not undone: the slot is not        *)
(* connected again before the server end is closed.                         *)
HangupIsFinal ==
  \A c \in Chan : pc = "dispatch" /\ ev.handle = c /\ "HUP" \in ev.event => cli[c] # "open"

(* Outstanding requests respect the bound, and the counter of a pending     *)
(* request never exceeds the debt.                                          *)
DebtBounded ==
  \A c \in Chan : /\ Requested(c) <= MaxOwed
                  /\ Listed(c) => req_size[c] <= owed[c]

(* The inductive invariant.                                                 *)
IndInv == /\ TypeOK
          /\ ListSound
          /\ BlockedIsLive
          /\ ConnectingIsFresh
          /\ HangupIsFinal
          /\ NoLostWakeup
          /\ DebtBounded

----------------------------------------------------------------------------
(* Sequences.                                                              *)

(* RemoveAt takes out one element and closes the gap (list_delete).         *)
LEMMA RemoveAtProperties ==
  ASSUME NEW S, NEW s \in Seq(S), NEW i \in 1 .. Len(s)
  PROVE  /\ RemoveAt(s, i) \in Seq(S)
         /\ Len(RemoveAt(s, i)) = Len(s) - 1
         /\ \A j \in 1 .. Len(s) - 1 :
              RemoveAt(s, i)[j] = IF j < i THEN s[j] ELSE s[j + 1]
<1> DEFINE a == SubSeq(s, 1, i - 1)
           b == SubSeq(s, i + 1, Len(s))
<1>1. /\ a \in Seq(S) /\ Len(a) = i - 1
      /\ \A j \in 1 .. i - 1 : a[j] = s[j]
  OBVIOUS
<1>2. /\ b \in Seq(S) /\ Len(b) = Len(s) - i
      /\ \A j \in 1 .. Len(s) - i : b[j] = s[i + j]
  OBVIOUS
<1> HIDE DEF a, b
<1>3. /\ a \o b \in Seq(S) /\ Len(a \o b) = Len(s) - 1
      /\ \A j \in 1 .. Len(s) - 1 : (a \o b)[j] = IF j <= Len(a) THEN a[j] ELSE b[j - Len(a)]
  <2>1. /\ a \o b \in Seq(S)
        /\ Len(a \o b) = Len(a) + Len(b)
        /\ \A j \in 1 .. Len(a) + Len(b) : (a \o b)[j] = IF j <= Len(a) THEN a[j] ELSE b[j - Len(a)]
    BY <1>1, <1>2, ConcatProperties
  <2>2. Len(a) + Len(b) = Len(s) - 1
    BY <1>1, <1>2
  <2> QED
    BY <2>1, <2>2
<1>4. RemoveAt(s, i) = a \o b
  BY DEF RemoveAt, a, b
<1>5. ASSUME NEW j \in 1 .. Len(s) - 1
      PROVE  (a \o b)[j] = IF j < i THEN s[j] ELSE s[j + 1]
  <2> /\ j \in Int /\ i \in Int
    OBVIOUS
  <2>1. CASE j < i
    BY <1>1, <1>3, <2>1
  <2>2. CASE ~(j < i)
    <3> DEFINE k == j - (i - 1)
    <3>1. k \in 1 .. Len(s) - i /\ i + k = j + 1
      BY <2>2
    <3>2. b[k] = s[i + k]
      BY <1>2, <3>1
    <3>3. (a \o b)[j] = b[k]
      BY <1>1, <1>3, <2>2
    <3> QED
      BY <2>2, <3>1, <3>2, <3>3
  <2> QED
    BY <2>1, <2>2
<1> QED
  BY <1>3, <1>4, <1>5

NoDuplicates(s) == \A i, j \in 1 .. Len(s) : s[i] = s[j] => i = j

Occurs(s, x) == \E i \in 1 .. Len(s) : s[i] = x

(* Removing an element of a list without duplicates removes that element    *)
(* and no other, and leaves the elements before it in place.                *)
LEMMA RemoveFromList ==
  ASSUME NEW S, NEW s \in Seq(S), NoDuplicates(s), NEW i \in 1 .. Len(s)
  PROVE  LET t == RemoveAt(s, i) IN
         /\ t \in Seq(S)
         /\ Len(t) = Len(s) - 1
         /\ NoDuplicates(t)
         /\ \A x : Occurs(t, x) <=> Occurs(s, x) /\ x # s[i]
         /\ \A j \in 1 .. Len(t) : j < i => t[j] = s[j]
<1> DEFINE t == RemoveAt(s, i)
<1>1. /\ t \in Seq(S) /\ Len(t) = Len(s) - 1
      /\ \A j \in 1 .. Len(s) - 1 : t[j] = IF j < i THEN s[j] ELSE s[j + 1]
  BY RemoveAtProperties
<1> HIDE DEF t
<1>2. NoDuplicates(t)
  BY <1>1 DEF NoDuplicates
<1>3. ASSUME NEW x, Occurs(t, x) PROVE Occurs(s, x) /\ x # s[i]
  <2>1. PICK j \in 1 .. Len(t) : t[j] = x
    BY <1>3 DEF Occurs
  <2>2. CASE j < i
    BY <1>1, <2>1, <2>2 DEF Occurs, NoDuplicates
  <2>3. CASE ~(j < i)
    BY <1>1, <2>1, <2>3 DEF Occurs, NoDuplicates
  <2> QED
    BY <2>2, <2>3
<1>4. ASSUME NEW x, Occurs(s, x), x # s[i] PROVE Occurs(t, x)
  <2>1. PICK j \in 1 .. Len(s) : s[j] = x
    BY <1>4 DEF Occurs
  <2>2. CASE j < i
    BY <1>1, <2>1, <2>2 DEF Occurs
  <2>3. CASE j > i
    <3>1. j - 1 \in 1 .. Len(t) /\ ~(j - 1 < i) /\ (j - 1) + 1 = j
      BY <1>1, <2>3
    <3>2. t[j - 1] = s[j]
      BY <1>1, <3>1
    <3> QED
      BY <2>1, <3>1, <3>2 DEF Occurs
  <2> QED
    BY <1>4, <2>1, <2>2, <2>3
<1>5. \A j \in 1 .. Len(t) : j < i => t[j] = s[j]
  BY <1>1
<1> QED
  BY <1>1, <1>2, <1>3, <1>4, <1>5 DEF t

(* Appending an element that does not occur (list_add_tail).                *)
LEMMA AppendToList ==
  ASSUME NEW S, NEW s \in Seq(S), NoDuplicates(s), NEW e \in S, ~Occurs(s, e)
  PROVE  /\ Append(s, e) \in Seq(S)
         /\ Len(Append(s, e)) = Len(s) + 1
         /\ NoDuplicates(Append(s, e))
         /\ \A x : Occurs(Append(s, e), x) <=> Occurs(s, x) \/ x = e
<1>1. /\ Append(s, e) \in Seq(S)
      /\ Len(Append(s, e)) = Len(s) + 1
      /\ \A i \in 1 .. Len(s) : Append(s, e)[i] = s[i]
      /\ Append(s, e)[Len(s) + 1] = e
  BY AppendProperties
<1>2. NoDuplicates(Append(s, e))
  BY <1>1 DEF NoDuplicates, Occurs
<1>3. ASSUME NEW x PROVE Occurs(Append(s, e), x) <=> Occurs(s, x) \/ x = e
  BY <1>1 DEF Occurs
<1> QED
  BY <1>1, <1>2, <1>3

----------------------------------------------------------------------------
(* The steps of the system, one name for each way a handler can go.         *)

Ended == ProcessEnds /\ ForgetAll
PortClosed == dispatch_no_handler /\ UNCHANGED <<next, srvVars>>
Opened(c) == Dispatched(Port) /\ hwrng_new_ctx(c) /\ BackToLoop /\ UNCHANGED next
Refused(c) == Dispatched(Port) /\ Refuse(c) /\ BackToLoop /\ UNCHANGED <<next, srvVars>>
NothingToAccept == Dispatched(Port) /\ BackToLoop /\ UNCHANGED <<ipcVars, next, srvVars>>

Kicks == pc' = "kick" /\ ev' = NoEvent /\ next' = 1

HandlerCloses(c) ==
  /\ Dispatched(c) /\ c \in ctx
  /\ "HUP" \in ev.event \/ inbox[c] = BadMsg
  /\ hwrng_close_chan(c)
  /\ Kicks

HandlerReads(c) ==
  /\ Dispatched(c) /\ c \in ctx
  /\ "HUP" \notin ev.event
  /\ hwrng_chan_handle_msg(c)
  /\ send_blocked' = StillBlocked(c)
  /\ Kicks

HandlerWakes(c) ==
  /\ Dispatched(c) /\ c \in ctx
  /\ "HUP" \notin ev.event
  /\ send_blocked' = StillBlocked(c)
  /\ UNCHANGED <<ipcVars, ctx, req_size, hwrng_req_list, owed>>
  /\ Kicks

Visits(c) ==
  /\ pc = "kick" /\ next <= Len(hwrng_req_list) /\ c = hwrng_req_list[next]
  /\ UNCHANGED <<pc, ev>>

KickSkips(c) == Visits(c) /\ hwrng_skip_blocked(c)
KickSends(c) == Visits(c) /\ c \notin send_blocked /\ hwrng_send_chunk(c)
KickMeetsFull(c) == Visits(c) /\ c \notin send_blocked /\ hwrng_send_full(c)
KickCloses(c) ==
  /\ Visits(c)
  /\ SendResult(c) = "ERR_CHANNEL_CLOSED" /\ hwrng_close_chan(c) /\ UNCHANGED next

ServerStep(c) == \/ Opened(c) \/ Refused(c)
                 \/ HandlerCloses(c) \/ HandlerReads(c) \/ HandlerWakes(c)
                 \/ KickSkips(c) \/ KickSends(c) \/ KickMeetsFull(c) \/ KickCloses(c)

ClientStep(c) == /\ \/ Connect(c)
                    \/ \E n \in ReqLens : ClientRequest(c, n)
                    \/ Send(c, BadMsg)
                    \/ Recv(c)
                    \/ Disconnect(c)
                 /\ UNCHANGED <<loopVars, srvVars>>

(* Every step is one of these.                                              *)
LEMMA StepCases ==
  ASSUME IndInv, [Next]_vars
  PROVE  \/ UNCHANGED vars
         \/ hwrng_start_service
         \/ \E h \in Chan \cup {Port} : Wait(h)
         \/ Ended
         \/ PortClosed
         \/ NothingToAccept
         \/ hwrng_kick_done
         \/ \E c \in Chan : ServerStep(c)
         \/ \E c \in Chan : ClientStep(c)
<1> USE DEF ServerStep
<1>1. CASE hwrng_port_handler
  BY <1>1 DEF hwrng_port_handler, Opened, Refused, NothingToAccept
<1>2. ASSUME NEW c \in Chan, hwrng_chan_handler(c)
      PROVE  ServerStep(c)
  BY <1>2 DEF hwrng_chan_handler, HandlerCloses, HandlerReads, HandlerWakes, Kicks
<1>3. CASE hwrng_handle_req_queue
  <2>1. hwrng_req_list[next] \in Chan
    BY <1>3 DEF hwrng_handle_req_queue, IndInv, TypeOK
  <2> QED
    BY <1>3, <2>1 DEF hwrng_handle_req_queue, Visits, KickSkips, KickSends, KickMeetsFull, KickCloses
<1>4. CASE \/ wait_any_failed /\ ForgetAll
           \/ tipc_handle_errors /\ ForgetAll
           \/ hwrng_dev_get_rng_data_failed
  BY <1>4 DEF wait_any_failed, tipc_handle_errors, hwrng_dev_get_rng_data_failed, Ended
<1>5. ASSUME NEW c \in Chan, Client(c) PROVE ClientStep(c)
  BY <1>5 DEF Client, ClientStep
<1> QED
  BY <1>1, <1>2, <1>3, <1>4, <1>5 DEF Next, Dispatch, Kick, PortClosed

----------------------------------------------------------------------------
(* The pending list under the steps that change it.                         *)

(* What IndInv says of the list, in the terms of the lemmas on sequences.   *)
LEMMA ListFacts ==
  ASSUME IndInv
  PROVE  /\ hwrng_req_list \in Seq(Chan)
         /\ Len(hwrng_req_list) \in Nat
         /\ NoDuplicates(hwrng_req_list)
         /\ \A d : Listed(d) <=> Occurs(hwrng_req_list, d)
         /\ \A d : Listed(d) => d \in ctx /\ d \in Chan
BY DEF IndInv, TypeOK, ListSound, NoDuplicates, Listed, Occurs

(* hwrng_close_chan takes the channel out of the list, wherever it is.      *)
LEMMA CloseUnlinks ==
  ASSUME IndInv, NEW c \in Chan, hwrng_close_chan(c)
  PROVE  /\ hwrng_req_list' \in Seq(Chan)
         /\ NoDuplicates(hwrng_req_list')
         /\ \A d : Listed(d)' <=> Listed(d) /\ d # c
         /\ \A n \in 1 .. Len(hwrng_req_list) : hwrng_req_list[n] = c =>
              /\ Len(hwrng_req_list') = Len(hwrng_req_list) - 1
              /\ \A j \in 1 .. Len(hwrng_req_list') : j < n => hwrng_req_list'[j] = hwrng_req_list[j]
<1>0. \A d : Listed(d)' <=> Occurs(hwrng_req_list', d)
  BY DEF Listed, Occurs
<1>1. CASE ~Listed(c)
  BY <1>0, <1>1, ListFacts DEF hwrng_close_chan, Listed, Occurs
<1>2. CASE Listed(c)
  <2>1. Position(c) \in 1 .. Len(hwrng_req_list) /\ hwrng_req_list[Position(c)] = c
    BY <1>2 DEF Listed, Position
  <2>2. hwrng_req_list' = RemoveAt(hwrng_req_list, Position(c))
    BY <1>2 DEF hwrng_close_chan
  <2>3. \A n \in 1 .. Len(hwrng_req_list) : hwrng_req_list[n] = c => n = Position(c)
    BY <2>1, ListFacts DEF NoDuplicates
  <2>4. /\ hwrng_req_list' \in Seq(Chan)
        /\ Len(hwrng_req_list') = Len(hwrng_req_list) - 1
        /\ NoDuplicates(hwrng_req_list')
        /\ \A x : Occurs(hwrng_req_list', x) <=> Occurs(hwrng_req_list, x) /\ x # hwrng_req_list[Position(c)]
        /\ \A j \in 1 .. Len(hwrng_req_list') : j < Position(c) => hwrng_req_list'[j] = hwrng_req_list[j]
    BY <2>1, <2>2, ListFacts, RemoveFromList
  <2> QED
    BY <1>0, <2>1, <2>3, <2>4, ListFacts
<1> QED
  BY <1>1, <1>2

(* Reading a request puts its channel in the list, once.                    *)
LEMMA ReadLinks ==
  ASSUME IndInv, NEW c \in Chan, hwrng_chan_handle_msg(c)
  PROVE  /\ hwrng_req_list' \in Seq(Chan)
         /\ NoDuplicates(hwrng_req_list')
         /\ \A d : Listed(d)' <=> Listed(d) \/ d = c
<1>0. \A d : Listed(d)' <=> Occurs(hwrng_req_list', d)
  BY DEF Listed, Occurs
<1>1. CASE Listed(c)
  BY <1>0, <1>1, ListFacts DEF hwrng_chan_handle_msg
<1>2. CASE ~Listed(c)
  <2>1. hwrng_req_list' = Append(hwrng_req_list, c)
    BY <1>2 DEF hwrng_chan_handle_msg
  <2> QED
    BY <1>0, <1>2, <2>1, ListFacts, AppendToList
<1> QED
  BY <1>1, <1>2

(* A reply takes the channel out of the list or leaves the list alone.      *)
LEMMA SendUnlinks ==
  ASSUME IndInv, NEW c \in Chan, KickSends(c)
  PROVE  /\ hwrng_req_list' \in Seq(Chan)
         /\ NoDuplicates(hwrng_req_list')
         /\ next \in 1 .. Len(hwrng_req_list) /\ Listed(c)
         /\ \/ /\ req_size[c] = ChunkLen(c)
               /\ Len(hwrng_req_list') = Len(hwrng_req_list) - 1
               /\ next' = next
               /\ \A d : Listed(d)' <=> Listed(d) /\ d # c
               /\ \A j \in 1 .. Len(hwrng_req_list') : j < next => hwrng_req_list'[j] = hwrng_req_list[j]
            \/ /\ req_size[c] # ChunkLen(c)
               /\ next' = next + 1
               /\ hwrng_req_list' = hwrng_req_list
               /\ \A d : Listed(d)' <=> Listed(d)
<1>0. \A d : Listed(d)' <=> Occurs(hwrng_req_list', d)
  BY DEF Listed, Occurs
<1>1. next \in 1 .. Len(hwrng_req_list) /\ c = hwrng_req_list[next] /\ Listed(c)
  BY ListFacts DEF KickSends, Visits, IndInv, TypeOK, Listed
<1>2. CASE req_size[c] = ChunkLen(c)
  <2>1. hwrng_req_list' = RemoveAt(hwrng_req_list, next) /\ next' = next
    BY <1>2 DEF KickSends, hwrng_send_chunk
  <2>2. /\ hwrng_req_list' \in Seq(Chan)
        /\ Len(hwrng_req_list') = Len(hwrng_req_list) - 1
        /\ NoDuplicates(hwrng_req_list')
        /\ \A x : Occurs(hwrng_req_list', x) <=> Occurs(hwrng_req_list, x) /\ x # hwrng_req_list[next]
        /\ \A j \in 1 .. Len(hwrng_req_list') : j < next => hwrng_req_list'[j] = hwrng_req_list[j]
    <3>1. next \in 1 .. Len(hwrng_req_list)
      BY <1>1
    <3>2. hwrng_req_list \in Seq(Chan) /\ NoDuplicates(hwrng_req_list)
      BY ListFacts
    <3>3. hwrng_req_list' = RemoveAt(hwrng_req_list, next)
      BY <2>1
    <3> QED
      BY ONLY <3>1, <3>2, <3>3, RemoveFromList
  <2> QED
    BY <1>0, <1>1, <1>2, <2>1, <2>2, ListFacts
<1>3. CASE req_size[c] # ChunkLen(c)
  BY <1>0, <1>1, <1>3, ListFacts DEF KickSends, hwrng_send_chunk
<1> QED
  BY <1>2, <1>3

----------------------------------------------------------------------------
(* Numbers.                                                                *)

(* A requested length is a size_t.                                          *)
LEMMA LenFacts ==
  ASSUME NEW n \in ReqLens
  PROVE  n \in 0 .. SizeMod - 1 /\ n \in Nat
<1>1. n \in 0 .. SizeMod - 1
  BY SizeAssumption
<1> QED
  BY <1>1, SizeAssumption

(* size_t arithmetic never yields more than the exact sum, and yields it    *)
(* when it fits.                                                            *)
LEMMA ModFacts ==
  ASSUME NEW x \in Nat
  PROVE  /\ x % SizeMod \in 0 .. SizeMod - 1
         /\ x % SizeMod <= x
         /\ x < SizeMod => x % SizeMod = x
BY SizeAssumption

(* A reply is no longer than one message nor than what is left.             *)
LEMMA ChunkFacts ==
  ASSUME IndInv, NEW c \in Chan
  PROVE  /\ ChunkLen(c) \in 0 .. MAX_HWRNG_MSG_SIZE
         /\ ChunkLen(c) <= req_size[c]
         /\ req_size[c] <= MAX_HWRNG_MSG_SIZE => ChunkLen(c) = req_size[c]
         /\ req_size[c] \in 0 .. SizeMod - 1
BY SizeAssumption DEF IndInv, TypeOK, ChunkLen

----------------------------------------------------------------------------
(* IndInv is inductive: one lemma per part.                                 *)

(* Every step keeps the state well typed (no reply above                    *)
(* MAX_HWRNG_MSG_SIZE, no counter outside size_t).                          *)
LEMMA TypeStep ==
  ASSUME IndInv, [Next]_vars
  PROVE  TypeOK'
<1> USE DEF IpcTypeOK, LoopTypeOK, ipcVars, srvVars, loopVars
<1>0. TypeOK
  BY DEF IndInv
<1>1. CASE UNCHANGED vars
  BY <1>0, <1>1 DEF TypeOK, vars
<1>2. CASE hwrng_start_service
  BY <1>0, <1>2 DEF TypeOK, hwrng_start_service
<1>3. ASSUME NEW h \in Chan \cup {Port}, Wait(h) PROVE TypeOK'
  <2>1. Poll(h) \subseteq EventBit
    BY DEF Poll, EventBit
  <2>2. ev' \in [handle : Handle, event : SUBSET EventBit]
    BY <1>3, <2>1 DEF Wait, wait_any, Handle, EventBit
  <2> QED
    BY <1>0, <1>3, <2>2 DEF TypeOK, Wait, wait_any, Collect
<1>4. CASE Ended
  BY <1>0, <1>4 DEF TypeOK, Ended, ProcessEnds, CloseAll, HangUpConnecting, ForgetAll, NoEvent, Handle
<1>5. CASE PortClosed
  BY <1>0, <1>5 DEF TypeOK, PortClosed, dispatch_no_handler, ClosePort, HangUpConnecting, BackToLoop,
                    NoEvent, Handle
<1>6. CASE NothingToAccept
  BY <1>0, <1>6 DEF TypeOK, NothingToAccept, BackToLoop, NoEvent, Handle
<1>7. CASE hwrng_kick_done
  BY <1>0, <1>7 DEF TypeOK, hwrng_kick_done
<1>8. ASSUME NEW c \in Chan, ServerStep(c) PROVE TypeOK'
  <2>1. CASE Opened(c)
    BY <1>0, <2>1, SizeAssumption
    DEF TypeOK, Opened, hwrng_new_ctx, Accept, BackToLoop, NoEvent, Handle
  <2>2. CASE Refused(c)
    BY <1>0, <2>2 DEF TypeOK, Refused, Refuse, BackToLoop, NoEvent, Handle
  <2>3. CASE HandlerCloses(c)
    <3>1. hwrng_req_list' \in Seq(Chan)
      BY <2>3, CloseUnlinks DEF HandlerCloses
    <3> QED
      BY <1>0, <2>3, <3>1
      DEF TypeOK, HandlerCloses, hwrng_close_chan, CloseChan, Kicks, NoEvent, Handle
  <2>4. CASE HandlerReads(c)
    <3>1. hwrng_req_list' \in Seq(Chan)
      BY <2>4, ReadLinks DEF HandlerReads
    <3>2. inbox[c] \in 0 .. SizeMod - 1 /\ inbox[c] \in Nat
      <4>1. inbox[c] \in ReqLens
        BY <2>4 DEF HandlerReads, hwrng_chan_handle_msg
      <4> QED
        BY <4>1, LenFacts
    <3>3. req_size' \in [Chan -> 0 .. SizeMod - 1]
      <4>1. req_size[c] + inbox[c] \in Nat
        BY <1>0, <3>2, SizeAssumption DEF TypeOK
      <4>2. (req_size[c] + inbox[c]) % SizeMod \in 0 .. SizeMod - 1
        BY <4>1, ModFacts
      <4> QED
        BY <1>0, <2>4, <3>2, <4>2 DEF TypeOK, HandlerReads, hwrng_chan_handle_msg
    <3>4. owed[c] + inbox[c] \in 0 .. MaxOwed
      BY <1>0, <2>4, <3>2, SizeAssumption
      DEF TypeOK, IndInv, DebtBounded, Requested, HandlerReads, hwrng_chan_handle_msg
    <3>5. owed' \in [Chan -> 0 .. MaxOwed]
      BY <1>0, <2>4, <3>4 DEF TypeOK, HandlerReads, hwrng_chan_handle_msg
    <3> QED
      BY <1>0, <2>4, <3>1, <3>3, <3>5
      DEF TypeOK, HandlerReads, hwrng_chan_handle_msg, Consume, StillBlocked, Kicks, NoEvent, Handle
  <2>5. CASE HandlerWakes(c)
    BY <1>0, <2>5 DEF TypeOK, HandlerWakes, StillBlocked, Kicks, NoEvent, Handle
  <2>6. CASE KickSkips(c)
    BY <1>0, <2>6 DEF TypeOK, KickSkips, Visits, hwrng_skip_blocked
  <2>7. CASE KickSends(c)
    <3>1. hwrng_req_list' \in Seq(Chan) /\ next' \in Nat \ {0} /\ Listed(c)
      <4>1. hwrng_req_list' \in Seq(Chan) /\ Listed(c)
        BY <2>7, SendUnlinks
      <4>2. next' = next \/ next' = next + 1
        BY <2>7 DEF KickSends, hwrng_send_chunk
      <4>3. next \in Nat \ {0}
        BY <1>0 DEF TypeOK
      <4> QED
        BY <4>1, <4>2, <4>3
    <3>2. req_size[c] - ChunkLen(c) \in 0 .. SizeMod - 1
      BY ChunkFacts, SizeAssumption
    <3>3. owed[c] - ChunkLen(c) \in 0 .. MaxOwed
      BY <1>0, <3>1, ChunkFacts, SizeAssumption DEF TypeOK, IndInv, DebtBounded
    <3> QED
      BY <1>0, <2>7, <3>1, <3>2, <3>3, ChunkFacts
      DEF TypeOK, KickSends, Visits, hwrng_send_chunk, Deliver
  <2>8. CASE KickMeetsFull(c)
    BY <1>0, <2>8 DEF TypeOK, KickMeetsFull, Visits, hwrng_send_full, MeetFull
  <2>9. CASE KickCloses(c)
    BY <1>0, <2>9, CloseUnlinks DEF TypeOK, KickCloses, Visits, hwrng_close_chan, CloseChan
  <2> QED
    BY <1>8, <2>1, <2>2, <2>3, <2>4, <2>5, <2>6, <2>7, <2>8, <2>9 DEF ServerStep
<1>9. ASSUME NEW c \in Chan, ClientStep(c) PROVE TypeOK'
  <2>0. UNCHANGED <<loopVars, srvVars>>
    BY <1>9 DEF ClientStep
  <2>1. CASE Connect(c)
    BY <1>0, <2>0, <2>1 DEF TypeOK, Connect
  <2>2. ASSUME NEW m \in ReqLens \cup {BadMsg}, Send(c, m) PROVE TypeOK'
    BY <1>0, <2>0, <2>2 DEF TypeOK, Send
  <2>3. CASE Recv(c)
    BY <1>0, <2>0, <2>3 DEF TypeOK, Recv
  <2>4. CASE Disconnect(c)
    BY <1>0, <2>0, <2>4 DEF TypeOK, Disconnect
  <2> QED
    BY <1>9, <2>1, <2>2, <2>3, <2>4 DEF ClientStep, ClientRequest
<1> QED
  BY <1>1, <1>2, <1>3, <1>4, <1>5, <1>6, <1>7, <1>8, <1>9, StepCases

(* Every step keeps the pending list sound (hwrng_close_chan,               *)
(* hwrng_chan_handle_msg, the walk of hwrng_handle_req_queue).              *)
LEMMA ListStep ==
  ASSUME IndInv, [Next]_vars, TypeOK'
  PROVE  ListSound'
<1> USE DEF ipcVars, srvVars, loopVars
<1>0. TypeOK /\ ListSound
  BY DEF IndInv
<1>a. ListSound' <=> /\ ctx' = srv'
                     /\ \A d : Listed(d)' => d \in ctx'
                     /\ NoDuplicates(hwrng_req_list')
                     /\ next' <= Len(hwrng_req_list') + 1
                     /\ pc' = "dispatch" => ev'.handle \in ctx' \cup {Port}
  BY DEF ListSound, Listed, NoDuplicates
<1>b. hwrng_req_list' = hwrng_req_list => \A d : Listed(d)' <=> Listed(d)
  BY DEF Listed
<1>c. /\ ctx = srv
      /\ next <= Len(hwrng_req_list) + 1 /\ next \in Nat \ {0}
      /\ pc = "dispatch" => ev.handle \in ctx \cup {Port}
  BY <1>0 DEF ListSound, TypeOK
<1>1. CASE UNCHANGED vars
  BY <1>a, <1>b, <1>c, <1>1, ListFacts DEF vars
<1>2. CASE hwrng_start_service
  BY <1>a, <1>b, <1>c, <1>2, ListFacts DEF hwrng_start_service
<1>3. ASSUME NEW h \in Chan \cup {Port}, Wait(h) PROVE ListSound'
  <2>1. h \in ctx \cup {Port} /\ ev'.handle = h
    BY <1>c, <1>3 DEF Wait, wait_any, Pollable
  <2> QED
    BY <1>a, <1>b, <1>c, <1>3, <2>1, ListFacts DEF Wait, wait_any, Collect
<1>4. CASE Ended
  BY <1>a, <1>4 DEF Ended, ProcessEnds, CloseAll, ForgetAll, Listed, NoDuplicates
<1>5. CASE PortClosed
  BY <1>a, <1>b, <1>c, <1>5, ListFacts DEF PortClosed, dispatch_no_handler, ClosePort, BackToLoop
<1>6. CASE NothingToAccept
  BY <1>a, <1>b, <1>c, <1>6, ListFacts DEF NothingToAccept, BackToLoop
<1>7. CASE hwrng_kick_done
  BY <1>a, <1>b, <1>c, <1>7, ListFacts DEF hwrng_kick_done
<1>8. ASSUME NEW c \in Chan, ServerStep(c) PROVE ListSound'
  <2>1. CASE Opened(c)
    BY <1>a, <1>b, <1>c, <2>1, ListFacts DEF Opened, hwrng_new_ctx, Accept, BackToLoop
  <2>2. CASE Refused(c)
    BY <1>a, <1>b, <1>c, <2>2, ListFacts DEF Refused, Refuse, BackToLoop
  <2>3. CASE HandlerCloses(c)
    <3>1. NoDuplicates(hwrng_req_list') /\ \A d : Listed(d)' <=> Listed(d) /\ d # c
      BY <2>3, CloseUnlinks DEF HandlerCloses
    <3>2. next' = 1 /\ Len(hwrng_req_list') \in Nat /\ pc' = "kick"
      BY <2>3 DEF HandlerCloses, Kicks, TypeOK
    <3>3. ctx' = ctx \ {c} /\ srv' = srv \ {c}
      BY <2>3 DEF HandlerCloses, hwrng_close_chan, CloseChan
    <3> QED
      BY <1>a, <1>c, <3>1, <3>2, <3>3, ListFacts
  <2>4. CASE HandlerReads(c)
    <3>1. NoDuplicates(hwrng_req_list') /\ \A d : Listed(d)' <=> Listed(d) \/ d = c
      BY <2>4, ReadLinks DEF HandlerReads
    <3>2. next' = 1 /\ Len(hwrng_req_list') \in Nat /\ pc' = "kick"
      BY <2>4 DEF HandlerReads, Kicks, TypeOK
    <3>3. ctx' = ctx /\ srv' = srv /\ c \in ctx
      BY <2>4 DEF HandlerReads, hwrng_chan_handle_msg, Consume
    <3> QED
      BY <1>a, <1>c, <3>1, <3>2, <3>3, ListFacts
  <2>5. CASE HandlerWakes(c)
    BY <1>a, <1>b, <1>c, <2>5, ListFacts DEF HandlerWakes, Kicks
  <2>6. CASE KickSkips(c)
    BY <1>a, <1>b, <1>c, <2>6, ListFacts DEF KickSkips, Visits, hwrng_skip_blocked
  <2>7. CASE KickSends(c)
    <3>1. NoDuplicates(hwrng_req_list') /\ next' <= Len(hwrng_req_list') + 1
      BY <1>c, <2>7, SendUnlinks, ListFacts
    <3>2. \A d : Listed(d)' => Listed(d)
      BY <2>7, SendUnlinks
    <3>3. ctx' = ctx /\ srv' = srv /\ pc' = "kick"
      BY <2>7 DEF KickSends, Visits, hwrng_send_chunk, Deliver
    <3> QED
      BY <1>a, <1>c, <3>1, <3>2, <3>3, ListFacts
  <2>8. CASE KickMeetsFull(c)
    BY <1>a, <1>b, <1>c, <2>8, ListFacts DEF KickMeetsFull, Visits, hwrng_send_full, MeetFull
  <2>9. CASE KickCloses(c)
    <3>1. NoDuplicates(hwrng_req_list') /\ \A d : Listed(d)' <=> Listed(d) /\ d # c
      BY <2>9, CloseUnlinks DEF KickCloses
    <3>2. next' = next /\ next \in 1 .. Len(hwrng_req_list) /\ hwrng_req_list[next] = c /\ pc' = "kick"
      BY <1>c, <2>9, ListFacts DEF KickCloses, Visits
    <3>3. Len(hwrng_req_list') = Len(hwrng_req_list) - 1
      BY <2>9, <3>2, CloseUnlinks DEF KickCloses
    <3>4. ctx' = ctx \ {c} /\ srv' = srv \ {c}
      BY <2>9 DEF KickCloses, hwrng_close_chan, CloseChan
    <3> QED
      BY <1>a, <1>c, <3>1, <3>2, <3>3, <3>4, ListFacts
  <2> QED
    BY <1>8, <2>1, <2>2, <2>3, <2>4, <2>5, <2>6, <2>7, <2>8, <2>9 DEF ServerStep
<1>9. ASSUME NEW c \in Chan, ClientStep(c) PROVE ListSound'
  BY <1>a, <1>b, <1>c, <1>9, ListFacts
  DEF ClientStep, Connect, ClientRequest, Send, Recv, Disconnect
<1> QED
  BY <1>1, <1>2, <1>3, <1>4, <1>5, <1>6, <1>7, <1>8, <1>9, StepCases

(* Every step keeps the relation of contexts, connections and dispatched    *)
(* events (accept, close, hang-up).                                         *)
LEMMA ConnectionStep ==
  ASSUME IndInv, [Next]_vars
  PROVE  BlockedIsLive' /\ ConnectingIsFresh' /\ HangupIsFinal'
<1> USE DEF ipcVars, srvVars, loopVars
<1>0. /\ TypeOK /\ BlockedIsLive /\ ConnectingIsFresh /\ HangupIsFinal
      /\ ctx = srv
      /\ pc = "dispatch" => ev.handle \in srv \cup {Port}
  BY DEF IndInv, ListSound
<1> DEFINE Goal == BlockedIsLive /\ ConnectingIsFresh /\ HangupIsFinal
<1> USE DEF BlockedIsLive, ConnectingIsFresh, HangupIsFinal
<1>1. CASE UNCHANGED vars
  BY <1>0, <1>1 DEF vars
<1>2. CASE hwrng_start_service
  BY <1>0, <1>2 DEF hwrng_start_service
<1>3. ASSUME NEW h \in Chan \cup {Port}, Wait(h) PROVE Goal'
  <2>1. ASSUME NEW c \in Chan, ev'.handle = c, "HUP" \in ev'.event PROVE cli[c] # "open"
    BY <1>3, <2>1, HandleAssumption DEF Wait, wait_any, Poll
  <2> QED
    BY <1>0, <1>3, <2>1 DEF Wait, wait_any, Collect
<1>4. CASE Ended
  BY <1>0, <1>4 DEF Ended, ProcessEnds, CloseAll, HangUpConnecting, ForgetAll
<1>5. CASE PortClosed
  BY <1>0, <1>5 DEF PortClosed, dispatch_no_handler, ClosePort, HangUpConnecting, BackToLoop
<1>6. CASE NothingToAccept
  BY <1>0, <1>6 DEF NothingToAccept, BackToLoop
<1>7. CASE hwrng_kick_done
  BY <1>0, <1>7 DEF hwrng_kick_done
<1>8. ASSUME NEW c \in Chan, ServerStep(c) PROVE Goal'
  <2>1. CASE Opened(c)
    BY <1>0, <2>1 DEF TypeOK, IpcTypeOK, Opened, hwrng_new_ctx, Accept, BackToLoop
  <2>2. CASE Refused(c)
    BY <1>0, <2>2 DEF TypeOK, IpcTypeOK, Refused, Refuse, BackToLoop
  <2>3. CASE HandlerCloses(c)
    BY <1>0, <2>3 DEF HandlerCloses, hwrng_close_chan, CloseChan, Kicks
  <2>4. CASE HandlerReads(c)
    BY <1>0, <2>4 DEF HandlerReads, hwrng_chan_handle_msg, Consume, StillBlocked, Kicks
  <2>5. CASE HandlerWakes(c)
    BY <1>0, <2>5 DEF HandlerWakes, StillBlocked, Kicks
  <2>6. CASE KickSkips(c)
    BY <1>0, <2>6 DEF KickSkips, Visits, hwrng_skip_blocked
  <2>7. CASE KickSends(c)
    BY <1>0, <2>7 DEF KickSends, Visits, hwrng_send_chunk, Deliver
  <2>8. CASE KickMeetsFull(c)
    <3>1. c \in ctx
      BY <2>8, ListFacts DEF KickMeetsFull, Visits, Listed, IndInv, TypeOK
    <3> QED
      BY <1>0, <2>8, <3>1 DEF KickMeetsFull, Visits, hwrng_send_full, MeetFull
  <2>9. CASE KickCloses(c)
    BY <1>0, <2>9 DEF KickCloses, Visits, hwrng_close_chan, CloseChan
  <2> QED
    BY <1>8, <2>1, <2>2, <2>3, <2>4, <2>5, <2>6, <2>7, <2>8, <2>9 DEF ServerStep
<1>9. ASSUME NEW c \in Chan, ClientStep(c) PROVE Goal'
  <2>1. CASE Connect(c)
    BY <1>0, <1>9, <2>1, HandleAssumption DEF TypeOK, IpcTypeOK, ClientStep, Connect
  <2>2. CASE Disconnect(c)
    BY <1>0, <1>9, <2>2 DEF TypeOK, IpcTypeOK, ClientStep, Disconnect
  <2>3. CASE cli' = cli /\ srv' = srv
    BY <1>0, <1>9, <2>3 DEF ClientStep
  <2> QED
    BY <1>9, <2>1, <2>2, <2>3 DEF ClientStep, ClientRequest, Send, Recv
<1> QED
  BY <1>1, <1>2, <1>3, <1>4, <1>5, <1>6, <1>7, <1>8, <1>9, StepCases

(* Every step leaves a blocked request something to wake it (send_msg       *)
(* meeting a full buffer, the client's receive, SEND_UNBLOCKED).            *)
LEMMA WakeupStep ==
  ASSUME IndInv, [Next]_vars
  PROVE  NoLostWakeup'
<1> USE DEF ipcVars, srvVars, loopVars
<1>0. /\ TypeOK /\ NoLostWakeup /\ ConnectingIsFresh
      /\ send_blocked \subseteq srv
  BY DEF IndInv, ListSound, BlockedIsLive
<1>1. CASE UNCHANGED vars
  BY <1>0, <1>1 DEF NoLostWakeup, vars
<1>2. CASE hwrng_start_service
  BY <1>0, <1>2 DEF NoLostWakeup, hwrng_start_service
<1>3. ASSUME NEW h \in Chan \cup {Port}, Wait(h) PROVE NoLostWakeup'
  <2>1. ASSUME NEW c \in Chan, c = h, c \in unblocked PROVE "SEND_UNBLOCKED" \in ev'.event
    BY <1>3, <2>1, HandleAssumption DEF Wait, wait_any, Poll
  <2> QED
    BY <1>0, <1>3, <2>1 DEF NoLostWakeup, Wait, wait_any, Collect, TypeOK
<1>4. CASE Ended
  BY <1>4 DEF NoLostWakeup, Ended, ForgetAll
<1>5. CASE PortClosed
  BY <1>0, <1>5, HandleAssumption
  DEF NoLostWakeup, TypeOK, ConnectingIsFresh, PortClosed, dispatch_no_handler, ClosePort,
      HangUpConnecting, BackToLoop
<1>6. CASE NothingToAccept
  BY <1>0, <1>6, HandleAssumption DEF NoLostWakeup, TypeOK, NothingToAccept, Dispatched, BackToLoop
<1>7. CASE hwrng_kick_done
  BY <1>0, <1>7 DEF NoLostWakeup, hwrng_kick_done
<1>8. ASSUME NEW c \in Chan, ServerStep(c) PROVE NoLostWakeup'
  <2>1. CASE Opened(c)
    BY <1>0, <2>1, HandleAssumption
    DEF NoLostWakeup, TypeOK, IpcTypeOK, Opened, Dispatched, hwrng_new_ctx, Accept, BackToLoop
  <2>2. CASE Refused(c)
    BY <1>0, <2>2, HandleAssumption
    DEF NoLostWakeup, TypeOK, IpcTypeOK, ConnectingIsFresh, Refused, Dispatched, Refuse, BackToLoop
  <2>3. CASE HandlerCloses(c)
    BY <1>0, <2>3 DEF NoLostWakeup, HandlerCloses, Dispatched, hwrng_close_chan, CloseChan, Kicks
  <2>4. CASE HandlerReads(c)
    BY <1>0, <2>4
    DEF NoLostWakeup, HandlerReads, Dispatched, hwrng_chan_handle_msg, Consume, StillBlocked, Kicks
  <2>5. CASE HandlerWakes(c)
    BY <1>0, <2>5 DEF NoLostWakeup, HandlerWakes, Dispatched, StillBlocked, Kicks
  <2>6. CASE KickSkips(c)
    BY <1>0, <2>6 DEF NoLostWakeup, KickSkips, Visits, hwrng_skip_blocked
  <2>7. CASE KickSends(c)
    BY <1>0, <2>7 DEF NoLostWakeup, TypeOK, IpcTypeOK, KickSends, Visits, hwrng_send_chunk, Deliver
  <2>8. CASE KickMeetsFull(c)
    BY <1>0, <2>8
    DEF NoLostWakeup, KickMeetsFull, Visits, hwrng_send_full, MeetFull, SendResult
  <2>9. CASE KickCloses(c)
    BY <1>0, <2>9 DEF NoLostWakeup, KickCloses, Visits, hwrng_close_chan, CloseChan
  <2> QED
    BY <1>8, <2>1, <2>2, <2>3, <2>4, <2>5, <2>6, <2>7, <2>8, <2>9 DEF ServerStep
<1>9. ASSUME NEW c \in Chan, ClientStep(c) PROVE NoLostWakeup'
  <2>1. CASE Connect(c)
    BY <1>0, <1>9, <2>1 DEF NoLostWakeup, TypeOK, IpcTypeOK, ClientStep, Connect
  <2>2. CASE \E n \in ReqLens : ClientRequest(c, n)
    BY <1>0, <1>9, <2>2 DEF NoLostWakeup, ClientStep, ClientRequest, Send
  <2>3. CASE Send(c, BadMsg)
    BY <1>0, <1>9, <2>3 DEF NoLostWakeup, ClientStep, Send
  <2>4. CASE Recv(c)
    BY <1>0, <1>9, <2>4 DEF NoLostWakeup, TypeOK, IpcTypeOK, ClientStep, Recv
  <2>5. CASE Disconnect(c)
    BY <1>0, <1>9, <2>5 DEF NoLostWakeup, TypeOK, IpcTypeOK, ClientStep, Disconnect
  <2> QED
    BY <1>9, <2>1, <2>2, <2>3, <2>4, <2>5 DEF ClientStep
<1> QED
  BY <1>1, <1>2, <1>3, <1>4, <1>5, <1>6, <1>7, <1>8, <1>9, StepCases

(* Every step keeps the counters below the debt (req_size += req.len,       *)
(* req_size -= len).                                                        *)
LEMMA DebtStep ==
  ASSUME IndInv, [Next]_vars
  PROVE  DebtBounded'
<1> USE DEF ipcVars, srvVars, loopVars
<1>0. TypeOK /\ DebtBounded
  BY DEF IndInv
<1>a. /\ \A d \in Chan : owed[d] \in Nat /\ req_size[d] \in Nat
      /\ owed \in [Chan -> 0 .. MaxOwed] /\ req_size \in [Chan -> 0 .. SizeMod - 1]
      /\ DOMAIN inbox = Chan
  BY <1>0, SizeAssumption DEF TypeOK, IpcTypeOK
<1>b. NoMsg \notin ReqLens /\ BadMsg \notin ReqLens
  BY LenFacts, SizeAssumption
<1>e. \A d \in Chan : inbox[d] \in ReqLens => inbox[d] \in Nat
  BY LenFacts
<1>c. hwrng_req_list' = hwrng_req_list => \A d : Listed(d)' <=> Listed(d)
  BY DEF Listed
\* A step that leaves the counters and the unread requests alone, or drops some.
<1>d. ASSUME owed' = owed, req_size' = req_size,
             \A d \in Chan : inbox'[d] = inbox[d] \/ inbox'[d] \notin ReqLens,
             \A d : Listed(d)' => Listed(d)
      PROVE  DebtBounded'
  BY <1>0, <1>a, <1>d, LenFacts DEF DebtBounded, Requested
<1>1. CASE UNCHANGED vars
  BY <1>c, <1>d, <1>1 DEF vars
<1>2. CASE hwrng_start_service
  BY <1>c, <1>d, <1>2 DEF hwrng_start_service
<1>3. ASSUME NEW h \in Chan \cup {Port}, Wait(h) PROVE DebtBounded'
  BY <1>c, <1>d, <1>3 DEF Wait, wait_any, Collect
<1>4. CASE Ended
  <2>1. \A d : ~Listed(d)'
    BY <1>4 DEF Ended, ForgetAll, Listed
  <2> QED
    BY <1>b, <1>d, <1>4, <2>1 DEF Ended, ProcessEnds, CloseAll, ForgetAll
<1>5. CASE PortClosed
  BY <1>c, <1>d, <1>5 DEF PortClosed, dispatch_no_handler, ClosePort
<1>6. CASE NothingToAccept
  BY <1>c, <1>d, <1>6 DEF NothingToAccept
<1>7. CASE hwrng_kick_done
  BY <1>c, <1>d, <1>7 DEF hwrng_kick_done
<1>8. ASSUME NEW c \in Chan, ServerStep(c) PROVE DebtBounded'
  <2>1. CASE Opened(c)
    <3>1. /\ inbox' = inbox
          /\ owed' = [owed EXCEPT ![c] = 0]
          /\ req_size' = [req_size EXCEPT ![c] = 0]
          /\ hwrng_req_list' = hwrng_req_list
      BY <2>1 DEF Opened, hwrng_new_ctx, Accept
    <3>2. ASSUME NEW d \in Chan PROVE Requested(d)' <= MaxOwed
      <4>1. CASE d = c
        <5>1. owed'[d] = 0 /\ inbox'[d] = inbox[d]
          BY <1>a, <3>1, <4>1
        <5>2. Requested(c) <= MaxOwed
          BY <1>0 DEF DebtBounded
        <5> QED
          BY <1>a, <1>e, <4>1, <5>1, <5>2, SizeAssumption DEF Requested
      <4>2. CASE d # c
        BY <1>0, <1>a, <3>1, <4>2 DEF DebtBounded, Requested
      <4> QED
        BY <4>1, <4>2
    <3>3. ASSUME NEW d \in Chan, Listed(d)' PROVE req_size'[d] <= owed'[d]
      <4>1. CASE d = c
        BY <1>0, <1>a, <3>1, <3>3, <4>1, SizeAssumption DEF DebtBounded
      <4>2. CASE d # c
        BY <1>0, <1>a, <1>c, <3>1, <3>3, <4>2 DEF DebtBounded
      <4> QED
        BY <4>1, <4>2
    <3> QED
      BY <3>2, <3>3 DEF DebtBounded
  <2>2. CASE Refused(c)
    BY <1>c, <1>d, <2>2 DEF Refused, Refuse
  <2>3. CASE HandlerCloses(c)
    <3>1. \A d : Listed(d)' => Listed(d)
      BY <2>3, CloseUnlinks DEF HandlerCloses
    <3> QED
      BY <1>a, <1>b, <1>d, <2>3, <3>1 DEF HandlerCloses, hwrng_close_chan, CloseChan
  <2>4. CASE HandlerReads(c)
    <3>1. /\ inbox[c] \in ReqLens /\ inbox[c] \in Nat
          /\ inbox' = [inbox EXCEPT ![c] = NoMsg]
          /\ owed' = [owed EXCEPT ![c] = owed[c] + inbox[c]]
          /\ req_size' = [req_size EXCEPT ![c] =
                            IF Listed(c) THEN (req_size[c] + inbox[c]) % SizeMod ELSE inbox[c]]
      BY <2>4, LenFacts DEF HandlerReads, hwrng_chan_handle_msg, Consume
    <3>2. \A d : Listed(d)' => Listed(d) \/ d = c
      BY <2>4, ReadLinks DEF HandlerReads
    <3>3. (req_size[c] + inbox[c]) % SizeMod <= req_size[c] + inbox[c]
          /\ (req_size[c] + inbox[c]) % SizeMod \in Int
      BY <1>a, <3>1, ModFacts
    <3>4. ASSUME NEW d \in Chan PROVE Requested(d)' <= MaxOwed
      BY <1>0, <1>a, <1>b, <3>1 DEF DebtBounded, Requested
    <3>5. ASSUME NEW d \in Chan, Listed(d)' PROVE req_size'[d] <= owed'[d]
      <4>1. CASE d # c
        BY <1>0, <1>a, <3>1, <3>2, <3>5, <4>1 DEF DebtBounded
      <4>2. CASE d = c /\ Listed(c)
        BY <1>0, <1>a, <3>1, <3>3, <4>2 DEF DebtBounded
      <4>3. CASE d = c /\ ~Listed(c)
        BY <1>a, <3>1, <4>3
      <4> QED
        BY <4>1, <4>2, <4>3
    <3> QED
      BY <3>4, <3>5 DEF DebtBounded
  <2>5. CASE HandlerWakes(c)
    BY <1>c, <1>d, <2>5 DEF HandlerWakes
  <2>6. CASE KickSkips(c)
    BY <1>c, <1>d, <2>6 DEF KickSkips, hwrng_skip_blocked
  <2>7. CASE KickSends(c)
    <3>1. /\ inbox' = inbox
          /\ owed' = [owed EXCEPT ![c] = owed[c] - ChunkLen(c)]
          /\ req_size' = [req_size EXCEPT ![c] = req_size[c] - ChunkLen(c)]
      BY <2>7 DEF KickSends, hwrng_send_chunk, Deliver
    <3>2. \A d : Listed(d)' => Listed(d)
      BY <2>7, SendUnlinks
    <3>3. ChunkLen(c) \in Nat
      BY ChunkFacts, SizeAssumption
    <3>4. ASSUME NEW d \in Chan PROVE Requested(d)' <= MaxOwed
      <4>1. CASE d = c
        <5>1. owed'[d] = owed[c] - ChunkLen(c) /\ inbox'[d] = inbox[d]
          BY <1>a, <3>1, <4>1
        <5>2. Requested(c) <= MaxOwed
          BY <1>0 DEF DebtBounded
        <5> QED
          BY <1>a, <1>e, <3>3, <4>1, <5>1, <5>2, SizeAssumption DEF Requested
      <4>2. CASE d # c
        BY <1>0, <1>a, <3>1, <4>2 DEF DebtBounded, Requested
      <4> QED
        BY <4>1, <4>2
    <3>5. ASSUME NEW d \in Chan, Listed(d)' PROVE req_size'[d] <= owed'[d]
      <4>1. CASE d = c
        BY <1>0, <1>a, <3>2, <3>3, <3>1, <3>5, <4>1, SizeAssumption DEF DebtBounded
      <4>2. CASE d # c
        BY <1>0, <1>a, <3>2, <3>1, <3>5, <4>2 DEF DebtBounded
      <4> QED
        BY <4>1, <4>2
    <3> QED
      BY <3>4, <3>5 DEF DebtBounded
  <2>8. CASE KickMeetsFull(c)
    BY <1>c, <1>d, <2>8 DEF KickMeetsFull, hwrng_send_full, MeetFull
  <2>9. CASE KickCloses(c)
    <3>1. \A d : Listed(d)' => Listed(d)
      BY <2>9, CloseUnlinks DEF KickCloses
    <3> QED
      BY <1>a, <1>b, <1>d, <2>9, <3>1 DEF KickCloses, hwrng_close_chan, CloseChan
  <2> QED
    BY <1>8, <2>1, <2>2, <2>3, <2>4, <2>5, <2>6, <2>7, <2>8, <2>9 DEF ServerStep
<1>9. ASSUME NEW c \in Chan, ClientStep(c) PROVE DebtBounded'
  <2>0. owed' = owed /\ req_size' = req_size /\ \A d : Listed(d)' <=> Listed(d)
    BY <1>c, <1>9 DEF ClientStep
  <2>1. ASSUME NEW n \in ReqLens, ClientRequest(c, n) PROVE DebtBounded'
    <3>1. inbox' = [inbox EXCEPT ![c] = n] /\ inbox[c] = NoMsg /\ Requested(c) + n <= MaxOwed
      BY <2>1 DEF ClientRequest, Send
    <3>2. ASSUME NEW d \in Chan PROVE Requested(d)' <= MaxOwed
      BY <1>0, <1>a, <1>b, <2>0, <3>1, LenFacts DEF DebtBounded, Requested
    <3>3. ASSUME NEW d \in Chan, Listed(d)' PROVE req_size'[d] <= owed'[d]
      BY <1>0, <2>0, <3>3 DEF DebtBounded
    <3> QED
      BY <3>2, <3>3 DEF DebtBounded
  <2>2. CASE Send(c, BadMsg)
    BY <1>a, <1>b, <1>d, <2>0, <2>2 DEF Send
  <2>3. CASE inbox' = inbox
    BY <1>d, <2>0, <2>3
  <2> QED
    BY <1>9, <2>1, <2>2, <2>3 DEF ClientStep, Connect, Recv, Disconnect
<1> QED
  BY <1>1, <1>2, <1>3, <1>4, <1>5, <1>6, <1>7, <1>8, <1>9, StepCases

----------------------------------------------------------------------------
(* The theorems.                                                           *)

(* The start of the process satisfies the invariant.                        *)
LEMMA InitInd == Init => IndInv
<1> SUFFICES ASSUME Init PROVE IndInv
  OBVIOUS
<1>1. TypeOK
  BY SizeAssumption
  DEF Init, LoopInit, IpcInit, NoEvent, TypeOK, IpcTypeOK, LoopTypeOK, Handle, EventBit
<1>2. ListSound /\ BlockedIsLive /\ ConnectingIsFresh /\ HangupIsFinal /\ NoLostWakeup
  BY DEF Init, LoopInit, IpcInit, ListSound, BlockedIsLive, ConnectingIsFresh, HangupIsFinal,
         NoLostWakeup
<1>3. DebtBounded
  <2>0. NoMsg \notin ReqLens
    BY LenFacts, SizeAssumption
  <2>1. ASSUME NEW c \in Chan PROVE inbox[c] \notin ReqLens /\ owed[c] = 0 /\ ~Listed(c)
    BY <2>0 DEF Init, LoopInit, IpcInit, Listed
  <2>2. ASSUME NEW c \in Chan PROVE Requested(c) <= MaxOwed
    BY <2>1, SizeAssumption DEF Requested
  <2> QED
    BY <2>1, <2>2 DEF DebtBounded
<1> QED
  BY <1>1, <1>2, <1>3 DEF IndInv

(* Every step of the service and of its clients preserves the invariant.    *)
LEMMA StepInd ==
  ASSUME IndInv, [Next]_vars
  PROVE  IndInv'
<1>1. TypeOK'
  BY TypeStep
<1> QED
  BY <1>1, ListStep, ConnectionStep, WakeupStep, DebtStep DEF IndInv

(* The inductive invariant holds in every reachable state.                  *)
THEOREM Inductive == Spec => []IndInv
BY InitInd, StepInd, PTL DEF Spec

(* Every variable keeps its type; in particular no reply exceeds            *)
(* MAX_HWRNG_MSG_SIZE and the debt to a client is never negative, also when *)
(* size_t wraps.                                                            *)
THEOREM TypeCorrect == Spec => []TypeOK
<1>1. IndInv => TypeOK
  BY DEF IndInv
<1> QED
  BY <1>1, Inductive, PTL

(* The pending list holds each live context at most once and the walk over  *)
(* it never uses a context that hwrng_close_chan freed.                     *)
THEOREM ListIsSound == Spec => []ListSound
<1>1. IndInv => ListSound
  BY DEF IndInv
<1> QED
  BY <1>1, Inductive, PTL

(* No request stays blocked without an event that will unblock it.          *)
THEOREM WakeupsAreKept == Spec => []NoLostWakeup
<1>1. IndInv => NoLostWakeup
  BY DEF IndInv
<1> QED
  BY <1>1, Inductive, PTL

(* A channel loses its server end only for a client that hung up, a message *)
(* that is not a request, or the end of the process.                        *)
THEOREM DropsHaveCause == Spec => DropsOnlyForCause
<1> DEFINE Cause == \A c \in srv \ srv' : cli[c] # "open" \/ inbox[c] = BadMsg \/ pc' = "exited"
<1>1. ASSUME IndInv, [Next]_vars PROVE [Cause]_vars
  <2> USE DEF ipcVars, srvVars, loopVars
  <2>0. HangupIsFinal /\ srv \subseteq Chan
    BY <1>1 DEF IndInv, TypeOK, IpcTypeOK
  <2>1. CASE UNCHANGED vars
    BY <2>1
  <2>2. CASE hwrng_start_service \/ (\E h \in Chan \cup {Port} : Wait(h))
    BY <2>2 DEF hwrng_start_service, Wait, wait_any, Collect
  <2>3. CASE Ended
    BY <2>3 DEF Ended, ProcessEnds
  <2>4. CASE PortClosed \/ NothingToAccept \/ hwrng_kick_done
    BY <2>4 DEF PortClosed, dispatch_no_handler, ClosePort, NothingToAccept, hwrng_kick_done
  <2>5. ASSUME NEW c \in Chan, ServerStep(c) PROVE Cause
    <3>1. CASE HandlerCloses(c)
      BY <2>0, <3>1 DEF HangupIsFinal, HandlerCloses, Dispatched, hwrng_close_chan, CloseChan
    <3>2. CASE KickCloses(c)
      BY <3>2 DEF KickCloses, SendResult, hwrng_close_chan, CloseChan
    <3>3. CASE Opened(c) \/ Refused(c) \/ HandlerReads(c) \/ HandlerWakes(c)
      BY <3>3 DEF Opened, hwrng_new_ctx, Accept, Refused, Refuse, HandlerReads,
                  hwrng_chan_handle_msg, Consume, HandlerWakes
    <3>4. CASE KickSkips(c) \/ KickSends(c) \/ KickMeetsFull(c)
      BY <3>4 DEF KickSkips, hwrng_skip_blocked, KickSends, hwrng_send_chunk, Deliver,
                  KickMeetsFull, hwrng_send_full, MeetFull
    <3> QED
      BY <2>5, <3>1, <3>2, <3>3, <3>4 DEF ServerStep
  <2>6. ASSUME NEW c \in Chan, ClientStep(c) PROVE Cause
    BY <2>6 DEF ClientStep, Connect, ClientRequest, Send, Recv, Disconnect
  <2> QED
    BY <1>1, <2>1, <2>2, <2>3, <2>4, <2>5, <2>6, StepCases
<1> QED
  BY <1>1, Inductive, PTL DEF Spec, DropsOnlyForCause

----------------------------------------------------------------------------
(* Clients that are never owed more than one reply holds.                   *)

\* Entries the walk has passed are blocked; all are, outside the walk.
WalkInv ==
  \A i \in 1 .. Len(hwrng_req_list) :
    \/ hwrng_req_list[i] \in send_blocked
    \/ pc = "kick" /\ i >= next
    \/ pc = "exited"

(* Every step keeps the entries passed by the walk blocked                  *)
(* (hwrng_handle_req_queue with replies that answer a request in full).     *)
LEMMA WalkStep ==
  ASSUME MaxOwed <= MAX_HWRNG_MSG_SIZE, IndInv, IndInv', WalkInv, [Next]_vars
  PROVE  WalkInv'
<1> USE DEF ipcVars, srvVars, loopVars
<1>0. /\ next \in Nat \ {0} /\ Len(hwrng_req_list) \in Nat
      /\ \A i \in 1 .. Len(hwrng_req_list) : hwrng_req_list[i] \in ctx /\ Listed(hwrng_req_list[i])
      /\ ctx = srv
  BY ListFacts DEF IndInv, TypeOK, ListSound, Listed
<1>1. CASE UNCHANGED vars
  BY <1>1 DEF WalkInv, vars
<1>2. CASE hwrng_start_service
  BY <1>2 DEF WalkInv, hwrng_start_service
<1>3. ASSUME NEW h \in Chan \cup {Port}, Wait(h) PROVE WalkInv'
  BY <1>3 DEF WalkInv, Wait, wait_any
<1>4. CASE Ended
  BY <1>4 DEF WalkInv, Ended, ProcessEnds
<1>5. CASE PortClosed
  BY <1>5 DEF WalkInv, PortClosed, dispatch_no_handler
<1>6. CASE NothingToAccept
  BY <1>6 DEF WalkInv, NothingToAccept, Dispatched
<1>7. CASE hwrng_kick_done
  BY <1>0, <1>7 DEF WalkInv, hwrng_kick_done
<1>8. ASSUME NEW c \in Chan, ServerStep(c) PROVE WalkInv'
  <2>1. CASE Opened(c)
    <3>1. c \notin ctx
      BY <1>0, <2>1 DEF IndInv, ConnectingIsFresh, Opened, hwrng_new_ctx, Accept
    <3> QED
      BY <1>0, <2>1, <3>1 DEF WalkInv, Opened, Dispatched, hwrng_new_ctx, Accept
  <2>2. CASE Refused(c)
    BY <2>2 DEF WalkInv, Refused, Dispatched
  <2>3. CASE HandlerCloses(c) \/ HandlerReads(c) \/ HandlerWakes(c)
    BY <2>3 DEF WalkInv, HandlerCloses, HandlerReads, HandlerWakes, Kicks
  <2>4. CASE KickSkips(c)
    BY <1>0, <2>4 DEF WalkInv, KickSkips, Visits, hwrng_skip_blocked
  <2>5. CASE KickSends(c)
    <3>1. req_size[c] <= owed[c] /\ owed[c] <= MaxOwed
      BY <2>5, SendUnlinks DEF IndInv, DebtBounded, TypeOK
    <3>2. req_size[c] = ChunkLen(c)
      BY <3>1, ChunkFacts, SizeAssumption DEF IndInv, TypeOK
    <3>3. /\ Len(hwrng_req_list') = Len(hwrng_req_list) - 1
          /\ next' = next
          /\ \A j \in 1 .. Len(hwrng_req_list') : j < next => hwrng_req_list'[j] = hwrng_req_list[j]
      BY <2>5, <3>2, SendUnlinks
    <3>4. pc = "kick" /\ pc' = "kick" /\ send_blocked' = send_blocked
      BY <2>5 DEF KickSends, Visits, hwrng_send_chunk
    <3> QED
      BY <1>0, <3>3, <3>4 DEF WalkInv
  <2>6. CASE KickMeetsFull(c)
    BY <1>0, <2>6 DEF WalkInv, KickMeetsFull, Visits, hwrng_send_full
  <2>7. CASE KickCloses(c)
    <3>1. next \in 1 .. Len(hwrng_req_list) /\ hwrng_req_list[next] = c
      BY <1>0, <2>7 DEF KickCloses, Visits
    <3>2. /\ Len(hwrng_req_list') = Len(hwrng_req_list) - 1
          /\ \A j \in 1 .. Len(hwrng_req_list') : j < next => hwrng_req_list'[j] = hwrng_req_list[j]
          /\ \A d : Listed(d)' => d # c
      BY <2>7, <3>1, CloseUnlinks DEF KickCloses
    <3>3. \A j \in 1 .. Len(hwrng_req_list') : hwrng_req_list'[j] # c
      BY <3>2 DEF Listed
    <3>4. /\ pc = "kick" /\ pc' = "kick" /\ next' = next
          /\ send_blocked' = send_blocked \ {c}
      BY <2>7 DEF KickCloses, Visits, hwrng_close_chan
    <3> QED
      BY <1>0, <3>2, <3>3, <3>4 DEF WalkInv
  <2> QED
    BY <1>8, <2>1, <2>2, <2>3, <2>4, <2>5, <2>6, <2>7 DEF ServerStep
<1>9. ASSUME NEW c \in Chan, ClientStep(c) PROVE WalkInv'
  BY <1>9 DEF WalkInv, ClientStep
<1> QED
  BY <1>1, <1>2, <1>3, <1>4, <1>5, <1>6, <1>7, <1>8, <1>9, StepCases

(* If no client is owed more than one reply holds, dropping need_more in    *)
(* hwrng_kick_req_queue is harmless: the service never waits for an event   *)
(* with a request that it could answer.                                     *)
THEOREM NeverIdle ==
  ASSUME MaxOwed <= MAX_HWRNG_MSG_SIZE
  PROVE  Spec => []NeverIdleWithWork
<1>1. Init => WalkInv
  BY DEF Init, WalkInv
<1>2. IndInv /\ IndInv' /\ WalkInv /\ [Next]_vars => WalkInv'
  BY WalkStep
<1>3. WalkInv => NeverIdleWithWork
  BY DEF WalkInv, NeverIdleWithWork
<1> QED
  BY <1>1, <1>2, <1>3, Inductive, PTL DEF Spec

----------------------------------------------------------------------------
(* Clients that are never owed SizeMod bytes.                               *)

(* Every step keeps the counter equal to the debt while no sum wraps.       *)
LEMMA DebtExactStep ==
  ASSUME MaxOwed < SizeMod, IndInv, IndInv', DebtExact, [Next]_vars
  PROVE  DebtExact'
<1> USE DEF ipcVars, srvVars, loopVars
<1>0. /\ owed \in [Chan -> 0 .. MaxOwed] /\ req_size \in [Chan -> 0 .. SizeMod - 1]
      /\ ctx \subseteq Chan /\ ctx = srv
  BY DEF IndInv, TypeOK, ListSound
<1>a. hwrng_req_list' = hwrng_req_list => \A d : Listed(d)' <=> Listed(d)
  BY DEF Listed
<1>b. ASSUME owed' = owed, req_size' = req_size, ctx' \subseteq ctx,
             \A d \in ctx' : Listed(d)' <=> Listed(d)
      PROVE  DebtExact'
  BY <1>b DEF DebtExact
<1>1. CASE UNCHANGED vars
  BY <1>a, <1>b, <1>1 DEF vars
<1>2. CASE hwrng_start_service
  BY <1>a, <1>b, <1>2 DEF hwrng_start_service
<1>3. ASSUME NEW h \in Chan \cup {Port}, Wait(h) PROVE DebtExact'
  BY <1>a, <1>b, <1>3 DEF Wait
<1>4. CASE Ended
  BY <1>4 DEF DebtExact, Ended, ForgetAll
<1>5. CASE PortClosed \/ NothingToAccept \/ hwrng_kick_done
  BY <1>a, <1>b, <1>5 DEF PortClosed, NothingToAccept, hwrng_kick_done
<1>6. ASSUME NEW c \in Chan, ServerStep(c) PROVE DebtExact'
  <2>1. CASE Opened(c)
    <3>1. c \notin ctx /\ ~Listed(c)
      BY <1>0, <2>1, ListFacts DEF IndInv, ConnectingIsFresh, Opened, hwrng_new_ctx, Accept
    <3> QED
      BY <1>0, <1>a, <2>1, <3>1 DEF DebtExact, Opened, hwrng_new_ctx
  <2>2. CASE Refused(c) \/ HandlerWakes(c) \/ KickSkips(c) \/ KickMeetsFull(c)
    BY <1>a, <1>b, <2>2
    DEF Refused, HandlerWakes, KickSkips, hwrng_skip_blocked, KickMeetsFull, hwrng_send_full
  <2>3. CASE HandlerCloses(c) \/ KickCloses(c)
    <3>1. hwrng_close_chan(c)
      BY <2>3 DEF HandlerCloses, KickCloses
    <3>2. \A d : Listed(d)' <=> Listed(d) /\ d # c
      BY <3>1, CloseUnlinks
    <3> QED
      BY <1>b, <3>1, <3>2 DEF hwrng_close_chan
  <2>4. CASE HandlerReads(c)
    <3>1. /\ inbox[c] \in ReqLens
          /\ owed' = [owed EXCEPT ![c] = owed[c] + inbox[c]]
          /\ req_size' = [req_size EXCEPT ![c] =
                            IF Listed(c) THEN (req_size[c] + inbox[c]) % SizeMod ELSE inbox[c]]
          /\ ctx' = ctx /\ c \in ctx
      BY <2>4 DEF HandlerReads, hwrng_chan_handle_msg
    <3>2. \A d : Listed(d)' <=> Listed(d) \/ d = c
      BY <2>4, ReadLinks DEF HandlerReads
    <3>3. inbox[c] \in Nat /\ owed'[c] \in 0 .. MaxOwed /\ owed'[c] = owed[c] + inbox[c]
      BY <1>0, <3>1, LenFacts DEF IndInv, TypeOK
    <3>4. owed[c] = IF Listed(c) THEN req_size[c] ELSE 0
      BY <3>1 DEF DebtExact
    <3>5. req_size'[c] = owed'[c]
      <4>1. CASE Listed(c)
        <5>1. req_size[c] + inbox[c] \in Nat /\ req_size[c] + inbox[c] < SizeMod
          BY <1>0, <3>3, <3>4, <4>1, SizeAssumption
        <5> QED
          BY <1>0, <3>1, <3>3, <3>4, <4>1, <5>1, ModFacts
      <4>2. CASE ~Listed(c)
        BY <1>0, <3>1, <3>3, <3>4, <4>2
      <4> QED
        BY <4>1, <4>2
    <3> QED
      BY <1>0, <3>1, <3>2, <3>5 DEF DebtExact
  <2>5. CASE KickSends(c)
    <3>1. /\ owed' = [owed EXCEPT ![c] = owed[c] - ChunkLen(c)]
          /\ req_size' = [req_size EXCEPT ![c] = req_size[c] - ChunkLen(c)]
          /\ ctx' = ctx
      BY <2>5 DEF KickSends, hwrng_send_chunk
    <3>2. Listed(c) /\ c \in ctx
      BY <2>5, SendUnlinks, ListFacts
    <3>3. /\ \A d : d # c => (Listed(d)' <=> Listed(d))
          /\ Listed(c)' <=> req_size[c] # ChunkLen(c)
      BY <2>5, <3>2, SendUnlinks
    <3>4. owed[c] = req_size[c]
      BY <3>2 DEF DebtExact
    <3>5. owed'[c] = IF Listed(c)' THEN req_size'[c] ELSE 0
      BY <1>0, <3>1, <3>3, <3>4, ChunkFacts, SizeAssumption
    <3> QED
      BY <1>0, <3>1, <3>3, <3>5 DEF DebtExact
  <2> QED
    BY <1>6, <2>1, <2>2, <2>3, <2>4, <2>5 DEF ServerStep
<1>7. ASSUME NEW c \in Chan, ClientStep(c) PROVE DebtExact'
  BY <1>a, <1>b, <1>7 DEF ClientStep
<1> QED
  BY <1>1, <1>2, <1>3, <1>4, <1>5, <1>6, <1>7, StepCases

(* If no client is owed SizeMod bytes or more, req_size is exactly what a   *)
(* client in the list is owed and a client outside it is owed nothing.      *)
THEOREM DebtIsExact ==
  ASSUME MaxOwed < SizeMod
  PROVE  Spec => []DebtExact
<1>1. Init => DebtExact
  BY DEF Init, DebtExact
<1>2. IndInv /\ IndInv' /\ DebtExact /\ [Next]_vars => DebtExact'
  BY DebtExactStep
<1> QED
  BY <1>1, <1>2, Inductive, PTL DEF Spec

----------------------------------------------------------------------------
(* The refinement of RngService.                                            *)

\* What RngService sees of the list and the counters.
Pending == {c \in Chan : Listed(c)}
Debt == [c \in Chan |-> IF Listed(c) THEN req_size[c] ELSE 0]

(* A step that changes neither the list nor a counter that is in it is      *)
(* invisible.                                                               *)
LEMMA SameDebt ==
  ASSUME \A d \in Chan : Listed(d)' <=> Listed(d),
         \A d \in Chan : Listed(d) => req_size'[d] = req_size[d]
  PROVE  Pending' = Pending /\ Debt' = Debt
BY DEF Pending, Debt

(* hwrng_close_chan forgets one client and what it was owed.                *)
LEMMA CloseDrops ==
  ASSUME IndInv, NEW c \in Chan, c \in ctx, hwrng_close_chan(c)
  PROVE  Service!Drop({c})
<1>1. \A d \in Chan : Listed(d)' <=> Listed(d) /\ d # c
  BY CloseUnlinks
<1>2. ctx' = ctx \ {c} /\ outbox' = outbox /\ req_size' = req_size
  BY DEF hwrng_close_chan, CloseChan
<1>3. Pending' = Pending \ {c}
  BY <1>1 DEF Pending
<1>4. Debt' = [d \in Chan |-> IF d \in {c} THEN 0 ELSE Debt[d]]
  BY <1>1, <1>2 DEF Debt
<1> QED
  BY <1>2, <1>3, <1>4 DEF Service!Drop, Pending, Debt

(* Reading a request is an Ask: it extends the debt modulo the width of     *)
(* size_t, or starts one.                                                   *)
LEMMA ReadAsks ==
  ASSUME IndInv, NEW c \in Chan, c \in ctx, hwrng_chan_handle_msg(c)
  PROVE  \E m \in ReqLens : Service!Ask(c, m)
<1>1. PICK n \in ReqLens : n = inbox[c]
  BY DEF hwrng_chan_handle_msg
<1>2. ctx' = ctx /\ outbox' = outbox
  BY DEF hwrng_chan_handle_msg, Consume
<1>3. \A d \in Chan : Listed(d)' <=> Listed(d) \/ d = c
  BY ReadLinks
<1>4. req_size \in [Chan -> 0 .. SizeMod - 1]
  BY DEF IndInv, TypeOK
<1>5. /\ req_size'[c] = IF Listed(c) THEN (req_size[c] + n) % SizeMod ELSE n
      /\ \A d \in Chan \ {c} : req_size'[d] = req_size[d]
  BY <1>1, <1>4 DEF hwrng_chan_handle_msg
<1>6. n \in Nat /\ n < SizeMod
  BY LenFacts, SizeAssumption
<1>7. (0 + n) % SizeMod = n
  BY <1>6, ModFacts
<1>8. Pending' = Pending \cup {c}
  BY <1>3 DEF Pending
<1>9. Debt[c] = IF Listed(c) THEN req_size[c] ELSE 0
  BY DEF Debt
<1>10. req_size'[c] = (Debt[c] + n) % SizeMod
  BY <1>5, <1>7, <1>9
<1>11. Debt' = [Debt EXCEPT ![c] = (Debt[c] + n) % SizeMod]
  BY <1>3, <1>5, <1>10 DEF Debt
<1>12. Service!Ask(c, n)
  BY <1>2, <1>8, <1>11 DEF Service!Ask, Pending, Debt
<1> QED
  BY <1>12

(* Sending a chunk is an Answer: as much of the debt as one message holds.  *)
LEMMA SendAnswers ==
  ASSUME IndInv, NEW c \in Chan, KickSends(c)
  PROVE  Service!Answer(c)
<1>1. /\ Listed(c) /\ ctx' = ctx /\ outbox[c] = NoMsg
      /\ outbox' = [outbox EXCEPT ![c] = ChunkLen(c)]
      /\ req_size' = [req_size EXCEPT ![c] = req_size[c] - ChunkLen(c)]
  BY SendUnlinks DEF KickSends, hwrng_send_chunk, Deliver, SendResult
<1>2. req_size \in [Chan -> 0 .. SizeMod - 1]
  BY DEF IndInv, TypeOK
<1>3. /\ req_size'[c] = req_size[c] - ChunkLen(c)
      /\ \A d \in Chan \ {c} : req_size'[d] = req_size[d]
  BY <1>1, <1>2
<1>4. Debt[c] = req_size[c]
  BY <1>1 DEF Debt
<1>5. Service!ReplyLen(c) = ChunkLen(c)
  BY <1>1, <1>4 DEF Service!ReplyLen, ChunkLen, Debt
<1>6. Pending' = IF req_size[c] = ChunkLen(c) THEN Pending \ {c} ELSE Pending
  BY SendUnlinks DEF Pending
<1>7. Debt' = [Debt EXCEPT ![c] = req_size[c] - ChunkLen(c)]
  <2>1. Debt'[c] = req_size[c] - ChunkLen(c)
    <3>1. CASE req_size[c] = ChunkLen(c)
      BY <3>1, <1>2, <1>1, SendUnlinks DEF Debt
    <3>2. CASE req_size[c] # ChunkLen(c)
      BY <3>2, <1>3, <1>1, SendUnlinks DEF Debt
    <3> QED
      BY <3>1, <3>2
  <2>2. \A d \in Chan \ {c} : Debt'[d] = Debt[d]
    BY <1>3, SendUnlinks DEF Debt
  <2> QED
    BY <2>1, <2>2 DEF Debt
<1> QED
  BY <1>1, <1>4, <1>5, <1>6, <1>7 DEF Service!Answer, Pending, Debt

(* The service implements RngService, step by step: a request read is an    *)
(* Ask, a chunk sent an Answer, a channel closed a Drop, and the walk over  *)
(* the list, the events and the waiting are invisible.                      *)
THEOREM RngServiceImplemented == Spec => ImplementsService
<1>1. Init => Service!ServiceInit
  BY DEF Init, LoopInit, IpcInit, Listed, Service!ServiceInit
<1>2. ASSUME IndInv, [Next]_vars
      PROVE  [Service!ServiceNext]_(Service!svcVars)
  <2> USE DEF ipcVars, srvVars, loopVars
  <2>0. \A S \in SUBSET ctx : Service!Drop(S) => Service!ServiceNext
    BY DEF Service!ServiceNext
  <2>1. CASE UNCHANGED <<ctx, outbox, req_size, hwrng_req_list>>
    BY <2>1 DEF Service!svcVars, Listed
  <2>2. CASE \/ UNCHANGED vars \/ hwrng_start_service \/ PortClosed \/ NothingToAccept
             \/ hwrng_kick_done
    BY <2>1, <2>2 DEF vars, hwrng_start_service, PortClosed, dispatch_no_handler, ClosePort,
         NothingToAccept, hwrng_kick_done
  <2>3. ASSUME NEW h \in Chan \cup {Port}, Wait(h) PROVE UNCHANGED Service!svcVars
    BY <2>1, <2>3 DEF Wait, wait_any, Collect, Service!svcVars, Listed
  <2>4. CASE Ended
    <3>1. /\ ctx' = {} /\ hwrng_req_list' = << >> /\ outbox' = outbox
      BY <2>4 DEF Ended, ProcessEnds, CloseAll, ForgetAll
    <3>2. \A d \in Chan : ~Listed(d)' /\ (Listed(d) => d \in ctx)
      BY <3>1, <1>2, ListFacts DEF Listed
    <3>3. Pending' = Pending \ ctx
      BY <3>2 DEF Pending
    <3>4. Debt' = [d \in Chan |-> IF d \in ctx THEN 0 ELSE Debt[d]]
      BY <3>2 DEF Debt
    <3>5. PICK S \in SUBSET ctx : S = ctx
      OBVIOUS
    <3>6. Service!Drop(S)
      BY <3>1, <3>3, <3>4, <3>5 DEF Service!Drop, Pending, Debt
    <3> QED
      BY <2>0, <3>6
  <2>5. ASSUME NEW c \in Chan, Opened(c) PROVE Service!ServiceNext
    <3>1. c \notin ctx
      BY <1>2, <2>5 DEF Opened, hwrng_new_ctx, Accept, IndInv, ConnectingIsFresh, ListSound
    <3>2. /\ ctx' = ctx \cup {c} /\ outbox' = outbox
          /\ \A d \in Chan : Listed(d)' <=> Listed(d)
          /\ \A d \in Chan : Listed(d) => req_size'[d] = req_size[d]
      BY <1>2, <2>5, <3>1, ListFacts DEF Opened, hwrng_new_ctx, Accept, IndInv, TypeOK, Listed
    <3>3. Pending' = Pending /\ Debt' = Debt
      BY <3>2, SameDebt
    <3>4. Service!Open(c)
      BY <3>1, <3>2, <3>3 DEF Service!Open, Pending, Debt
    <3> QED
      BY <3>4 DEF Service!ServiceNext
  <2>6. ASSUME NEW c \in Chan,
               Refused(c) \/ HandlerWakes(c) \/ KickSkips(c) \/ KickMeetsFull(c)
        PROVE  UNCHANGED Service!svcVars
    <3>1. UNCHANGED <<ctx, outbox, req_size, hwrng_req_list>>
      BY <2>6 DEF Refused, Refuse, HandlerWakes, KickSkips, hwrng_skip_blocked, KickMeetsFull,
           hwrng_send_full, MeetFull
    <3> QED
      BY <3>1 DEF Service!svcVars, Listed
  <2>7. ASSUME NEW c \in Chan, HandlerCloses(c) \/ KickCloses(c) PROVE Service!ServiceNext
    <3>1. c \in ctx /\ hwrng_close_chan(c)
      BY <1>2, <2>7, ListFacts DEF HandlerCloses, KickCloses, Visits, Listed, IndInv, TypeOK
    <3>2. Service!Drop({c})
      BY <1>2, <3>1, CloseDrops
    <3> QED
      BY <2>0, <3>1, <3>2
  <2>8. ASSUME NEW c \in Chan, HandlerReads(c) PROVE Service!ServiceNext
    <3>1. c \in ctx /\ hwrng_chan_handle_msg(c)
      BY <2>8 DEF HandlerReads
    <3>2. \E n \in ReqLens : Service!Ask(c, n)
      BY <1>2, <3>1, ReadAsks
    <3> QED
      BY <3>2 DEF Service!ServiceNext
  <2>9. ASSUME NEW c \in Chan, KickSends(c) PROVE Service!ServiceNext
    BY <1>2, <2>9, SendAnswers DEF Service!ServiceNext
  <2>10. ASSUME NEW c \in Chan, ClientStep(c)
         PROVE  [Service!ServiceNext]_(Service!svcVars)
    <3>1. UNCHANGED <<ctx, req_size, hwrng_req_list>>
      BY <2>10 DEF ClientStep
    <3>2. CASE Recv(c) \/ Disconnect(c)
      <4>1. Service!Take(c)
        BY <3>1, <3>2 DEF Recv, Disconnect, Service!Take, Listed
      <4> QED
        BY <4>1 DEF Service!ServiceNext
    <3>3. CASE ~(Recv(c) \/ Disconnect(c))
      BY <2>1, <2>10, <3>1, <3>3 DEF ClientStep, Connect, ClientRequest, Send
    <3> QED
      BY <3>2, <3>3
  <2> QED
    BY <1>2, <2>2, <2>3, <2>4, <2>5, <2>6, <2>7, <2>8, <2>9, <2>10, StepCases DEF ServerStep
<1> QED
  BY <1>1, <1>2, Inductive, PTL DEF Spec, ImplementsService, Service!ServiceSpec
============================================================================
