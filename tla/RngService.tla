----------------------------- MODULE RngService -----------------------------
(***************************************************************************)
(* What the HWRNG service promises its clients, without ports, events,      *)
(* lists or buffers: bytes that were asked for are sent in replies of at    *)
(* most MaxReply bytes, each as large as the debt allows, one reply         *)
(* outstanding per client, and nothing is sent that was not asked for.      *)
(* Debts are counted modulo Modulus: a client that lets its debt reach it   *)
(* loses that many bytes.                                                   *)
(***************************************************************************)
EXTENDS Integers

CONSTANTS Peer, MaxReply, Modulus, Lens, NoReply

VARIABLES open,    \* connected clients
          pending, \* clients waiting for a reply
          debt,    \* bytes a client is owed
          reply    \* the reply the client has not taken yet

svcVars == <<open, pending, debt, reply>>

ServiceInit ==
  /\ open = {}
  /\ pending = {}
  /\ debt = [c \in Peer |-> 0]
  /\ reply = [c \in Peer |-> NoReply]

Open(c) ==
  /\ c \notin open
  /\ open' = open \cup {c}
  /\ UNCHANGED <<pending, debt, reply>>

\* A request of zero bytes is answered too, by an empty reply.
Ask(c, n) ==
  /\ c \in open
  /\ pending' = pending \cup {c}
  /\ debt' = [debt EXCEPT ![c] = (debt[c] + n) % Modulus]
  /\ UNCHANGED <<open, reply>>

ReplyLen(c) == IF debt[c] > MaxReply THEN MaxReply ELSE debt[c]

Answer(c) ==
  /\ c \in pending
  /\ reply[c] = NoReply
  /\ reply' = [reply EXCEPT ![c] = ReplyLen(c)]
  /\ debt' = [debt EXCEPT ![c] = debt[c] - ReplyLen(c)]
  /\ pending' = IF debt[c] = ReplyLen(c) THEN pending \ {c} ELSE pending
  /\ UNCHANGED open

Take(c) ==
  /\ reply' = [reply EXCEPT ![c] = NoReply]
  /\ UNCHANGED <<open, pending, debt>>

\* The service forgets the clients in S and what they were owed.
Drop(S) ==
  /\ open' = open \ S
  /\ pending' = pending \ S
  /\ debt' = [c \in Peer |-> IF c \in S THEN 0 ELSE debt[c]]
  /\ UNCHANGED reply

ServiceNext ==
  \/ \E c \in Peer :
       \/ Open(c)
       \/ \E n \in Lens : Ask(c, n)
       \/ Answer(c)
       \/ Take(c)
  \/ \E S \in SUBSET open : Drop(S)

ServiceSpec == ServiceInit /\ [][ServiceNext]_svcVars
=============================================================================
