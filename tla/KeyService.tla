----------------------------- MODULE KeyService -----------------------------
(***************************************************************************)
(* What the HWKEY service promises its clients, without ports, events or    *)
(* buffers: requests of a connection are answered in the order they were    *)
(* sent, each at most once, one reply outstanding, with a reply the owner   *)
(* of the connection may have.  The service may drop a connection.          *)
(***************************************************************************)
EXTENDS Sequences

CONSTANTS Peer, Owner, Req, NoReply,
          Allowed(_, _, _)  \* may this owner's request get this reply?

VARIABLES open,   \* connections the service has accepted
          owner,  \* the client at the other end
          asked,  \* its requests without a reply taken, in order
          reply   \* the reply the client has not taken yet

svcVars == <<open, owner, asked, reply>>

ServiceInit ==
  /\ open = {}
  /\ asked = [c \in Peer |-> << >>]
  /\ reply = [c \in Peer |-> NoReply]

\* A client takes a free connection; the service accepts it later.
Call(c, u) ==
  /\ c \notin open
  /\ owner' = [owner EXCEPT ![c] = u]
  /\ asked' = [asked EXCEPT ![c] = << >>]
  /\ UNCHANGED <<open, reply>>

Open(c) ==
  /\ c \notin open
  /\ open' = open \cup {c}
  /\ UNCHANGED <<owner, asked, reply>>

Ask(c, m) ==
  /\ c \in open
  /\ asked' = [asked EXCEPT ![c] = Append(asked[c], m)]
  /\ UNCHANGED <<open, owner, reply>>

\* The oldest request without a reply is answered.
Answer(c) ==
  /\ c \in open
  /\ asked[c] # << >> /\ reply[c] = NoReply
  /\ reply'[c] # NoReply
  /\ Allowed(owner[c], Head(asked[c]), reply'[c])
  /\ \A d \in Peer \ {c} : reply'[d] = reply[d]
  /\ UNCHANGED <<open, owner, asked>>

Take(c) ==
  /\ reply[c] # NoReply
  /\ reply' = [reply EXCEPT ![c] = NoReply]
  /\ asked' = [asked EXCEPT ![c] = Tail(asked[c])]
  /\ UNCHANGED <<open, owner>>

Hangup(c) ==
  /\ asked' = [asked EXCEPT ![c] = << >>]
  /\ reply' = [reply EXCEPT ![c] = NoReply]
  /\ UNCHANGED <<open, owner>>

Drop(S) == open' = open \ S /\ UNCHANGED <<owner, asked, reply>>

ServiceNext ==
  \/ \E c \in Peer :
       \/ \E u \in Owner : Call(c, u)
       \/ Open(c)
       \/ \E m \in Req : Ask(c, m)
       \/ Take(c)
       \/ Hangup(c)
       \/ Answer(c)
  \/ \E S \in SUBSET open : Drop(S)

ServiceSpec == ServiceInit /\ [][ServiceNext]_svcVars
=============================================================================
