-------------------------- MODULE TransportProofs --------------------------
(***************************************************************************)
(* Proofs about Transport, for any number of goroutines, connections and   *)
(* messages: no connection leaks, nothing is left that could send on the   *)
(* incoming channel once Close has closed it, and what arrives on a        *)
(* connection is whole frames in the order of the Sends.                   *)
(*                                                                         *)
(* Inv is about who refers to which end of a connection.  StreamInv, on    *)
(* top of it, says where in the sequence of frames of a connection each of *)
(* its writers and its handler is.                                         *)
(***************************************************************************)
EXTENDS Transport, TLAPS

PC      == {"idle", "get", "dial", "register", "lock", "length", "payload", "drop"}
Handling == {"none", "length", "payload", "deliver", "exit", "gone"}

\* The types the argument needs.
Types ==
    /\ pc \in [Sender -> PC]
    /\ at \in [Sender -> Conn \cup {0}]
    /\ cached \in Conn \cup {0}
    /\ holder \in [Conn -> Sender \cup {NoOne}]
    /\ client \in [Conn -> {"none", "open", "closed"}]
    /\ server \in [Conn -> {"none", "backlog", "open", "closed"}]
    /\ acceptor \in Conn \cup {0, -1}
    /\ handler \in [Conn -> Handling]
    /\ inConns \subseteq Conn
    /\ shut \in {"open", "waiting", "returned"}

Registering(s, c) == pc[s] = "register" /\ at[s] = c

\* A connection being registered is nobody else's and not cached yet, and one
\* that a goroutine writes on was cached or dialed.
Owned ==
    /\ \A s \in Sender : pc[s] = "register" => at[s] \in Conn /\ at[s] # cached
    /\ \A s, t \in Sender : pc[s] = "register" /\ pc[t] = "register" /\ at[s] = at[t] => s = t
    /\ \A s \in Sender : pc[s] \in {"lock", "length", "payload"} => at[s] \in Conn
    /\ closed => cached = 0

\* Our end of a connection, and Close, dropConn and registerDialed.
ClientsKept ==
    \A c \in Conn : client[c] = "open" <=> c = cached \/ \E s \in Sender : Registering(s, c)

\* The peer's end: a connection without a handler yet is not in inConns, and one
\* that is not dialed yet is nowhere.
Fresh ==
    /\ \A c \in Conn : client[c] = "none" => server[c] = "none"
    /\ \A c \in Conn : server[c] \in {"none", "backlog"} => handler[c] = "none"
    /\ acceptor # 0 /\ acceptor # -1 => handler[acceptor] = "none"
    /\ \A c \in Conn : c \in inConns => handler[c] # "none" /\ handler[c] # "gone"
    /\ shut # "open" => inConns = {}

ServersKept == \A c \in Conn : server[c] = "open" <=> c \in inConns \/ c = acceptor

Inv == Types /\ Owned /\ ClientsKept /\ Fresh /\ ServersKept /\ NoSendOnClosed

LEMMA ZeroIsNoConn == 0 \notin Conn /\ -1 \notin Conn /\ Conn \subseteq Int
BY DEF Conn

LEMMA InvInit == Init => Inv
<1> SUFFICES ASSUME Init PROVE Inv
    BY Zenon
<1> USE ZeroIsNoConn
<1> QED BY Zenon DEF Init, Started, Inv, Types, Owned, ClientsKept, Fresh, ServersKept,
               NoSendOnClosed, Registering, PC, Handling

\* The steps of Send.
LEMMA SendSteps ==
    ASSUME Inv, NEW s \in Sender, Send(s) \/ SendStep(s)
    PROVE  Inv'
<1> USE ZeroIsNoConn DEF Inv, PC, Handling, Goto, Uses, Returns, CloseClient, Unlock,
                        sendVars, connVars, recvVars
<1>1. CASE Send(s)
  BY <1>1 DEF Send, Types, Owned, ClientsKept, Fresh, ServersKept, NoSendOnClosed, Registering
<1>2. CASE GetConn(s)
  BY <1>2 DEF GetConn, Types, Owned, ClientsKept, Fresh, ServersKept, NoSendOnClosed, Registering
<1>3. CASE Dial(s)
  <2>1. Types'
    BY <1>3 DEF Dial, Types
  <2>2. Owned'
    BY <1>3 DEF Dial, Types, Owned, ClientsKept, Registering
  <2>3. ClientsKept'
    BY <1>3 DEF Dial, Types, Owned, ClientsKept, Registering
  <2>4. Fresh'
    BY <1>3 DEF Dial, Types, Fresh, ServersKept
  <2>5. ServersKept' /\ NoSendOnClosed'
    BY <1>3 DEF Dial, Types, Fresh, ServersKept, NoSendOnClosed
  <2> QED BY <2>1, <2>2, <2>3, <2>4, <2>5, Zenon
<1>4. CASE RegisterDialed(s)
  <2>1. Types'
    BY <1>4 DEF RegisterDialed, Types
  <2>2. Owned'
    BY <1>4 DEF RegisterDialed, Types, Owned, ClientsKept, Registering
  <2>3. ClientsKept'
    BY <1>4 DEF RegisterDialed, Types, Owned, ClientsKept, Registering
  <2>4. Fresh' /\ ServersKept' /\ NoSendOnClosed'
    BY <1>4 DEF RegisterDialed, Types, Fresh, ServersKept, NoSendOnClosed
  <2> QED BY <2>1, <2>2, <2>3, <2>4, Zenon
<1>5. CASE Lock(s)
  BY <1>5 DEF Lock, Types, Owned, ClientsKept, Fresh, ServersKept, NoSendOnClosed, Registering
<1>6. CASE WriteLength(s)
  BY <1>6 DEF WriteLength, Types, Owned, ClientsKept, Fresh, ServersKept, NoSendOnClosed, Registering
<1>7. CASE WritePayload(s)
  <2>1. /\ pc[s] = "payload" /\ pc'[s] \in {"idle", "drop"} /\ at'[s] \in {at[s], 0}
        /\ \A t \in Sender \ {s} : pc'[t] = pc[t] /\ at'[t] = at[t]
        /\ UNCHANGED <<closed, cached, client, server, recvVars>>
    BY <1>7, Zenon DEF WritePayload, Types
  <2>2. Types'
    <3>1. /\ pc' \in [Sender -> PC] /\ at' \in [Sender -> Conn \cup {0}]
          /\ holder' \in [Conn -> Sender \cup {NoOne}]
      BY <1>7 DEF WritePayload, Types
    <3> QED BY <2>1, <3>1, Zenon DEF Types
  <2>3. Owned'
    BY <2>1, Zenon DEF Owned
  <2>4. \A t \in Sender, c \in Conn : Registering(t, c)' <=> Registering(t, c)
    BY <2>1, Zenon DEF Registering
  <2>5. ClientsKept'
    BY <2>1, <2>4, Zenon DEF ClientsKept
  <2>6. Fresh' /\ ServersKept' /\ NoSendOnClosed'
    BY <2>1, Zenon DEF Fresh, ServersKept, NoSendOnClosed
  <2> QED BY <2>2, <2>3, <2>5, <2>6, Zenon
<1>8. CASE DropConn(s)
  <2>1. Types'
    BY <1>8, Zenon DEF DropConn, Types
  <2>2. Owned'
    BY <1>8 DEF DropConn, Types, Owned, ClientsKept, Registering
  <2>3. ClientsKept'
    BY <1>8 DEF DropConn, Types, Owned, ClientsKept, Registering
  <2>4. Fresh' /\ ServersKept' /\ NoSendOnClosed'
    BY <1>8 DEF DropConn, Types, Fresh, ServersKept, NoSendOnClosed
  <2> QED BY <2>1, <2>2, <2>3, <2>4, Zenon
<1> QED BY <1>1, <1>2, <1>3, <1>4, <1>5, <1>6, <1>7, <1>8, Zenon DEF SendStep

\* A handler that reads or delivers, and goes on.
LEMMA HandlerGoesOn ==
    ASSUME Inv, NEW c \in Conn, NEW h \in {"length", "payload", "deliver", "exit"},
           handler[c] \in {"length", "payload", "deliver"}, Handler(c, h),
           UNCHANGED <<sendVars, client, server, acceptor, inConns, shut>>
    PROVE  Inv'
<1> USE DEF Inv, Types, PC, Handling, Handler, sendVars
<1>1. Types'
  BY Zenon
<1>2. Owned' /\ ClientsKept'
  BY DEF Owned, ClientsKept, Registering
<1>3. Fresh' /\ ServersKept'
  BY DEF Fresh, ServersKept
<1>4. NoSendOnClosed'
  BY Zenon DEF NoSendOnClosed
<1> QED BY <1>1, <1>2, <1>3, <1>4, Zenon

\* The steps of a connection's handler and of the network.
LEMMA ConnectionSteps ==
    ASSUME Inv, NEW c \in Conn, HandleStep(c) \/ Break(c)
    PROVE  Inv'
<1> USE ZeroIsNoConn DEF connVars, recvVars
<1>1. CASE ReadLength(c)
  <2>1. /\ handler[c] \in {"length", "payload", "deliver"}
        /\ \E h \in {"length", "payload", "deliver", "exit"} : Handler(c, h)
        /\ UNCHANGED <<sendVars, client, server, acceptor, inConns, shut>>
    BY <1>1, Zenon DEF ReadLength
  <2> QED BY <2>1, HandlerGoesOn, Zenon
<1>2. CASE ReadPayload(c)
  <2>1. /\ handler[c] \in {"length", "payload", "deliver"}
        /\ \E h \in {"length", "payload", "deliver", "exit"} : Handler(c, h)
        /\ UNCHANGED <<sendVars, client, server, acceptor, inConns, shut>>
    BY <1>2, Zenon DEF ReadPayload
  <2> QED BY <2>1, HandlerGoesOn, Zenon
<1>3. CASE Deliver(c)
  <2>1. /\ handler[c] \in {"length", "payload", "deliver"}
        /\ \E h \in {"length", "payload", "deliver", "exit"} : Handler(c, h)
        /\ UNCHANGED <<sendVars, client, server, acceptor, inConns, shut>>
    BY <1>3, Zenon DEF Deliver, Delivers
  <2> QED BY <2>1, HandlerGoesOn, Zenon
<1> USE DEF Inv, PC, Handling, Handler, CloseServer, sendVars
<1>4. CASE Exit(c)
  <2>1. Types'
    BY <1>4, Zenon DEF Exit, Types
  <2>2. Fresh'
    <3>1. /\ handler[c] = "exit" /\ handler'[c] = "gone" /\ server'[c] = "closed"
          /\ \A d \in Conn \ {c} : handler'[d] = handler[d] /\ server'[d] = server[d]
          /\ inConns' = inConns \ {c} /\ UNCHANGED <<client, acceptor, shut>>
      BY <1>4, Zenon DEF Exit, Types
    <3>2. acceptor # c /\ client[c] # "none"
      BY <3>1, Zenon DEF Fresh
    <3>3. acceptor' # 0 /\ acceptor' # -1 => handler'[acceptor'] = "none"
      BY <3>1, <3>2, Zenon DEF Fresh, Types
    <3>4. \A d \in Conn : d \in inConns' => handler'[d] # "none" /\ handler'[d] # "gone"
      BY <3>1, Zenon DEF Fresh
    <3>5. \A d \in Conn : client'[d] = "none" => server'[d] = "none"
      BY <3>1, <3>2, Zenon DEF Fresh
    <3>6. \A d \in Conn : server'[d] \in {"none", "backlog"} => handler'[d] = "none"
      BY <3>1, Zenon DEF Fresh
    <3>7. shut' # "open" => inConns' = {}
      BY <3>1, Zenon DEF Fresh
    <3> QED BY <3>3, <3>4, <3>5, <3>6, <3>7, Zenon DEF Fresh
  <2>3. ServersKept'
    BY <1>4 DEF Exit, Types, ServersKept, Fresh
  <2> QED BY <1>4, <2>1, <2>2, <2>3 DEF Exit, Owned, ClientsKept, NoSendOnClosed, Registering
<1>5. CASE Break(c)
  <2>1. UNCHANGED <<sendVars, client, server, recvVars>>
    BY <1>5, Zenon DEF Break
  <2> QED BY <2>1 DEF Types, Owned, ClientsKept, Fresh, ServersKept, NoSendOnClosed, Registering
<1> QED BY <1>1, <1>2, <1>3, <1>4, <1>5, Zenon DEF HandleStep

\* The steps of acceptLoop, of Close at both nodes, and of the receiver.
LEMMA NodeSteps ==
    ASSUME Inv, CloseSender \/ AcceptStep \/ AcceptFails \/ CloseReceiver \/ CloseWaited
                \/ Consume \/ ConsumerStops
    PROVE  Inv'
<1> USE ZeroIsNoConn DEF Inv, PC, Handling, CloseClient, CloseServer,
                        sendVars, connVars, recvVars
<1>1. CASE CloseSender
  <2>1. Types'
    BY <1>1, Zenon DEF CloseSender, Types
  <2>2. Owned'
    BY <1>1 DEF CloseSender, Types, Owned, ClientsKept, Registering
  <2>3. ClientsKept'
    BY <1>1 DEF CloseSender, Types, Owned, ClientsKept, Registering
  <2>4. Fresh' /\ ServersKept' /\ NoSendOnClosed'
    BY <1>1 DEF CloseSender, Types, Fresh, ServersKept, NoSendOnClosed
  <2> QED BY <2>1, <2>2, <2>3, <2>4, Zenon
<1>2. CASE Accept
  <2>1. Types'
    BY <1>2, Zenon DEF Accept, Types
  <2>2. Fresh'
    BY <1>2 DEF Accept, Types, Fresh, ServersKept
  <2>3. ServersKept'
    BY <1>2 DEF Accept, Types, ServersKept, Fresh
  <2>4. Owned' /\ ClientsKept'
    BY <1>2, Zenon DEF Accept, Owned, ClientsKept, Registering
  <2>5. NoSendOnClosed'
    BY <1>2 DEF Accept, NoSendOnClosed
  <2> QED BY <2>1, <2>2, <2>3, <2>4, <2>5, Zenon
<1>3. CASE RegisterAccepted
  <2>0. acceptor \in Conn
    BY <1>3 DEF RegisterAccepted, Types
  <2>1. Types'
    <3>1. handler' \in [Conn -> Handling] /\ server' \in [Conn -> {"none", "backlog", "open", "closed"}]
      BY <1>3, <2>0 DEF RegisterAccepted, Types
    <3>2. inConns' \subseteq Conn /\ acceptor' \in Conn \cup {0, -1}
      BY <1>3, <2>0, Zenon DEF RegisterAccepted, Types
    <3> QED BY <1>3, <3>1, <3>2, Zenon DEF RegisterAccepted, Types
  <2>2. Fresh'
    <3>1. server[acceptor] = "open"
      BY <2>0, Zenon DEF ServersKept
    <3>2. CASE shut = "open"
      BY <1>3, <2>0, <3>1, <3>2 DEF RegisterAccepted, Types, Fresh
    <3>3. CASE shut # "open"
      <4>1. /\ \A x \in Conn : server'[x] = IF x = acceptor THEN "closed" ELSE server[x]
            /\ acceptor' = -1
            /\ UNCHANGED <<client, handler, inConns, shut>>
        BY <1>3, <3>3, Zenon DEF RegisterAccepted
      <4> QED BY <2>0, <3>1, <4>1, Zenon DEF Fresh
    <3> QED BY <3>2, <3>3, Zenon
  <2>3. ServersKept'
    BY <1>3, <2>0 DEF RegisterAccepted, Types, ServersKept, Fresh
  <2> QED BY <1>3, <2>1, <2>2, <2>3 DEF RegisterAccepted, Owned, ClientsKept, NoSendOnClosed, Registering
<1>4. CASE CloseReceiver
  <2>1. Types'
    BY <1>4, Zenon DEF CloseReceiver, Types
  <2>2. Fresh'
    BY <1>4, Zenon DEF CloseReceiver, Types, Fresh, ServersKept
  <2>3. ServersKept'
    BY <1>4 DEF CloseReceiver, Types, ServersKept, Fresh
  <2> QED BY <1>4, <2>1, <2>2, <2>3 DEF CloseReceiver, Owned, ClientsKept, NoSendOnClosed, Registering
<1>5. CASE CloseWaited
  BY <1>5, SMTT(30) DEF CloseWaited, Types, Owned, ClientsKept, Fresh, ServersKept, NoSendOnClosed, Registering
<1>6. CASE Consume
  BY <1>6 DEF Consume, Types, Owned, ClientsKept, Fresh, ServersKept, NoSendOnClosed, Registering
<1>7. CASE ConsumerStops
  BY <1>7 DEF ConsumerStops, Types, Owned, ClientsKept, Fresh, ServersKept, NoSendOnClosed, Registering
<1>8. CASE AcceptFails
  <2>1. Types'
    BY <1>8, Zenon DEF AcceptFails, Types
  <2>2. Fresh' /\ ServersKept'
    BY <1>8 DEF AcceptFails, Types, Fresh, ServersKept
  <2>4. Owned' /\ ClientsKept'
    BY <1>8, Zenon DEF AcceptFails, Owned, ClientsKept, Registering
  <2>5. NoSendOnClosed'
    BY <1>8 DEF AcceptFails, NoSendOnClosed
  <2> QED BY <2>1, <2>2, <2>4, <2>5, Zenon
<1> QED BY <1>1, <1>2, <1>3, <1>4, <1>5, <1>6, <1>7, <1>8, Zenon DEF AcceptStep

LEMMA InvNext == Inv /\ [Next]_vars => Inv'
<1> SUFFICES ASSUME Inv, [Next]_vars PROVE Inv'
    BY Zenon
<1>1. CASE UNCHANGED vars
  BY <1>1 DEF vars, sendVars, connVars, recvVars, Inv, Types, Owned, ClientsKept, Fresh,
              ServersKept, NoSendOnClosed, Registering
<1>2. CASE Step
  BY <1>2, SendSteps, ConnectionSteps, NodeSteps, Zenon DEF Step
<1> QED BY <1>1, <1>2, Zenon DEF Next

-----------------------------------------------------------------------------
(***************************************************************************)
(* The byte streams.  What is on a connection is told by how much of it    *)
(* has been written and read: every frame of sentOn is two writes, and the *)
(* handler has taken the frames of recvOn and a part of the next one.      *)
(***************************************************************************)
\* How many writes of the frame behind those of recvOn the handler has taken.
Offset(h) == IF h = "payload" THEN 1 ELSE IF h = "deliver" THEN 2 ELSE 0

\* Connection c takes writes and keeps them.
Live(c) == client[c] = "open" /\ ~broken[c] /\ server[c] # "closed"

\* s has written the length of its message on c, and not the payload yet.
Halfway(s, c) == pc[s] = "payload" /\ at[s] = c

\* The messages of which that is so.
Half(c) == {msg[s] : s \in {x \in Sender : Halfway(x, c)}}

\* w is what follows the first o writes of the frames of S.  A last length may
\* be that of a message that is not in S, on a live connection one in P.
Payloads(w, o, S) ==
    \A n \in 1..Len(w), i \in Nat :
        o + n = 2 * i => i <= Len(S) /\ w[n] = <<"payload", S[i]>>

Lengths(w, o, S, P, live) ==
    \A n \in 1..Len(w), i \in Nat :
        o + n + 1 = 2 * i => /\ w[n] = <<"length", w[n][2]>>
                             /\ i <= Len(S) => w[n][2] = S[i]
                             /\ i > Len(S) /\ live => w[n][2] \in P

Aligned(w, o, S, P, live) ==
    /\ Payloads(w, o, S)
    /\ Lengths(w, o, S, P, live)
    /\ live => o + Len(w) = 2 * Len(S) + IF P = {} THEN 0 ELSE 1

Part == {"length", "payload"} \X Nat

LEMMA AlignedRead ==
    ASSUME NEW w \in Seq(Part), w # <<>>, NEW o \in Nat, NEW S \in Seq(Nat), NEW P, NEW live \in BOOLEAN,
           Aligned(w, o, S, P, live)
    PROVE  Aligned(Tail(w), o + 1, S, P, live)
<1>1. /\ Len(w) \in Nat /\ Len(w) >= 1 /\ Len(S) \in Nat
      /\ Len(Tail(w)) = Len(w) - 1
      /\ \A n \in 1..(Len(w) - 1) : n + 1 \in 1..Len(w) /\ Tail(w)[n] = w[n + 1]
  OBVIOUS
<1>2. Payloads(Tail(w), o + 1, S)
  <2> SUFFICES ASSUME NEW n \in 1..(Len(w) - 1), NEW i \in Nat, (o + 1) + n = 2 * i
               PROVE  i <= Len(S) /\ w[n + 1] = <<"payload", S[i]>>
    BY <1>1, Zenon DEF Payloads
  <2>1. o + (n + 1) = 2 * i /\ n + 1 \in 1..Len(w)
    BY <1>1
  <2> QED BY <2>1, Zenon DEF Aligned, Payloads
<1>3. Lengths(Tail(w), o + 1, S, P, live)
  <2> SUFFICES ASSUME NEW n \in 1..(Len(w) - 1), NEW i \in Nat, (o + 1) + n + 1 = 2 * i
               PROVE  /\ w[n + 1] = <<"length", w[n + 1][2]>>
                      /\ i <= Len(S) => w[n + 1][2] = S[i]
                      /\ i > Len(S) /\ live => w[n + 1][2] \in P
    BY <1>1 DEF Lengths
  <2>1. o + (n + 1) + 1 = 2 * i /\ n + 1 \in 1..Len(w)
    BY <1>1
  <2> QED BY <2>1, Zenon DEF Aligned, Lengths
<1>4. live => (o + 1) + Len(Tail(w)) = 2 * Len(S) + IF P = {} THEN 0 ELSE 1
  BY <1>1 DEF Aligned
<1> QED BY <1>2, <1>3, <1>4, Zenon DEF Aligned

LEMMA AlignedLength ==
    ASSUME NEW w \in Seq(Part), NEW o \in Nat, NEW S \in Seq(Nat), NEW m \in Nat,
           Aligned(w, o, S, {}, TRUE)
    PROVE  Aligned(Append(w, <<"length", m>>), o, S, {m}, TRUE)
<1> DEFINE v == Append(w, <<"length", m>>)
<1>1. /\ Len(w) \in Nat /\ Len(S) \in Nat /\ Len(v) = Len(w) + 1
      /\ \A n \in 1..Len(w) : v[n] = w[n]
      /\ v[Len(w) + 1] = <<"length", m>>
  BY DEF Part
<1>2. o + Len(w) = 2 * Len(S)
  BY DEF Aligned
<1> HIDE DEF v
<1>3. Payloads(v, o, S)
  <2> SUFFICES ASSUME NEW n \in 1..(Len(w) + 1), NEW i \in Nat, o + n = 2 * i
               PROVE  i <= Len(S) /\ v[n] = <<"payload", S[i]>>
    BY <1>1, Zenon DEF Payloads
  <2>0. n # Len(w) + 1
    <3> SUFFICES ASSUME n = Len(w) + 1 PROVE FALSE
      BY Zenon
    <3>1. 2 * i = 2 * Len(S) + 1
      BY <1>1, <1>2
    <3> QED BY <1>1, <3>1
  <2>1. n \in 1..Len(w) /\ v[n] = w[n]
    BY <1>1, <2>0
  <2> QED BY <2>1, Zenon DEF Aligned, Payloads
<1>4. Lengths(v, o, S, {m}, TRUE)
  <2> SUFFICES ASSUME NEW n \in 1..(Len(w) + 1), NEW i \in Nat, o + n + 1 = 2 * i
               PROVE  /\ v[n] = <<"length", v[n][2]>>
                      /\ i <= Len(S) => v[n][2] = S[i]
                      /\ i > Len(S) => v[n][2] \in {m}
    BY <1>1, Zenon DEF Lengths
  <2>1. CASE n \in 1..Len(w)
    <3>1. /\ w[n] = <<"length", w[n][2]>>
          /\ i <= Len(S) => w[n][2] = S[i]
          /\ i > Len(S) => w[n][2] \in {}
      BY <2>1, Zenon DEF Aligned, Lengths
    <3>2. v[n] = w[n]
      BY <1>1, <2>1, Zenon
    <3> QED BY <3>1, <3>2, Zenon
  <2>2. CASE n = Len(w) + 1
    BY <1>1, <1>2, <2>2
  <2> QED BY <1>1, <2>1, <2>2
<1>5. o + Len(v) = 2 * Len(S) + 1
  BY <1>1, <1>2
<1> QED BY <1>3, <1>4, <1>5, Zenon DEF Aligned, v

LEMMA AlignedPayload ==
    ASSUME NEW w \in Seq(Part), NEW o \in Nat, NEW S \in Seq(Nat), NEW m \in Nat,
           Aligned(w, o, S, {m}, TRUE)
    PROVE  Aligned(Append(w, <<"payload", m>>), o, Append(S, m), {}, TRUE)
<1> DEFINE v == Append(w, <<"payload", m>>)
           T == Append(S, m)
<1>1. /\ Len(w) \in Nat /\ Len(v) = Len(w) + 1
      /\ \A n \in 1..Len(w) : v[n] = w[n]
      /\ v[Len(w) + 1] = <<"payload", m>>
  BY DEF Part
<1>2. /\ Len(S) \in Nat /\ Len(T) = Len(S) + 1
      /\ \A n \in 1..Len(S) : T[n] = S[n]
      /\ T[Len(S) + 1] = m
  OBVIOUS
<1>3. o + Len(w) = 2 * Len(S) + 1
  BY Zenon DEF Aligned
<1> HIDE DEF v, T
<1>4. Payloads(v, o, T)
  <2> SUFFICES ASSUME NEW n \in 1..(Len(w) + 1), NEW i \in Nat, o + n = 2 * i
               PROVE  i <= Len(T) /\ v[n] = <<"payload", T[i]>>
    BY <1>1, Zenon DEF Payloads
  <2>1. CASE n \in 1..Len(w)
    <3>1. i <= Len(S) /\ w[n] = <<"payload", S[i]>>
      BY <2>1, Zenon DEF Aligned, Payloads
    <3>2. i \in 1..Len(S)
      BY <2>1, <3>1
    <3> QED BY <1>1, <1>2, <2>1, <3>1, <3>2
  <2>2. CASE n = Len(w) + 1
    <3>1. \A x, y \in Nat : 2 * x = (2 * y + 1) + 1 => x = y + 1 /\ x <= y + 1
      OBVIOUS
    <3>2. \A a, b \in Nat : a + (b + 1) = (a + b) + 1
      OBVIOUS
    <3>3. o + n = (o + Len(w)) + 1
      <4>1. o + (Len(w) + 1) = (o + Len(w)) + 1
        BY <1>1, <3>2, Zenon
      <4> QED BY <2>2, <4>1, Zenon
    <3>4. i = Len(S) + 1 /\ i <= Len(S) + 1
      <4>1. 2 * i = (2 * Len(S) + 1) + 1
        BY <1>3, <3>3, Zenon
      <4> QED BY <1>2, <3>1, <4>1, Zenon
    <3> QED BY <1>1, <1>2, <2>2, <3>4, Zenon
  <2> QED BY <1>1, <2>1, <2>2
<1>5. Lengths(v, o, T, {}, TRUE)
  <2> SUFFICES ASSUME NEW n \in 1..(Len(w) + 1), NEW i \in Nat, o + n + 1 = 2 * i
               PROVE  /\ v[n] = <<"length", v[n][2]>>
                      /\ i <= Len(T) => v[n][2] = T[i]
                      /\ ~(i > Len(T))
    BY <1>1, Zenon DEF Lengths
  <2>1. n \in 1..Len(w) /\ i \in 1..(Len(S) + 1)
    <3>1. \A a, b, x, y \in Nat : a + b = 2 * y + 1 /\ a + (b + 1) + 1 = 2 * x => FALSE
      OBVIOUS
    <3>2. n # Len(w) + 1
      <4> SUFFICES ASSUME n = Len(w) + 1 PROVE FALSE
        BY Zenon
      <4>1. o + (Len(w) + 1) + 1 = 2 * i
        BY Zenon
      <4> QED BY <1>1, <1>2, <1>3, <3>1, <4>1, Zenon
    <3>3. \A a, b, x, y, z \in Nat : a + b = 2 * y + 1 /\ a + z + 1 = 2 * x /\ z >= 1 /\ z <= b => x >= 1 /\ x <= y + 1
      OBVIOUS
    <3>4. n \in 1..Len(w)
      BY <1>1, <3>2
    <3>5. n \in Nat /\ n >= 1 /\ n <= Len(w)
      BY <1>1, <3>4
    <3>6. i >= 1 /\ i <= Len(S) + 1
      BY <1>1, <1>2, <1>3, <3>3, <3>5, Zenon
    <3> QED BY <1>2, <3>4, <3>6
  <2>2. /\ w[n] = <<"length", w[n][2]>>
        /\ i <= Len(S) => w[n][2] = S[i]
        /\ i > Len(S) => w[n][2] = m
    BY <2>1, Zenon DEF Aligned, Lengths
  <2> QED BY <1>1, <1>2, <2>1, <2>2
<1>6. o + Len(v) = 2 * Len(T) + 0
  <2>1. 2 * Len(T) = 2 * Len(S) + 2
    BY <1>2
  <2>2. o + Len(v) = (o + Len(w)) + 1
    BY <1>1
  <2>3. 2 * Len(S) \in Nat
    BY <1>2
  <2>4. o + Len(v) = 2 * Len(S) + 2
    BY <1>3, <2>2, <2>3
  <2> QED BY <2>1, <2>3, <2>4
<1>7. Aligned(v, o, T, {}, TRUE)
  BY <1>4, <1>5, <1>6, Zenon DEF Aligned
<1> QED BY <1>7, Zenon DEF v, T

LEMMA AlignedCut ==
    ASSUME NEW w \in Seq(Part), NEW k \in 0..Len(w), NEW o \in Nat, NEW S \in Seq(Nat),
           NEW P, NEW Q, NEW live \in BOOLEAN, Aligned(w, o, S, P, live)
    PROVE  Aligned(SubSeq(w, 1, k), o, S, Q, FALSE)
<1> DEFINE v == SubSeq(w, 1, k)
<1>1. /\ Len(w) \in Nat /\ k \in Nat /\ k <= Len(w) /\ Len(v) = k
      /\ \A n \in 1..k : v[n] = w[n]
  OBVIOUS
<1> HIDE DEF v
<1>2. Payloads(v, o, S)
  <2> SUFFICES ASSUME NEW n \in 1..k, NEW i \in Nat, o + n = 2 * i
               PROVE  i <= Len(S) /\ v[n] = <<"payload", S[i]>>
    BY <1>1, Zenon DEF Payloads
  <2>1. n \in 1..Len(w) /\ v[n] = w[n]
    BY <1>1
  <2> QED BY <2>1, Zenon DEF Aligned, Payloads
<1>3. Lengths(v, o, S, Q, FALSE)
  <2> SUFFICES ASSUME NEW n \in 1..k, NEW i \in Nat, o + n + 1 = 2 * i
               PROVE  v[n] = <<"length", v[n][2]>> /\ (i <= Len(S) => v[n][2] = S[i])
    BY <1>1, Zenon DEF Lengths
  <2>1. n \in 1..Len(w) /\ v[n] = w[n]
    BY <1>1
  <2>2. Lengths(w, o, S, P, live)
    BY Zenon DEF Aligned
  <2>3. w[n] = <<"length", w[n][2]>> /\ (i <= Len(S) => w[n][2] = S[i])
    BY <2>1, <2>2, Zenon DEF Lengths
  <2> QED BY <2>1, <2>3, Zenon
<1> QED BY <1>2, <1>3, Zenon DEF Aligned, v

LEMMA AlignedKept ==
    ASSUME NEW w, NEW o, NEW S, NEW P, NEW Q, NEW live \in BOOLEAN, NEW alive \in BOOLEAN,
           Aligned(w, o, S, P, live), alive => live /\ Q = P
    PROVE  Aligned(w, o, S, Q, alive)
BY Zenon DEF Aligned, Lengths

LEMMA PositionType ==
    ASSUME NEW q \in Seq(Nat), NEW h
    PROVE  2 * Len(q) + Offset(h) \in Nat
<1>1. Len(q) \in Nat /\ Offset(h) \in Nat
  BY DEF Offset
<1> QED BY <1>1

\* What the stream argument needs of the types.
StreamTypes ==
    /\ msg \in [Sender -> Nat]
    /\ sends \in Nat
    /\ broken \in [Conn -> BOOLEAN]
    /\ wire \in [Conn -> Seq(Part)]
    /\ got \in [Conn -> Nat]
    /\ sentOn \in [Conn -> Seq(Nat)]
    /\ recvOn \in [Conn -> Seq(Nat)]

\* A writer holds the connection's mutex, and nothing is on a connection that was
\* not dialed yet.
Locked ==
    /\ \A s \in Sender : pc[s] \in {"length", "payload"} => holder[at[s]] = s
    /\ \A s \in Sender : at[s] # 0 => client[at[s]] # "none"
    /\ \A c \in Conn : client[c] = "none" => wire[c] = <<>> /\ sentOn[c] = <<>> /\ recvOn[c] = <<>>

\* The message the handler of c has the length of.
GotNext(c) ==
    IF Len(recvOn[c]) + 1 <= Len(sentOn[c]) THEN got[c] = sentOn[c][Len(recvOn[c]) + 1]
    ELSE Live(c) => got[c] \in Half(c)

Stream(c) ==
    /\ server[c] = "closed" => wire[c] = <<>>
    /\ handler[c] = "gone" => server[c] = "closed"
    /\ server[c] # "closed" /\ handler[c] # "exit" =>
         /\ Aligned(wire[c], 2 * Len(recvOn[c]) + Offset(handler[c]), sentOn[c], Half(c), Live(c))
         /\ handler[c] = "payload" => GotNext(c)
    /\ handler[c] = "deliver" =>
         Len(recvOn[c]) + 1 <= Len(sentOn[c]) /\ got[c] = sentOn[c][Len(recvOn[c]) + 1]
    /\ Len(recvOn[c]) <= Len(sentOn[c])
    /\ \A n \in 1..Len(recvOn[c]) : recvOn[c][n] = sentOn[c][n]

\* Every message is sent once: it is a Send's that has not returned, or on one
\* connection at one place.
Numbered ==
    /\ \A s \in Sender : msg[s] <= sends /\ (pc[s] = "idle" <=> msg[s] = 0)
    /\ \A s, t \in Sender : msg[s] = msg[t] /\ msg[s] # 0 => s = t

\* Message m is the n-th sent on connection c.
SentAs(c, n, m) == n \in 1..Len(sentOn[c]) /\ sentOn[c][n] = m

SentOnce ==
    /\ \A c \in Conn, n, m \in Nat : SentAs(c, n, m) => m \in 1..sends /\ \A s \in Sender : msg[s] # m
    /\ \A c, d \in Conn, k, n, m \in Nat : SentAs(c, k, m) /\ SentAs(d, n, m) => c = d /\ k = n

Once == Numbered /\ SentOnce

StreamInv == StreamTypes /\ Locked /\ Once /\ \A c \in Conn : Stream(c)

LEMMA StreamInit == Init => StreamInv
<1> SUFFICES ASSUME Init PROVE StreamInv
  BY Zenon
<1> USE DEF Init, Started
<1>1. StreamTypes /\ Locked
  BY TransportBounds DEF StreamTypes, Locked
<1>2. Once
  BY TransportBounds DEF Once, Numbered, SentOnce, SentAs
<1>3. ASSUME NEW c \in Conn PROVE Stream(c)
  <2>1. wire[c] = <<>> /\ sentOn[c] = <<>> /\ recvOn[c] = <<>> /\ handler[c] = "none" /\ server[c] = "none"
    BY ZeroIsNoConn, Zenon
  <2>2. client[c] = "none"
    BY ZeroIsNoConn, Zenon
  <2>3. Aligned(<<>>, 0, <<>>, Half(c), FALSE)
    BY DEF Aligned, Payloads, Lengths
  <2>4. 2 * Len(recvOn[c]) + Offset(handler[c]) = 0 /\ Live(c) = FALSE
    BY <2>1, <2>2 DEF Offset, Live
  <2>5. Aligned(wire[c], 2 * Len(recvOn[c]) + Offset(handler[c]), sentOn[c], Half(c), Live(c))
    BY <2>1, <2>3, <2>4, Zenon
  <2> QED BY <2>1, <2>5 DEF Stream
<1> QED BY <1>1, <1>2, <1>3, Zenon DEF StreamInv

-----------------------------------------------------------------------------
(***************************************************************************)
(* What a step leaves alone.                                               *)
(***************************************************************************)
\* A connection that the step accepts, registers, closes or breaks for writing,
\* if it touches it at all.
LEMMA StreamKept ==
    ASSUME NEW c \in Conn, Stream(c),
           UNCHANGED <<wire[c], recvOn[c], sentOn[c], got[c]>>,
           server'[c] = "closed" <=> server[c] = "closed",
           handler'[c] = handler[c] \/ (handler[c] = "none" /\ handler'[c] = "length"),
           Live(c)' => Live(c) /\ Half(c)' = Half(c)
    PROVE  Stream(c)'
<1>1. Live(c) \in BOOLEAN /\ Live(c)' \in BOOLEAN
  BY Zenon DEF Live
<1>2. GotNext(c) => GotNext(c)'
  BY Zenon DEF GotNext
<1>3. ASSUME NEW o, Aligned(wire[c], o, sentOn[c], Half(c), Live(c))
      PROVE  Aligned(wire[c], o, sentOn[c], Half(c)', Live(c)')
  BY <1>1, <1>3, AlignedKept, Zenon
<1>4. Offset(handler'[c]) = Offset(handler[c])
  BY Zenon DEF Offset
<1> QED BY <1>2, <1>3, <1>4, Zenon DEF Stream

\* One whose other end is closed.
LEMMA StreamClosed ==
    ASSUME NEW c \in Conn, Stream(c), UNCHANGED <<recvOn[c], sentOn[c], got[c]>>,
           server'[c] = "closed", wire'[c] = <<>>,
           handler'[c] = handler[c] \/ handler'[c] = "gone"
    PROVE  Stream(c)'
BY Zenon DEF Stream

\* The writers on c are the same.
LEMMA HalfKept ==
    ASSUME NEW c, \A s \in Sender : Halfway(s, c)' = Halfway(s, c),
           \A s \in Sender : Halfway(s, c) => msg'[s] = msg[s]
    PROVE  Half(c)' = Half(c)
BY Zenon DEF Half

\* A step of Send that neither begins nor ends a payload.
LEMMA WritersKept ==
    ASSUME NEW s \in Sender, Types, Types', pc[s] # "payload", pc'[s] # "payload",
           \A x \in Sender \ {s} : pc'[x] = pc[x] /\ at'[x] = at[x] /\ msg'[x] = msg[x],
           NEW c
    PROVE  Half(c)' = Half(c)
<1>1. \A x \in Sender : Halfway(x, c)' = Halfway(x, c)
  BY Zenon DEF Halfway
<1>2. \A x \in Sender : Halfway(x, c) => msg'[x] = msg[x]
  BY Zenon DEF Halfway
<1> QED BY <1>1, <1>2, HalfKept, Zenon

\* The steps of Send before and after the writes.
LEMMA QuietSend ==
    ASSUME Inv, Inv', StreamInv, StreamTypes', NEW s \in Sender, pc[s] # "payload", pc'[s] # "payload",
           \A x \in Sender \ {s} : pc'[x] = pc[x] /\ at'[x] = at[x] /\ msg'[x] = msg[x],
           \A c \in Conn : client'[c] = "open" => client[c] = "open",
           UNCHANGED <<wire, recvOn, sentOn, got, server, handler, broken>>
    PROVE  \A c \in Conn : Stream(c)'
<1> SUFFICES ASSUME NEW c \in Conn PROVE Stream(c)'
  BY Zenon
<1>1. Half(c)' = Half(c)
  BY WritersKept, Zenon DEF Inv
<1>2. Live(c)' => Live(c)
  BY Zenon DEF Live
<1> QED BY <1>1, <1>2, StreamKept, Zenon DEF StreamInv

LEMMA SendTypes ==
    ASSUME StreamTypes, NEW s \in Sender, Send(s) \/ SendStep(s)
    PROVE  StreamTypes'
<1> USE DEF Goto, Uses, Returns, sendVars, connVars, recvVars
<1>1. msg' \in [Sender -> Nat] /\ sends' \in Nat
  <2>1. CASE Send(s)
    <3>1. sends' = sends + 1 /\ msg' = [msg EXCEPT ![s] = sends']
      BY <2>1, Zenon DEF Send
    <3>2. sends' \in Nat
      BY <3>1 DEF StreamTypes
    <3> QED BY <3>1, <3>2, Zenon DEF StreamTypes
  <2>2. CASE SendStep(s)
    <3>1. UNCHANGED sends /\ (UNCHANGED msg \/ msg' = [msg EXCEPT ![s] = 0])
      BY <2>2, Zenon DEF SendStep, GetConn, Dial, RegisterDialed, Lock, WriteLength, WritePayload, DropConn
    <3>2. 0 \in Nat
      OBVIOUS
    <3> QED BY <3>1, <3>2, Zenon DEF StreamTypes
  <2> QED BY <2>1, <2>2, Zenon
<1>2. UNCHANGED <<broken, got, recvOn>>
  BY Zenon DEF Send, SendStep, GetConn, Dial, RegisterDialed, Lock, WriteLength, WritePayload, DropConn
<1>3. /\ UNCHANGED wire \/ \E kind \in {"length", "payload"} : Writes(at[s], <<kind, msg[s]>>)
      /\ UNCHANGED sentOn \/ sentOn' = [sentOn EXCEPT ![at[s]] = Append(@, msg[s])]
  BY Zenon DEF Send, SendStep, GetConn, Dial, RegisterDialed, Lock, WriteLength, WritePayload, DropConn
<1>4. wire' \in [Conn -> Seq(Part)]
  <2>1. ASSUME NEW p \in Part, wire' = [wire EXCEPT ![at[s]] = Append(@, p)]
        PROVE  wire' \in [Conn -> Seq(Part)]
    <3>1. \A q \in Seq(Part) : Append(q, p) \in Seq(Part)
      OBVIOUS
    <3> QED BY <2>1, <3>1, Zenon DEF StreamTypes
  <2>2. \A kind \in {"length", "payload"} : <<kind, msg[s]>> \in Part
    BY Zenon DEF Part, StreamTypes
  <2> QED BY <1>3, <2>1, <2>2, Zenon DEF Writes, StreamTypes
<1>5. sentOn' \in [Conn -> Seq(Nat)]
  <2>1. ASSUME NEW m \in Nat, sentOn' = [sentOn EXCEPT ![at[s]] = Append(@, m)]
        PROVE  sentOn' \in [Conn -> Seq(Nat)]
    <3>1. \A q \in Seq(Nat) : Append(q, m) \in Seq(Nat)
      OBVIOUS
    <3> QED BY <2>1, <3>1, Zenon DEF StreamTypes
  <2>2. msg[s] \in Nat
    BY Zenon DEF StreamTypes
  <2> QED BY <1>3, <2>1, <2>2, Zenon DEF StreamTypes
<1> QED BY <1>1, <1>2, <1>4, <1>5, Zenon DEF StreamTypes

LEMMA SendLocks ==
    ASSUME Inv, Inv', StreamInv, NEW s \in Sender, Send(s) \/ SendStep(s)
    PROVE  Locked'
<1> USE ZeroIsNoConn DEF Goto, Uses, Returns, CloseClient, Unlock, sendVars, connVars, recvVars
<1>0. Types /\ Owned /\ Locked /\ Types' /\ ClientsKept
  BY Zenon DEF Inv, StreamInv
<1>1. \A x \in Sender : pc'[x] \in {"length", "payload"} => holder'[at'[x]] = x
  <2>1. CASE Send(s) \/ GetConn(s) \/ Dial(s) \/ RegisterDialed(s) \/ DropConn(s)
    <3>1. /\ pc'[s] \notin {"length", "payload"} /\ UNCHANGED holder
          /\ \A x \in Sender \ {s} : pc'[x] = pc[x] /\ at'[x] = at[x]
      <4>1. /\ \E p \in PC \ {"length", "payload"} : pc' = [pc EXCEPT ![s] = p]
            /\ UNCHANGED at \/ \E c : at' = [at EXCEPT ![s] = c]
            /\ UNCHANGED holder
        BY <2>1, Zenon DEF Send, GetConn, Dial, RegisterDialed, DropConn, PC
      <4> QED BY <1>0, <4>1, Zenon DEF Types
    <3> QED BY <1>0, <3>1, Zenon DEF Locked
  <2>2. CASE Lock(s)
    BY <1>0, <2>2, TransportBounds DEF Lock, Locked, Types, Owned
  <2>3. CASE WriteLength(s)
    BY <1>0, <2>3 DEF WriteLength, Locked, Types, Owned
  <2>4. CASE WritePayload(s)
    <3>1. /\ pc[s] = "payload" /\ pc'[s] \notin {"length", "payload"}
          /\ \A x \in Sender \ {s} : pc'[x] = pc[x] /\ at'[x] = at[x]
          /\ \A c \in Conn \ {at[s]} : holder'[c] = holder[c]
      BY <1>0, <2>4, Zenon DEF WritePayload, Types
    <3>2. \A x \in Sender \ {s} : pc[x] \in {"length", "payload"} =>
              at[x] \in Conn /\ at[x] # at[s] /\ holder[at[x]] = x
      BY <1>0, <3>1, Zenon DEF Locked, Owned
    <3>3. ASSUME NEW x \in Sender, pc'[x] \in {"length", "payload"}
          PROVE  holder'[at'[x]] = x
      <4>1. x \in Sender \ {s} /\ pc'[x] = pc[x] /\ at'[x] = at[x]
        BY <3>1, <3>3, Zenon
      <4>2. at[x] \in Conn \ {at[s]} /\ holder[at[x]] = x
        BY <3>2, <3>3, <4>1, Zenon
      <4> QED BY <3>1, <4>1, <4>2, Zenon
    <3> QED BY <3>3, Zenon
  <2> QED BY <2>1, <2>2, <2>3, <2>4, Zenon DEF SendStep
<1>2. \A c \in Conn : client[c] # "none" => client'[c] # "none"
  <2>1. CASE Dial(s)
    BY <1>0, <2>1, Zenon DEF Dial, Types
  <2>2. CASE ~Dial(s)
    <3>1. UNCHANGED client \/ \E c : CloseClient(c)
      BY <2>2, Zenon DEF Send, SendStep, GetConn, RegisterDialed, Lock, WriteLength, WritePayload, DropConn
    <3> QED BY <1>0, <3>1, Zenon DEF Types
  <2> QED BY <2>1, <2>2, Zenon
<1>3. \A x \in Sender : at'[x] # 0 => client'[at'[x]] # "none"
  <2>1. CASE Dial(s)
    <3>1. \A x \in Sender \ {s} : at'[x] = at[x] /\ at[x] \in Conn \cup {0}
      BY <1>0, <2>1, Zenon DEF Dial, Types
    <3>2. at'[s] # 0 => client'[at'[s]] # "none"
      BY <1>0, <2>1, Zenon DEF Dial, Types
    <3> QED BY <1>0, <1>2, <3>1, <3>2, Zenon DEF Locked
  <2>2. cached # 0 => client[cached] # "none"
    BY <1>0, Zenon DEF ClientsKept, Types
  <2>3. CASE GetConn(s)
    BY <1>0, <1>2, <2>2, <2>3 DEF GetConn, Locked, Types
  <2>4. \A x \in Sender : at[x] # 0 => at[x] \in Conn /\ client'[at[x]] # "none"
    BY <1>0, <1>2, SMTT(30) DEF Locked, Types
  <2>5. CASE RegisterDialed(s)
    <3>1. \A x \in Sender : at'[x] \in {at[x], 0, cached}
      BY <1>0, <2>5, Zenon DEF RegisterDialed, Types
    <3> QED BY <1>0, <1>2, <2>2, <2>4, <3>1, Zenon DEF Types
  <2>6. CASE Send(s) \/ Lock(s) \/ WriteLength(s) \/ WritePayload(s) \/ DropConn(s)
    <3>1. \A x \in Sender : at'[x] \in {at[x], 0}
      BY <1>0, <2>6, Zenon DEF Send, Lock, WriteLength, WritePayload, DropConn, Types
    <3> QED BY <2>4, <3>1, Zenon
  <2> QED BY <2>1, <2>3, <2>5, <2>6, Zenon DEF SendStep
<1>4. ASSUME NEW c \in Conn, client'[c] = "none"
      PROVE  wire'[c] = <<>> /\ sentOn'[c] = <<>> /\ recvOn'[c] = <<>>
  <2>1. client[c] = "none"
    BY <1>2, <1>4, Zenon
  <2>2. CASE Send(s) \/ GetConn(s) \/ Dial(s) \/ RegisterDialed(s) \/ Lock(s) \/ DropConn(s)
    BY <1>0, <2>1, <2>2, Zenon DEF Send, GetConn, Dial, RegisterDialed, Lock, DropConn, Locked
  <2>3. CASE WriteLength(s) \/ WritePayload(s)
    <3>1. at[s] \in Conn /\ at[s] # c
      BY <1>0, <2>1, <2>3, Zenon DEF WriteLength, WritePayload, Locked, Owned
    <3>2. wire'[c] = wire[c] /\ sentOn'[c] = sentOn[c] /\ recvOn'[c] = recvOn[c]
      BY <2>3, <3>1, Zenon DEF WriteLength, WritePayload, Writes, StreamInv, StreamTypes
    <3> QED BY <1>0, <2>1, <3>2, Zenon DEF Locked
  <2> QED BY <2>2, <2>3, Zenon DEF SendStep
<1> QED BY <1>1, <1>3, <1>4, Zenon DEF Locked

\* A Send that does not return leaves the messages alone, one that returns has
\* none any more.
LEMMA OnceKept ==
    ASSUME Types, StreamTypes, Once, NEW s \in Sender, UNCHANGED <<sends, sentOn>>,
           \A x \in Sender \ {s} : msg'[x] = msg[x] /\ pc'[x] = pc[x],
           \/ msg'[s] = msg[s] /\ (pc'[s] = "idle" <=> pc[s] = "idle")
           \/ msg'[s] = 0 /\ pc'[s] = "idle"
    PROVE  Once'
<1>1. \A x \in Sender : msg'[x] = msg[x] \/ msg'[x] = 0
  BY Zenon
<1>2. \A x \in Sender : pc'[x] = "idle" <=> msg'[x] = 0
  BY Zenon DEF Once, Numbered
<1>3. sends \in Nat /\ \A x \in Sender : msg[x] \in Nat /\ msg[x] <= sends
  BY Zenon DEF Once, Numbered, StreamTypes
<1>4. Numbered'
  BY <1>1, <1>2, <1>3, SMTT(30) DEF Once, Numbered
<1>5. \A c \in Conn, n, m \in Nat : SentAs(c, n, m)' = SentAs(c, n, m)
  BY Zenon DEF SentAs
<1>6. SentOnce'
  BY <1>1, <1>5 DEF Once, SentOnce
<1> QED BY <1>4, <1>6, Zenon DEF Once

LEMMA SendOnce ==
    ASSUME Inv, StreamInv, StreamTypes', NEW s \in Sender, Send(s) \/ SendStep(s)
    PROVE  Once'
<1> USE DEF Goto, Uses, Returns, sendVars, connVars, recvVars
<1>0. Types /\ Owned /\ StreamTypes /\ Once
  BY Zenon DEF Inv, StreamInv
<1>1. CASE Send(s)
  <2>1. sends' = sends + 1 /\ sends \in Nat /\ sentOn' = sentOn
    BY <1>0, <1>1, Zenon DEF Send, StreamTypes
  <2>2. /\ \A x \in Sender \ {s} : msg'[x] = msg[x] /\ pc'[x] = pc[x]
        /\ msg'[s] = sends + 1 /\ pc'[s] = "get"
    BY <1>0, <1>1, <2>1, Zenon DEF Send, StreamTypes, Types
  <2>3. \A x \in Sender : msg[x] \in Nat /\ msg[x] <= sends
    BY <1>0, Zenon DEF StreamTypes, Once, Numbered
  <2>4. Numbered'
    BY <1>0, <2>1, <2>2, <2>3, SMTT(30) DEF Once, Numbered
  <2>5. ASSUME NEW c \in Conn, NEW n \in Nat, NEW m \in Nat, SentAs(c, n, m)
        PROVE  m \in 1..(sends + 1) /\ \A x \in Sender : msg'[x] # m
    <3>1. m \in 1..sends /\ \A x \in Sender : msg[x] # m
      BY <1>0, <2>5, Zenon DEF Once, SentOnce
    <3>2. m \in 1..(sends + 1) /\ m # sends + 1
      BY <2>1, <3>1
    <3> QED BY <2>2, <3>1, <3>2, Zenon
  <2>6. SentOnce'
    <3>1. \A c \in Conn, n, m \in Nat : SentAs(c, n, m)' => SentAs(c, n, m)
      BY <2>1, Zenon DEF SentAs
    <3>2. \A c \in Conn, n, m \in Nat : SentAs(c, n, m)' => m \in 1..sends' /\ \A x \in Sender : msg'[x] # m
      BY <2>1, <2>5, <3>1, Zenon
    <3>3. ASSUME NEW c \in Conn, NEW d \in Conn, NEW k \in Nat, NEW n \in Nat, NEW m \in Nat,
                 SentAs(c, k, m)', SentAs(d, n, m)'
          PROVE  c = d /\ k = n
      <4>1. SentAs(c, k, m) /\ SentAs(d, n, m)
        BY <3>1, <3>3, Zenon
      <4> QED BY <1>0, <4>1, Zenon DEF Once, SentOnce
    <3> QED BY <3>2, <3>3, Zenon DEF SentOnce
  <2> QED BY <2>4, <2>6, Zenon DEF Once
<1>2. CASE GetConn(s) \/ Dial(s) \/ RegisterDialed(s) \/ Lock(s) \/ WriteLength(s) \/ DropConn(s)
  <2>1. UNCHANGED <<sends, sentOn>>
    BY <1>2, Zenon DEF GetConn, Dial, RegisterDialed, Lock, WriteLength, DropConn
  <2>2. \A x \in Sender \ {s} : msg'[x] = msg[x] /\ pc'[x] = pc[x]
    BY <1>0, <1>2, Zenon DEF GetConn, Dial, RegisterDialed, Lock, WriteLength, DropConn, Types, StreamTypes
  <2>3. \/ msg'[s] = msg[s] /\ (pc'[s] = "idle" <=> pc[s] = "idle")
        \/ msg'[s] = 0 /\ pc'[s] = "idle"
    BY <1>0, <1>2, Zenon DEF GetConn, Dial, RegisterDialed, Lock, WriteLength, DropConn, Types, StreamTypes
  <2> QED BY <1>0, <2>1, <2>2, <2>3, OnceKept, Zenon
<1>3. CASE WritePayload(s) /\ UNCHANGED sentOn
  <2>1. UNCHANGED sends /\ \A x \in Sender \ {s} : msg'[x] = msg[x] /\ pc'[x] = pc[x]
    BY <1>0, <1>3, Zenon DEF WritePayload, Types, StreamTypes
  <2>2. \/ msg'[s] = msg[s] /\ (pc'[s] = "idle" <=> pc[s] = "idle")
        \/ msg'[s] = 0 /\ pc'[s] = "idle"
    BY <1>0, <1>3, Zenon DEF WritePayload, Types, StreamTypes
  <2> QED BY <1>0, <1>3, <2>1, <2>2, OnceKept, Zenon
<1>4. CASE WritePayload(s) /\ sentOn' = [sentOn EXCEPT ![at[s]] = Append(@, msg[s])] /\ Returns(s)
  <2> DEFINE q == sentOn[at[s]]
  <2>1. at[s] \in Conn /\ msg[s] \in Nat /\ msg[s] # 0 /\ UNCHANGED sends
    BY <1>0, <1>4, Zenon DEF WritePayload, Owned, Once, Numbered, StreamTypes
  <2>2. q \in Seq(Nat) /\ sentOn'[at[s]] = Append(q, msg[s])
    BY <1>0, <1>4, <2>1, Zenon DEF StreamTypes
  <2>3. \A c \in Conn \ {at[s]} : sentOn'[c] = sentOn[c]
    BY <1>0, <1>4, <2>1, Zenon DEF StreamTypes
  <2> HIDE DEF q
  <2>4. Len(q) \in Nat /\ \A n \in 1..Len(Append(q, msg[s])) :
           (n \in 1..Len(q) /\ Append(q, msg[s])[n] = q[n]) \/ (n = Len(q) + 1 /\ Append(q, msg[s])[n] = msg[s])
    BY <2>1, <2>2
  <2>5. \A c \in Conn, n, m \in Nat : SentAs(c, n, m)' =>
           SentAs(c, n, m) \/ (c = at[s] /\ n = Len(q) + 1 /\ m = msg[s])
    BY <2>2, <2>3, <2>4, Zenon DEF SentAs, q
  <2>6. /\ \A x \in Sender \ {s} : msg'[x] = msg[x] /\ pc'[x] = pc[x]
        /\ msg'[s] = 0 /\ pc'[s] = "idle"
    BY <1>0, <1>4, Zenon DEF StreamTypes, Types
  <2>7. sends \in Nat /\ \A x \in Sender : msg[x] \in Nat /\ msg[x] <= sends
    BY <1>0, Zenon DEF StreamTypes, Once, Numbered
  <2>8. Numbered'
    BY <1>0, <2>1, <2>6, <2>7 DEF Once, Numbered
  <2>9. SentOnce'
    <3>1. ASSUME NEW c \in Conn, NEW n \in Nat, NEW m \in Nat, SentAs(c, n, m)'
          PROVE  m \in 1..sends /\ \A x \in Sender : msg'[x] # m
      <4>1. CASE SentAs(c, n, m)
        <5>1. m \in 1..sends /\ \A x \in Sender : msg[x] # m
          BY <1>0, <4>1, Zenon DEF Once, SentOnce
        <5> QED BY <2>6, <5>1
      <4>2. CASE m = msg[s]
        BY <1>0, <2>1, <2>6, <2>7, <4>2, SMTT(30) DEF Once, Numbered
      <4> QED BY <2>5, <3>1, <4>1, <4>2, Zenon
    <3>2. ASSUME NEW c \in Conn, NEW d \in Conn, NEW k \in Nat, NEW n \in Nat, NEW m \in Nat,
                 SentAs(c, k, m)', SentAs(d, n, m)'
          PROVE  c = d /\ k = n
      <4>1. \A e \in Conn, z \in Nat : SentAs(e, z, m) => m # msg[s]
        BY <1>0, Zenon DEF Once, SentOnce
      <4>2. (SentAs(c, k, m) /\ SentAs(d, n, m)) \/ (c = at[s] /\ k = Len(q) + 1 /\ d = at[s] /\ n = Len(q) + 1)
        BY <2>5, <3>2, <4>1
      <4> QED BY <1>0, <4>2, Zenon DEF Once, SentOnce
    <3> QED BY <2>1, <3>1, <3>2, Zenon DEF SentOnce
  <2> QED BY <2>8, <2>9, Zenon DEF Once
<1>5. WritePayload(s) => UNCHANGED sentOn \/ (sentOn' = [sentOn EXCEPT ![at[s]] = Append(@, msg[s])] /\ Returns(s))
  BY Zenon DEF WritePayload
<1> QED BY <1>1, <1>2, <1>3, <1>4, <1>5, Zenon DEF SendStep

\* A connection that was just dialed is empty.
LEMMA DialStreams ==
    ASSUME Inv, Inv', StreamInv, StreamTypes', Locked', NEW s \in Sender, Dial(s)
    PROVE  \A c \in Conn : Stream(c)'
<1> USE DEF Goto, Returns, sendVars, connVars, recvVars
<1> SUFFICES ASSUME NEW c \in Conn PROVE Stream(c)'
  BY Zenon
<1>0. Types /\ Types' /\ Fresh /\ Stream(c) /\ Locked
  BY Zenon DEF Inv, StreamInv
<1>1. /\ pc[s] # "payload" /\ pc'[s] # "payload"
      /\ \A x \in Sender \ {s} : pc'[x] = pc[x] /\ at'[x] = at[x] /\ msg'[x] = msg[x]
      /\ UNCHANGED <<wire, recvOn, sentOn, got, handler, broken>>
  BY <1>0 DEF Dial, Types, StreamInv, StreamTypes
<1>2. Half(c)' = Half(c)
  BY <1>0, <1>1, WritersKept, Zenon
<1>3. CASE client'[c] = client[c] /\ server'[c] = server[c]
  <2>1. Live(c)' => Live(c)
    BY <1>1, <1>3, Zenon DEF Live
  <2> QED BY <1>0, <1>1, <1>2, <1>3, <2>1, StreamKept, Zenon
<1>4. CASE client[c] = "none" /\ server'[c] = "backlog"
  <2>1. wire[c] = <<>> /\ sentOn[c] = <<>> /\ recvOn[c] = <<>> /\ handler[c] = "none" /\ server[c] = "none"
    BY <1>0, <1>4, Zenon DEF Locked, Fresh
  <2>2. Half(c) = {}
    BY <1>0, <1>4, ZeroIsNoConn, Zenon DEF Half, Halfway, Locked
  <2>3. Aligned(<<>>, 0, <<>>, {}, Live(c)')
    BY DEF Aligned, Payloads, Lengths
  <2>4. 2 * Len(recvOn'[c]) + Offset(handler'[c]) = 0
    BY <1>1, <2>1 DEF Offset
  <2>5. Aligned(wire'[c], 2 * Len(recvOn'[c]) + Offset(handler'[c]), sentOn'[c], Half(c)', Live(c)')
    BY <1>1, <1>2, <2>1, <2>2, <2>3, <2>4, Zenon
  <2>6. /\ server'[c] # "closed" /\ wire'[c] = <<>> /\ handler'[c] = "none"
        /\ Len(recvOn'[c]) = 0 /\ Len(sentOn'[c]) = 0 /\ 1..Len(recvOn'[c]) = {}
    BY <1>1, <1>4, <2>1
  <2>7. Len(recvOn'[c]) <= Len(sentOn'[c])
    BY <2>6
  <2> QED BY <2>5, <2>6, <2>7, Zenon DEF Stream
<1> QED BY <1>0, <1>3, <1>4, SMTT(30) DEF Dial, Types

LEMMA WriteLengthStreams ==
    ASSUME Inv, Inv', StreamInv, StreamTypes', NEW s \in Sender, WriteLength(s)
    PROVE  \A c \in Conn : Stream(c)'
<1> USE DEF Goto, Unlock, sendVars, connVars, recvVars
<1> SUFFICES ASSUME NEW c \in Conn PROVE Stream(c)'
  BY Zenon
<1>0. Types /\ Types' /\ Stream(c) /\ Locked /\ StreamTypes /\ at[s] \in Conn
  BY Zenon DEF Inv, StreamInv, Owned, WriteLength
<1>1. /\ pc[s] = "length" /\ \A x \in Sender \ {s} : pc'[x] = pc[x]
      /\ UNCHANGED <<at, msg, recvOn, sentOn, got, client, server, handler, broken>>
  BY <1>0, Zenon DEF WriteLength, Types
<1>2. Live(c)' = Live(c)
  BY <1>1, Zenon DEF Live
<1>3. CASE c # at[s]
  <2>1. wire'[c] = wire[c]
    BY <1>0, <1>3, Zenon DEF WriteLength, Writes, StreamTypes
  <2>2. Half(c)' = Half(c)
    <3>1. \A x \in Sender : Halfway(x, c)' = Halfway(x, c)
      BY <1>1, <1>3, Zenon DEF Halfway
    <3> QED BY <1>1, <3>1, HalfKept, Zenon
  <2> QED BY <1>0, <1>1, <1>2, <2>1, <2>2, StreamKept, Zenon
<1>4. CASE c = at[s] /\ wire' = wire
  <2>1. CASE Live(c)
    <3>1. FALSE
      <4>1. \A q \in Seq(Part) : \A p : Len(q) # Len(q) + 1 /\ Len(Append(q, p)) = Len(q) + 1
        OBVIOUS
      <4>2. wire[c] \in Seq(Part) /\ wire'[c] = wire[c]
        BY <1>0, <1>4, Zenon DEF StreamTypes
      <4>3. wire'[c] = Append(wire[c], <<"length", msg[s]>>)
        BY <1>0, <1>4, <2>1, Zenon DEF WriteLength, Writes, Fails, Live, StreamTypes
      <4> QED BY <4>1, <4>2, <4>3, Zenon
    <3> QED BY <3>1, Zenon
  <2>2. CASE ~Live(c)
    BY <1>0, <1>1, <1>2, <1>4, <2>2, StreamKept, Zenon
  <2> QED BY <2>1, <2>2, Zenon
<1>5. CASE c = at[s] /\ wire' # wire
  <2> DEFINE m == msg[s]
             o == 2 * Len(recvOn[c]) + Offset(handler[c])
  <2>1. /\ Live(c) /\ pc'[s] = "payload"
        /\ wire'[c] = Append(wire[c], <<"length", m>>)
    BY <1>0, <1>5 DEF WriteLength, Writes, Live, StreamTypes, Types
  <2>2. \A x \in Sender : ~Halfway(x, c)
    BY <1>0, <1>1, <1>5 DEF Locked, Halfway
  <2>3. Half(c) = {}
    BY <2>2, Zenon DEF Half
  <2>4. \A x \in Sender : Halfway(x, c)' <=> x = s
    BY <1>1, <1>5, <2>1, <2>2, Zenon DEF Halfway
  <2>5. Half(c)' = {m}
    BY <1>1, <2>4, Zenon DEF Half
  <2>6. m \in Nat /\ wire[c] \in Seq(Part) /\ sentOn[c] \in Seq(Nat) /\ o \in Nat
    BY <1>0, PositionType, Zenon DEF StreamTypes
  <2>7. Live(c) = TRUE /\ Live(c)' = TRUE
    BY <1>2, <2>1, Zenon DEF Live
  <2> HIDE DEF m, o
  <2>8. ASSUME Aligned(wire[c], o, sentOn[c], Half(c), Live(c))
        PROVE  Aligned(wire'[c], o, sentOn[c], Half(c)', Live(c)')
    BY <2>1, <2>3, <2>5, <2>6, <2>7, <2>8, AlignedLength, Zenon
  <2>9. GotNext(c) => GotNext(c)'
    BY <1>1, <2>3, <2>7, Zenon DEF GotNext
  <2> QED BY <1>0, <1>1, <2>1, <2>8, <2>9, Zenon DEF Stream, o, Live
<1> QED BY <1>3, <1>4, <1>5, Zenon

LEMMA LongerSequence ==
    ASSUME NEW r \in Nat, NEW l \in Nat, NEW R, NEW S, NEW T,
           r <= l, \A n \in 1..r : R[n] = S[n], \A n \in 1..l : T[n] = S[n]
    PROVE  /\ r <= l + 1 /\ \A n \in 1..r : R[n] = T[n]
           /\ r + 1 <= l => r + 1 <= l + 1 /\ T[r + 1] = S[r + 1]
           /\ ~(r + 1 <= l) => r = l /\ r + 1 <= l + 1
OBVIOUS

LEMMA WritePayloadStreams ==
    ASSUME Inv, Inv', StreamInv, StreamTypes', NEW s \in Sender, WritePayload(s)
    PROVE  \A c \in Conn : Stream(c)'
<1> USE DEF Goto, Unlock, Returns, sendVars, connVars, recvVars
<1> SUFFICES ASSUME NEW c \in Conn PROVE Stream(c)'
  BY Zenon
<1>0. Types /\ Types' /\ Stream(c) /\ Locked /\ StreamTypes /\ at[s] \in Conn
  BY Zenon DEF Inv, StreamInv, Owned, WritePayload
<1>1. /\ pc[s] = "payload" /\ pc'[s] # "payload"
      /\ \A x \in Sender \ {s} : pc'[x] = pc[x] /\ at'[x] = at[x] /\ msg'[x] = msg[x]
      /\ UNCHANGED <<recvOn, got, client, server, handler, broken>>
  <2>1. /\ pc[s] = "payload" /\ \E p \in PC \ {"payload"} : pc' = [pc EXCEPT ![s] = p]
        /\ UNCHANGED at \/ at' = [at EXCEPT ![s] = 0]
        /\ UNCHANGED msg \/ msg' = [msg EXCEPT ![s] = 0]
        /\ UNCHANGED <<recvOn, got, client, server, handler, broken>>
    BY Zenon DEF WritePayload, PC
  <2> QED BY <1>0, <2>1, Zenon DEF Types, StreamTypes
<1>2. Live(c)' = Live(c)
  BY <1>1, Zenon DEF Live
<1>3. CASE c # at[s]
  <2>1. wire'[c] = wire[c] /\ sentOn'[c] = sentOn[c]
    BY <1>0, <1>3, Zenon DEF WritePayload, Writes, StreamTypes
  <2>2. Half(c)' = Half(c)
    <3>1. \A x \in Sender : Halfway(x, c)' = Halfway(x, c)
      BY <1>1, <1>3, Zenon DEF Halfway
    <3>2. \A x \in Sender : Halfway(x, c) => msg'[x] = msg[x]
      BY <1>1, <1>3, Zenon DEF Halfway
    <3> QED BY <3>1, <3>2, HalfKept, Zenon
  <2> QED BY <1>0, <1>1, <1>2, <2>1, <2>2, StreamKept, Zenon
<1>4. CASE c = at[s] /\ UNCHANGED sentOn
  <2>1. UNCHANGED wire /\ ~Live(c)
    <3>1. \A q \in Seq(Nat) : \A m : Len(q) # Len(q) + 1 /\ Len(Append(q, m)) = Len(q) + 1
      OBVIOUS
    <3>2. sentOn[c] \in Seq(Nat) /\ sentOn'[c] = sentOn[c]
      BY <1>0, <1>4, Zenon DEF StreamTypes
    <3>3. sentOn'[c] # Append(sentOn[c], msg[s])
      BY <3>1, <3>2, Zenon
    <3> QED BY <1>0, <1>4, <3>3, Zenon DEF WritePayload, Fails, Live, StreamTypes
  <2> QED BY <1>0, <1>1, <1>2, <1>4, <2>1, StreamKept, Zenon
<1>5. CASE c = at[s] /\ sentOn' # sentOn
  <2> DEFINE m == msg[s]
             o == 2 * Len(recvOn[c]) + Offset(handler[c])
  <2>1. /\ Writes(c, <<"payload", m>>)
        /\ sentOn'[c] = Append(sentOn[c], m)
    BY <1>0, <1>5, Zenon DEF WritePayload, StreamTypes
  <2>2. \A x \in Sender : Halfway(x, c) <=> x = s
    BY <1>0, <1>1, <1>5 DEF Locked, Halfway
  <2>3. Half(c) = {m}
    BY <2>2, Zenon DEF Half
  <2>4. \A x \in Sender : ~Halfway(x, c)'
    BY <1>1, <2>2, Zenon DEF Halfway
  <2>5. Half(c)' = {}
    BY <2>4, Zenon DEF Half
  <2>6. m \in Nat /\ wire[c] \in Seq(Part) /\ sentOn[c] \in Seq(Nat) /\ recvOn[c] \in Seq(Nat) /\ o \in Nat
    BY <1>0, PositionType, Zenon DEF StreamTypes
  <2>7. /\ Len(sentOn'[c]) = Len(sentOn[c]) + 1 /\ Len(sentOn[c]) \in Nat /\ Len(recvOn[c]) \in Nat
        /\ \A n \in 1..Len(sentOn[c]) : sentOn'[c][n] = sentOn[c][n]
        /\ sentOn'[c][Len(sentOn[c]) + 1] = m
    BY <2>1, <2>6, SMTT(30)
  <2> HIDE DEF m, o
  <2>8. /\ Len(recvOn[c]) <= Len(sentOn[c])
        /\ \A n \in 1..Len(recvOn[c]) : recvOn[c][n] = sentOn[c][n]
    BY <1>0, Zenon DEF Stream
  <2>9. /\ Len(recvOn[c]) <= Len(sentOn[c]) + 1
        /\ \A n \in 1..Len(recvOn[c]) : recvOn[c][n] = sentOn'[c][n]
        /\ Len(recvOn[c]) + 1 <= Len(sentOn[c])
              => Len(recvOn[c]) + 1 <= Len(sentOn[c]) + 1 /\ sentOn'[c][Len(recvOn[c]) + 1] = sentOn[c][Len(recvOn[c]) + 1]
        /\ ~(Len(recvOn[c]) + 1 <= Len(sentOn[c]))
              => Len(recvOn[c]) = Len(sentOn[c]) /\ Len(recvOn[c]) + 1 <= Len(sentOn[c]) + 1
    BY <2>7, <2>8, LongerSequence, SMTT(30)
  <2>10. /\ Len(recvOn'[c]) <= Len(sentOn'[c])
         /\ \A n \in 1..Len(recvOn'[c]) : recvOn'[c][n] = sentOn'[c][n]
         /\ handler'[c] = "deliver" =>
              Len(recvOn'[c]) + 1 <= Len(sentOn'[c]) /\ got'[c] = sentOn'[c][Len(recvOn'[c]) + 1]
    <3>1. UNCHANGED <<recvOn[c], handler[c], got[c]>>
      BY <1>1, Zenon
    <3>2. handler[c] = "deliver" =>
            Len(recvOn[c]) + 1 <= Len(sentOn[c]) /\ got[c] = sentOn[c][Len(recvOn[c]) + 1]
      BY <1>0, Zenon DEF Stream
    <3> QED BY <2>7, <2>9, <3>1, <3>2
  <2>11. CASE server[c] = "closed"
    <3>1. wire'[c] = <<>>
      BY <1>0, <2>1, <2>11, Zenon DEF Writes, Stream
    <3> QED BY <1>0, <1>1, <2>10, <2>11, <3>1 DEF Stream
  <2>12. CASE server[c] # "closed"
    <3>1. wire'[c] = Append(wire[c], <<"payload", m>>) /\ Live(c) = TRUE /\ Live(c)' = TRUE
      BY <1>0, <1>2, <2>1, <2>12, Zenon DEF Writes, Live, StreamTypes
    <3>2. ASSUME Aligned(wire[c], o, sentOn[c], Half(c), Live(c))
          PROVE  Aligned(wire'[c], o, sentOn'[c], Half(c)', Live(c)')
      BY <2>1, <2>3, <2>5, <2>6, <3>1, <3>2, AlignedPayload, Zenon
    <3>3. ASSUME Aligned(wire[c], o, sentOn[c], Half(c), Live(c)), handler[c] = "payload", GotNext(c)
          PROVE  GotNext(c)'
      <4>1. CASE Len(recvOn[c]) + 1 <= Len(sentOn[c])
        BY <1>1, <2>7, <2>9, <3>3, <4>1 DEF GotNext
      <4>2. CASE ~(Len(recvOn[c]) + 1 <= Len(sentOn[c]))
        <5>1. got[c] = m /\ Len(recvOn[c]) = Len(sentOn[c])
          BY <2>3, <2>9, <3>1, <3>3, <4>2 DEF GotNext
        <5> QED BY <1>1, <2>7, <2>9, <4>2, <5>1 DEF GotNext
      <4> QED BY <4>1, <4>2, Zenon
    <3> QED BY <1>0, <1>1, <2>10, <2>12, <3>2, <3>3 DEF Stream, o
  <2> QED BY <2>11, <2>12, Zenon
<1> QED BY <1>3, <1>4, <1>5, Zenon

-----------------------------------------------------------------------------
(***************************************************************************)
(* The receiving node and the network.                                     *)
(***************************************************************************)
\* Nobody sends meanwhile.
LEMMA SendersStay ==
    ASSUME Inv, StreamInv, UNCHANGED <<sendVars, sentOn>>,
           \A c \in Conn : client[c] = "none" => wire'[c] = <<>> /\ recvOn'[c] = <<>>,
           \A c \in Conn : client'[c] = "none" <=> client[c] = "none"
    PROVE  Locked' /\ Once' /\ \A c : Half(c)' = Half(c)
<1> USE DEF sendVars
<1>1. Locked'
  BY ZeroIsNoConn, Zenon DEF StreamInv, Locked, Inv, Types
<1>2. Numbered'
  BY Zenon DEF StreamInv, Once, Numbered
<1>3. SentOnce'
  <2>1. \A c \in Conn, n, m \in Nat : SentAs(c, n, m)' = SentAs(c, n, m)
    BY Zenon DEF SentAs
  <2> QED BY <2>1 DEF StreamInv, Once, SentOnce
<1>4. ASSUME NEW c PROVE Half(c)' = Half(c)
  BY Zenon DEF Half, Halfway
<1> QED BY <1>1, <1>2, <1>3, <1>4, Zenon DEF Once

\* A step of the handler of c other than its end: the other connections stay as
\* they are.
LEMMA OtherStreams ==
    ASSUME Inv, StreamInv, NEW c \in Conn, NEW d \in Conn \ {c},
           UNCHANGED <<wire[d], recvOn[d], got[d], handler[d], sentOn, client, server, broken>>,
           Half(d)' = Half(d)
    PROVE  Stream(d)'
<1>1. Live(d)' = Live(d)
  BY Zenon DEF Live
<1>2. Stream(d) /\ d \in Conn /\ UNCHANGED <<sentOn[d], server[d]>>
  BY Zenon DEF StreamInv
<1> QED BY <1>1, <1>2, StreamKept, Zenon

LEMMA ReadLengthStreams ==
    ASSUME Inv, StreamInv, NEW c \in Conn, ReadLength(c)
    PROVE  StreamInv'
<1> USE DEF Handler, sendVars
<1>0. Types /\ StreamTypes /\ Stream(c) /\ Locked /\ handler[c] = "length" /\ handler \in [Conn -> Handling]
  BY Zenon DEF Inv, StreamInv, ReadLength, Types
<1>1. UNCHANGED <<sendVars, sentOn, client, server, broken, recvOn>>
  BY Zenon DEF ReadLength
<1>2. \A d \in Conn \ {c} : UNCHANGED <<wire[d], got[d], handler[d]>>
  BY <1>0, Zenon DEF ReadLength, StreamTypes
<1>3. wire[c] \in Seq(Part) /\ (wire[c] # <<>> => Tail(wire[c]) \in Seq(Part) /\ Head(wire[c])[2] \in Nat)
  <2>1. wire[c] \in Seq(Part)
    BY <1>0, Zenon DEF StreamTypes
  <2>2. wire[c] # <<>> => Tail(wire[c]) \in Seq(Part) /\ Head(wire[c]) \in Part
    BY <2>1
  <2> QED BY <2>1, <2>2, Zenon DEF Part
<1>4. StreamTypes'
  <2>1. CASE wire[c] # <<>> /\ wire' = [wire EXCEPT ![c] = Tail(@)] /\ got' = [got EXCEPT ![c] = Head(wire[c])[2]]
    <3>1. wire' \in [Conn -> Seq(Part)]
      BY <1>0, <1>3, <2>1, Zenon DEF StreamTypes
    <3>2. got' \in [Conn -> Nat]
      BY <1>0, <1>3, <2>1, Zenon DEF StreamTypes
    <3> QED BY <1>0, <1>1, <3>1, <3>2, Zenon DEF StreamTypes
  <2>2. CASE UNCHANGED <<wire, got>>
    BY <1>0, <1>1, <2>2, Zenon DEF StreamTypes
  <2> QED BY <2>1, <2>2, Zenon DEF ReadLength
<1>5. \A d \in Conn : client[d] = "none" => wire'[d] = <<>> /\ recvOn'[d] = <<>>
  <2>1. client[c] = "none" => UNCHANGED wire
    BY <1>0, Zenon DEF Locked, ReadLength
  <2> QED BY <1>0, <1>1, <1>2, <2>1, Zenon DEF Locked
<1>6. Locked' /\ Once' /\ \A d : Half(d)' = Half(d)
  BY <1>1, <1>5, SendersStay, Zenon
<1>7. ASSUME NEW d \in Conn \ {c} PROVE Stream(d)'
  BY <1>1, <1>2, <1>6, OtherStreams, Zenon
<1>8. Stream(c)'
  <2> DEFINE k == Len(recvOn[c])
  <2>1. CASE handler'[c] = "exit"
    <3>1. server[c] = "closed" => wire'[c] = <<>>
      BY <1>0, Zenon DEF ReadLength, Stream
    <3> QED BY <1>0, <1>1, <2>1, <3>1, Zenon DEF Stream
  <2>2. CASE handler'[c] # "exit"
    <3>1. /\ wire[c] # <<>> /\ handler'[c] = "payload"
          /\ wire'[c] = Tail(wire[c]) /\ got'[c] = Head(wire[c])[2]
      BY <1>0, <2>2, Zenon DEF ReadLength, StreamTypes
    <3>2. server[c] # "closed" /\ Aligned(wire[c], 2 * k, sentOn[c], Half(c), Live(c))
      <4>1. k \in Nat
        BY <1>0 DEF StreamTypes
      <4>2. 2 * k + 0 = 2 * k
        BY <4>1
      <4>3. server[c] # "closed" /\ Offset(handler[c]) = 0
        BY <1>0, <3>1, Zenon DEF Stream, Offset
      <4> QED BY <1>0, <4>2, <4>3, Zenon DEF Stream
    <3>0. recvOn[c] \in Seq(Nat) /\ sentOn[c] \in Seq(Nat) /\ Live(c) \in BOOLEAN /\ Live(c)' = Live(c)
      BY <1>0, <1>1, Zenon DEF StreamTypes, Live
    <3>3. k \in Nat /\ 2 * k \in Nat /\ sentOn[c] \in Seq(Nat) /\ Live(c) \in BOOLEAN /\ Live(c)' = Live(c)
      BY <3>0
    <3>4. Aligned(wire'[c], 2 * k + 1, sentOn[c], Half(c), Live(c))
      BY <1>3, <3>1, <3>2, <3>3, AlignedRead, Zenon
    <3>5. GotNext(c)'
      <4>1. 1 \in 1..Len(wire[c]) /\ Head(wire[c]) = wire[c][1] /\ 2 * k + 1 + 1 = 2 * (k + 1) /\ k + 1 \in Nat
        <5>1. \A q \in Seq(Part) : q # <<>> => 1 \in 1..Len(q) /\ Head(q) = q[1]
          OBVIOUS
        <5>2. \A x \in Nat : 2 * x + 1 + 1 = 2 * (x + 1) /\ x + 1 \in Nat
          OBVIOUS
        <5> QED BY <1>3, <3>1, <3>3, <5>1, <5>2, Zenon
      <4>2. /\ k + 1 <= Len(sentOn[c]) => wire[c][1][2] = sentOn[c][k + 1]
            /\ k + 1 > Len(sentOn[c]) /\ Live(c) => wire[c][1][2] \in Half(c)
        BY <3>2, <4>1, Zenon DEF Aligned, Lengths
      <4>3. Len(sentOn[c]) \in Nat
        BY <3>3
      <4>4. /\ k + 1 <= Len(sentOn[c]) => got'[c] = sentOn[c][k + 1]
            /\ k + 1 > Len(sentOn[c]) /\ Live(c) => got'[c] \in Half(c)
        BY <3>1, <4>1, <4>2, Zenon
      <4>5. k + 1 <= Len(sentOn[c]) \/ k + 1 > Len(sentOn[c])
        BY <4>1, <4>3
      <4> QED BY <1>1, <1>6, <3>3, <4>4, <4>5, Zenon DEF GotNext
    <3> QED BY <1>0, <1>1, <1>6, <3>1, <3>2, <3>3, <3>4, <3>5, Zenon DEF Stream, Offset
  <2> QED BY <2>1, <2>2, Zenon
<1> QED BY <1>4, <1>6, <1>7, <1>8, Zenon DEF StreamInv

LEMMA ReadPayloadStreams ==
    ASSUME Inv, StreamInv, NEW c \in Conn, ReadPayload(c)
    PROVE  StreamInv'
<1> USE DEF Handler, sendVars
<1>0. Types /\ StreamTypes /\ Stream(c) /\ Locked /\ handler[c] = "payload" /\ handler \in [Conn -> Handling]
  BY Zenon DEF Inv, StreamInv, ReadPayload, Types
<1>1. UNCHANGED <<sendVars, sentOn, client, server, broken, recvOn, got>>
  BY Zenon DEF ReadPayload
<1>2. \A d \in Conn \ {c} : UNCHANGED <<wire[d], handler[d]>>
  BY <1>0, Zenon DEF ReadPayload, StreamTypes
<1>3. wire[c] \in Seq(Part) /\ (wire[c] # <<>> => Tail(wire[c]) \in Seq(Part))
  <2>1. wire[c] \in Seq(Part)
    BY <1>0, Zenon DEF StreamTypes
  <2>2. \A q \in Seq(Part) : q # <<>> => Tail(q) \in Seq(Part)
    OBVIOUS
  <2> QED BY <2>1, <2>2, Zenon
<1>4. StreamTypes'
  BY <1>0, <1>1, <1>3 DEF ReadPayload, StreamTypes
<1>5. \A d \in Conn : client[d] = "none" => wire'[d] = <<>> /\ recvOn'[d] = <<>>
  <2>1. client[c] = "none" => UNCHANGED wire
    BY <1>0, Zenon DEF Locked, ReadPayload
  <2> QED BY <1>0, <1>1, <1>2, <2>1, Zenon DEF Locked
<1>6. Locked' /\ Once' /\ \A d : Half(d)' = Half(d)
  BY <1>1, <1>5, SendersStay, Zenon
<1>7. ASSUME NEW d \in Conn \ {c} PROVE Stream(d)'
  BY <1>1, <1>2, <1>6, OtherStreams, Zenon
<1>8. Stream(c)'
  <2> DEFINE k == Len(recvOn[c])
  <2>1. CASE handler'[c] = "exit"
    <3>1. server[c] = "closed" => wire'[c] = <<>>
      BY <1>0, Zenon DEF ReadPayload, Stream
    <3> QED BY <1>0, <1>1, <2>1, <3>1, Zenon DEF Stream
  <2>2. CASE handler'[c] # "exit"
    <3>1. /\ wire[c] # <<>> /\ handler'[c] = "deliver"
          /\ wire'[c] = Tail(wire[c])
      BY <1>0, <2>2, Zenon DEF ReadPayload, StreamTypes
    <3>2. server[c] # "closed" /\ Aligned(wire[c], 2 * k + 1, sentOn[c], Half(c), Live(c)) /\ GotNext(c)
      BY <1>0, <3>1, Zenon DEF Stream, Offset, StreamTypes
    <3>3. k \in Nat /\ 2 * k + 1 \in Nat /\ sentOn[c] \in Seq(Nat) /\ Live(c) \in BOOLEAN /\ Live(c)' = Live(c)
      <4>1. recvOn[c] \in Seq(Nat) /\ sentOn[c] \in Seq(Nat) /\ Live(c) \in BOOLEAN /\ Live(c)' = Live(c)
        BY <1>0, <1>1, Zenon DEF StreamTypes, Live
      <4>2. k \in Nat
        BY <4>1
      <4> QED BY <4>1, <4>2
    <3>4. Aligned(wire'[c], 2 * k + 2, sentOn[c], Half(c), Live(c))
      <4>1. 2 * k + 1 + 1 = 2 * k + 2
        BY <3>3
      <4> QED BY <1>3, <3>1, <3>2, <3>3, <4>1, AlignedRead, Zenon
    <3>5. k + 1 <= Len(sentOn[c]) /\ got[c] = sentOn[c][k + 1]
      <4>1. 1 \in 1..Len(wire[c]) /\ 2 * k + 1 + 1 = 2 * (k + 1) /\ k + 1 \in Nat
        BY <1>3, <3>1, <3>3
      <4>2. k + 1 <= Len(sentOn[c])
        BY <3>2, <4>1, Zenon DEF Aligned, Payloads
      <4> QED BY <3>2, <4>2, Zenon DEF GotNext
    <3> QED BY <1>0, <1>1, <1>6, <3>1, <3>2, <3>3, <3>4, <3>5, Zenon DEF Stream, Offset
  <2> QED BY <2>1, <2>2, Zenon
<1> QED BY <1>4, <1>6, <1>7, <1>8, Zenon DEF StreamInv

LEMMA DeliverStreams ==
    ASSUME Inv, StreamInv, NEW c \in Conn, Deliver(c)
    PROVE  StreamInv'
<1> USE DEF Handler, Delivers, sendVars, connVars
<1>0. Types /\ StreamTypes /\ Stream(c) /\ Locked /\ handler[c] = "deliver" /\ handler \in [Conn -> Handling]
  BY Zenon DEF Inv, StreamInv, Deliver, Types
<1>1. UNCHANGED <<sendVars, sentOn, client, server, broken, wire, got>>
  BY Zenon DEF Deliver
<1>2. \A d \in Conn \ {c} : UNCHANGED <<recvOn[d], handler[d]>>
  BY <1>0, Zenon DEF Deliver, StreamTypes
<1>3. recvOn[c] \in Seq(Nat) /\ got[c] \in Nat
  BY <1>0, Zenon DEF StreamTypes
<1>4. StreamTypes'
  <2>1. Append(recvOn[c], got[c]) \in Seq(Nat)
    BY <1>3
  <2> QED BY <1>0, <1>1, <2>1, Zenon DEF Deliver, StreamTypes
<1>5. \A d \in Conn : client[d] = "none" => wire'[d] = <<>> /\ recvOn'[d] = <<>>
  <2>1. client[c] # "none"
    BY <1>0, Zenon DEF Inv, Fresh
  <2> QED BY <1>0, <1>1, <1>2, <2>1, Zenon DEF Locked
<1>6. Locked' /\ Once' /\ \A d : Half(d)' = Half(d)
  BY <1>1, <1>5, SendersStay, Zenon
<1>7. ASSUME NEW d \in Conn \ {c} PROVE Stream(d)'
  BY <1>1, <1>2, <1>6, OtherStreams, Zenon
<1>8. Stream(c)'
  <2> DEFINE k == Len(recvOn[c])
  <2>1. CASE handler'[c] = "exit" /\ UNCHANGED recvOn
    BY <1>0, <1>1, <2>1, Zenon DEF Stream
  <2>2. CASE handler'[c] = "length" /\ recvOn'[c] = Append(recvOn[c], got[c])
    <3>1. k \in Nat /\ Len(recvOn'[c]) = k + 1 /\ Len(sentOn[c]) \in Nat
      <4>1. \A q \in Seq(Nat) : Len(q) \in Nat /\ \A m : Len(Append(q, m)) = Len(q) + 1
        OBVIOUS
      <4>2. recvOn[c] \in Seq(Nat) /\ sentOn[c] \in Seq(Nat)
        BY <1>0, Zenon DEF StreamTypes
      <4> QED BY <2>2, <4>1, <4>2, Zenon
    <3>2. \A n \in 1..(k + 1) : recvOn'[c][n] = IF n = k + 1 THEN got[c] ELSE recvOn[c][n]
      BY <1>3, <2>2
    <3>3. k + 1 <= Len(sentOn[c]) /\ got[c] = sentOn[c][k + 1]
      BY <1>0, Zenon DEF Stream
    <3>4. \A n \in 1..(k + 1) : recvOn'[c][n] = sentOn[c][n]
      <4> SUFFICES ASSUME NEW n \in 1..(k + 1), n # k + 1 PROVE recvOn[c][n] = sentOn[c][n]
        BY <3>1, <3>2, <3>3, Zenon
      <4>1. n \in 1..Len(recvOn[c])
        BY <3>1
      <4> QED BY <1>0, <4>1, Zenon DEF Stream
    <3>5. 2 * Len(recvOn'[c]) + 0 = 2 * k + 2
      BY <3>1
    <3>6. Live(c)' = Live(c)
      BY <1>1, Zenon DEF Live
    <3> QED BY <1>0, <1>1, <1>6, <2>2, <3>1, <3>3, <3>4, <3>5, <3>6, Zenon DEF Stream, Offset
  <2> QED BY <1>0, <2>1, <2>2, Zenon DEF Deliver, StreamTypes
<1> QED BY <1>4, <1>6, <1>7, <1>8, Zenon DEF StreamInv

\* A connection breaks, and may lose the end of what is on it.
LEMMA BreakStreams ==
    ASSUME Inv, StreamInv, NEW c \in Conn, Break(c)
    PROVE  StreamInv'
<1> USE DEF sendVars, recvVars
<1>0. Types /\ StreamTypes /\ Stream(c) /\ Locked
  BY Zenon DEF Inv, StreamInv
<1>1. UNCHANGED <<sendVars, sentOn, client, server, recvOn, got, handler>>
  BY Zenon DEF Break
<1>2. PICK k \in 0..Len(wire[c]) : wire' = [wire EXCEPT ![c] = SubSeq(@, 1, k)]
  BY Zenon DEF Break
<1>3. /\ wire[c] \in Seq(Part) /\ SubSeq(wire[c], 1, k) \in Seq(Part)
      /\ wire'[c] = SubSeq(wire[c], 1, k) /\ broken'[c] /\ server[c] # "closed"
  <2>1. wire[c] \in Seq(Part)
    BY <1>0, Zenon DEF StreamTypes
  <2>2. SubSeq(wire[c], 1, k) \in Seq(Part)
    BY <1>2, <2>1
  <2> QED BY <1>0, <1>2, <2>1, <2>2, Zenon DEF Break, StreamTypes
<1>4. \A d \in Conn \ {c} : UNCHANGED <<wire[d], broken[d]>>
  BY <1>0, <1>2, Zenon DEF Break, StreamTypes
<1>5. StreamTypes'
  BY <1>0, <1>1, <1>2, <1>3, Zenon DEF Break, StreamTypes
<1>6. \A d \in Conn : client[d] = "none" => wire'[d] = <<>> /\ recvOn'[d] = <<>>
  <2>1. client[c] # "none"
    BY Zenon DEF Break
  <2> QED BY <1>0, <1>1, <1>4, <2>1, Zenon DEF Locked
<1>7. Locked' /\ Once' /\ \A d : Half(d)' = Half(d)
  BY <1>1, <1>6, SendersStay, Zenon
<1>8. ASSUME NEW d \in Conn \ {c} PROVE Stream(d)'
  <2>1. Live(d)' = Live(d)
    BY <1>1, <1>4, Zenon DEF Live
  <2> QED BY <1>1, <1>4, <1>7, <2>1, StreamKept, Zenon DEF StreamInv
<1>9. Stream(c)'
  <2>1. Live(c) \in BOOLEAN /\ Live(c)' = FALSE
    BY <1>3, Zenon DEF Live
  <2> DEFINE o == 2 * Len(recvOn[c]) + Offset(handler[c])
  <2>2. o \in Nat /\ sentOn[c] \in Seq(Nat)
    BY <1>0, PositionType, Zenon DEF StreamTypes
  <2> HIDE DEF o
  <2>3. ASSUME Aligned(wire[c], o, sentOn[c], Half(c), Live(c))
        PROVE  Aligned(wire'[c], o, sentOn[c], Half(c)', Live(c)')
    BY <1>3, <2>1, <2>2, <2>3, AlignedCut, Zenon
  <2>4. GotNext(c) => GotNext(c)'
    BY <1>1, <2>1, Zenon DEF GotNext
  <2> QED BY <1>0, <1>1, <1>3, <2>3, <2>4, Zenon DEF Stream, o
<1> QED BY <1>5, <1>7, <1>8, <1>9, Zenon DEF StreamInv

\* The ends of the connections in S are closed; handlers may start and end.
LEMMA CloseStreams ==
    ASSUME Inv, StreamInv, NEW S \in SUBSET Conn,
           UNCHANGED <<sendVars, sentOn, client, broken, recvOn, got>>,
           \A c \in S : server'[c] = "closed" /\ wire'[c] = <<>>,
           \A c \in Conn \ S : (server'[c] = "closed" <=> server[c] = "closed") /\ wire'[c] = wire[c],
           \A c \in S : handler'[c] = handler[c] \/ handler'[c] = "gone",
           \A c \in Conn \ S : handler'[c] = handler[c] \/ (handler[c] = "none" /\ handler'[c] = "length"),
           wire' \in [Conn -> Seq(Part)]
    PROVE  StreamInv'
<1>1. StreamTypes'
  BY Zenon DEF StreamInv, StreamTypes, sendVars
<1>2. \A d \in Conn : client[d] = "none" => wire'[d] = <<>> /\ recvOn'[d] = <<>>
  BY Zenon DEF StreamInv, Locked
<1>3. Locked' /\ Once' /\ \A d : Half(d)' = Half(d)
  BY <1>2, SendersStay, Zenon
<1>4. ASSUME NEW c \in S PROVE Stream(c)'
  BY StreamClosed, Zenon DEF StreamInv
<1>5. ASSUME NEW c \in Conn \ S PROVE Stream(c)'
  <2>1. Live(c)' => Live(c)
    BY Zenon DEF Live
  <2> QED BY <1>3, <2>1, StreamKept, Zenon DEF StreamInv
<1> QED BY <1>1, <1>3, <1>4, <1>5, Zenon DEF StreamInv

\* No end is closed.
LEMMA OpenStreams ==
    ASSUME Inv, StreamInv,
           UNCHANGED <<sendVars, sentOn, client, wire, broken, recvOn, got>>,
           \A c \in Conn : server'[c] = "closed" <=> server[c] = "closed",
           \A c \in Conn : handler'[c] = handler[c] \/ (handler[c] = "none" /\ handler'[c] = "length")
    PROVE  StreamInv'
<1>1. PICK S \in SUBSET Conn : S = {}
  BY Zenon
<1>2. wire' \in [Conn -> Seq(Part)]
  BY Zenon DEF StreamInv, StreamTypes
<1>3. /\ \A c \in S : server'[c] = "closed" /\ wire'[c] = <<>>
      /\ \A c \in S : handler'[c] = handler[c] \/ handler'[c] = "gone"
  BY <1>1, Zenon
<1>4. \A c \in Conn \ S : (server'[c] = "closed" <=> server[c] = "closed") /\ wire'[c] = wire[c]
  BY Zenon
<1> QED BY <1>2, <1>3, <1>4, CloseStreams, Zenon

LEMMA CloseServerWire ==
    ASSUME StreamTypes, NEW S \in SUBSET Conn, CloseServer(S)
    PROVE  /\ wire' \in [Conn -> Seq(Part)]
           /\ \A c \in S : server'[c] = "closed" /\ wire'[c] = <<>>
           /\ \A c \in Conn \ S : server'[c] = server[c] /\ wire'[c] = wire[c]
<1>1. <<>> \in Seq(Part)
  OBVIOUS
<1> QED BY <1>1, Zenon DEF CloseServer, StreamTypes

\* acceptLoop, the end of a handler, and Close.
LEMMA NodeStreams ==
    ASSUME Inv, StreamInv,
           \/ CloseSender \/ AcceptStep \/ AcceptFails \/ CloseReceiver \/ CloseWaited
           \/ Consume \/ ConsumerStops
           \/ \E c \in Conn : Exit(c)
    PROVE  StreamInv'
<1> USE DEF sendVars, connVars, recvVars
<1>0. Types /\ StreamTypes /\ Locked
  BY Zenon DEF Inv, StreamInv
<1>1. CASE AcceptFails \/ CloseWaited \/ Consume \/ ConsumerStops
  <2>1. UNCHANGED <<sendVars, sentOn, connVars, recvOn, got, handler>>
    BY <1>1, Zenon DEF AcceptFails, CloseWaited, Consume, ConsumerStops
  <2> QED BY <2>1, OpenStreams, Zenon
<1>2. CASE Accept
  <2>1. UNCHANGED <<sendVars, sentOn, client, wire, broken, recvOn, got, handler>>
    BY <1>2, Zenon DEF Accept
  <2>2. \A c \in Conn : server'[c] = "closed" <=> server[c] = "closed"
    BY <1>0, <1>2, Zenon DEF Accept, Types
  <2> QED BY <2>1, <2>2, OpenStreams, Zenon
<1>3. CASE RegisterAccepted
  <2>0. acceptor \in Conn /\ handler[acceptor] = "none"
    BY <1>3, ZeroIsNoConn DEF RegisterAccepted, Inv, Types, Fresh
  <2>1. UNCHANGED <<sendVars, sentOn, client, broken, recvOn, got>>
    BY <1>3, Zenon DEF RegisterAccepted
  <2>2. CASE shut = "open"
    <3>1. UNCHANGED <<server, wire>>
      BY <1>3, <2>2, Zenon DEF RegisterAccepted
    <3>2. \A c \in Conn : handler'[c] = handler[c] \/ (handler[c] = "none" /\ handler'[c] = "length")
      BY <1>0, <1>3, <2>0, <2>2, Zenon DEF RegisterAccepted, Types
    <3> QED BY <2>1, <3>1, <3>2, OpenStreams, Zenon
  <2>3. CASE shut # "open"
    <3>1. CloseServer({acceptor}) /\ UNCHANGED handler /\ {acceptor} \in SUBSET Conn
      BY <1>3, <2>0, <2>3, Zenon DEF RegisterAccepted
    <3>2. /\ wire' \in [Conn -> Seq(Part)]
          /\ \A c \in {acceptor} : server'[c] = "closed" /\ wire'[c] = <<>>
          /\ \A c \in Conn \ {acceptor} : server'[c] = server[c] /\ wire'[c] = wire[c]
      BY <1>0, <3>1, CloseServerWire, Zenon
    <3> QED BY <2>1, <3>1, <3>2, CloseStreams, Zenon
  <2> QED BY <2>2, <2>3, Zenon
<1>4. CASE CloseReceiver
  <2> DEFINE S == inConns \cup {c \in Conn : server[c] = "backlog"}
  <2>1. CloseServer(S) /\ UNCHANGED handler /\ S \in SUBSET Conn
    BY <1>0, <1>4, Zenon DEF CloseReceiver, Types
  <2>2. UNCHANGED <<sendVars, sentOn, client, broken, recvOn, got>>
    BY <1>4, Zenon DEF CloseReceiver
  <2> HIDE DEF S
  <2>3. /\ wire' \in [Conn -> Seq(Part)]
        /\ \A c \in S : server'[c] = "closed" /\ wire'[c] = <<>>
        /\ \A c \in Conn \ S : server'[c] = server[c] /\ wire'[c] = wire[c]
    BY <1>0, <2>1, CloseServerWire, Zenon
  <2> QED BY <2>1, <2>2, <2>3, CloseStreams, Zenon
<1>5. CASE \E c \in Conn : Exit(c)
  <2>1. PICK c \in Conn : Exit(c)
    BY <1>5, Zenon
  <2>2. CloseServer({c}) /\ {c} \in SUBSET Conn /\ UNCHANGED <<sendVars, sentOn, client, broken, recvOn, got>>
    BY <2>1, Zenon DEF Exit
  <2>3. handler'[c] = "gone" /\ \A d \in Conn \ {c} : handler'[d] = handler[d]
    BY <1>0, <2>1 DEF Exit, Handler, Types
  <2>4. /\ wire' \in [Conn -> Seq(Part)]
        /\ \A d \in {c} : server'[d] = "closed" /\ wire'[d] = <<>>
        /\ \A d \in Conn \ {c} : server'[d] = server[d] /\ wire'[d] = wire[d]
    BY <1>0, <2>2, CloseServerWire, Zenon
  <2> QED BY <2>2, <2>3, <2>4, CloseStreams, Zenon
<1>6. CASE CloseSender
  <2>1. UNCHANGED <<pc, at, msg, sends, holder, server, wire, broken, recvOn, sentOn, got, handler>>
    BY <1>6, Zenon DEF CloseSender
  <2>2. \A c \in Conn : /\ client'[c] = "none" <=> client[c] = "none"
                        /\ client'[c] = "open" => client[c] = "open"
    BY <1>0, <1>6, ZeroIsNoConn, Zenon DEF CloseSender, CloseClient, Types, Inv, ClientsKept
  <2>3. StreamTypes'
    BY <1>0, <2>1, Zenon DEF StreamTypes
  <2>4. Locked'
    BY <1>0, <2>1, <2>2, ZeroIsNoConn DEF Locked, Types
  <2>5. Once'
    <3>1. Numbered'
      BY <2>1, Zenon DEF StreamInv, Once, Numbered
    <3>2. \A c \in Conn, n, m \in Nat : SentAs(c, n, m)' = SentAs(c, n, m)
      BY <2>1, Zenon DEF SentAs
    <3> QED BY <2>1, <3>1, <3>2 DEF StreamInv, Once, SentOnce
  <2>6. ASSUME NEW c \in Conn PROVE Stream(c)'
    <3>1. Half(c)' = Half(c)
      BY <2>1, Zenon DEF Half, Halfway
    <3>2. Live(c)' => Live(c)
      BY <2>1, <2>2, Zenon DEF Live
    <3> QED BY <2>1, <3>1, <3>2, StreamKept, Zenon DEF StreamInv
  <2> QED BY <2>3, <2>4, <2>5, <2>6, Zenon DEF StreamInv
<1> QED BY <1>1, <1>2, <1>3, <1>4, <1>5, <1>6, Zenon DEF AcceptStep

LEMMA SendStreams ==
    ASSUME Inv, Inv', StreamInv, NEW s \in Sender, Send(s) \/ SendStep(s)
    PROVE  StreamInv'
<1>1. StreamTypes'
  BY SendTypes, Zenon DEF StreamInv
<1>2. Locked' /\ Once'
  BY <1>1, SendLocks, SendOnce, Zenon
<1>3. CASE Send(s) \/ GetConn(s) \/ RegisterDialed(s) \/ Lock(s) \/ DropConn(s)
  <2> USE DEF Goto, Uses, Returns, CloseClient, sendVars, connVars, recvVars
  <2>0. Types /\ StreamTypes
    BY Zenon DEF Inv, StreamInv
  <2>1. pc[s] # "payload" /\ pc'[s] # "payload"
    BY <1>3, <2>0, Zenon DEF Send, GetConn, RegisterDialed, Lock, DropConn, Types
  <2>2. \A x \in Sender \ {s} : pc'[x] = pc[x] /\ at'[x] = at[x] /\ msg'[x] = msg[x]
    BY <1>3, <2>0, Zenon DEF Send, GetConn, RegisterDialed, Lock, DropConn, Types, StreamTypes
  <2>3. \A c \in Conn : client'[c] = "open" => client[c] = "open"
    BY <1>3, <2>0, Zenon DEF Send, GetConn, RegisterDialed, Lock, DropConn, Types
  <2>4. UNCHANGED <<wire, recvOn, sentOn, got, server, handler, broken>>
    BY <1>3, Zenon DEF Send, GetConn, RegisterDialed, Lock, DropConn
  <2>5. \A c \in Conn : Stream(c)'
    BY <1>1, <2>1, <2>2, <2>3, <2>4, QuietSend, Zenon
  <2> QED BY <1>1, <1>2, <2>5, Zenon DEF StreamInv
<1>4. CASE Dial(s) \/ WriteLength(s) \/ WritePayload(s)
  <2>1. \A c \in Conn : Stream(c)'
    BY <1>1, <1>2, <1>4, DialStreams, WriteLengthStreams, WritePayloadStreams, Zenon
  <2> QED BY <1>1, <1>2, <2>1, Zenon DEF StreamInv
<1> QED BY <1>3, <1>4, Zenon DEF SendStep

LEMMA StreamNext == Inv /\ Inv' /\ StreamInv /\ [Next]_vars => StreamInv'
<1> SUFFICES ASSUME Inv, Inv', StreamInv, [Next]_vars PROVE StreamInv'
  BY Zenon
<1>1. CASE UNCHANGED vars
  <2>1. UNCHANGED <<sendVars, sentOn, connVars, recvOn, got, handler>>
    BY <1>1, Zenon DEF vars, recvVars
  <2> QED BY <2>1, OpenStreams, Zenon DEF connVars
<1>2. CASE Step
  BY <1>2, SendStreams, NodeStreams, ReadLengthStreams, ReadPayloadStreams, DeliverStreams, BreakStreams, Zenon
     DEF Step, HandleStep
<1> QED BY <1>1, <1>2, Zenon DEF Next

LEMMA InvAlways == Spec => []Inv
BY InvInit, InvNext, PTL DEF Spec, Steps

LEMMA StreamAlways == Spec => []StreamInv
BY StreamInit, StreamNext, InvAlways, PTL DEF Spec, Steps

\* However Sends, dials, failures and Close interleave, neither end of any
\* connection stays open once nothing refers to it (registerDialed, dropConn,
\* registerAccepted, handleConn's defer, Close).
THEOREM ConnectionsDoNotLeak == Spec => []NothingLeaks
<1>1. Inv => NothingLeaks
  BY Zenon DEF Inv, ClientsKept, ServersKept, NothingLeaks, Registering
<1> QED BY <1>1, InvAlways, PTL

\* No handler is left to send on the incoming channel once Close has closed it:
\* the WaitGroup covers the accept loop and every handler (Close, acceptLoop).
THEOREM ChannelClosedLast == Spec => []NoSendOnClosed
<1>1. Inv => NoSendOnClosed
  BY Zenon DEF Inv
<1> QED BY <1>1, InvAlways, PTL

\* An alignment that starts with a frame is one of whole frames.
LEMMA FrameHalves ==
    ASSUME NEW w \in Seq(Part), NEW k \in Nat, NEW S \in Seq(Nat), NEW P, NEW live \in BOOLEAN,
           Payloads(w, 2 * k, S), Lengths(w, 2 * k, S, P, live),
           NEW n \in 1..Len(w)
    PROVE  w[n] = <<IF n % 2 = 1 THEN "length" ELSE "payload", w[IF n % 2 = 1 THEN n ELSE n - 1][2]>>
<1>1. CASE n % 2 = 1
  <2>1. PICK j \in Nat : n + 1 = 2 * j
    <3>1. n + 1 = 2 * ((n \div 2) + 1) /\ (n \div 2) + 1 \in Nat
      BY <1>1
    <3> QED BY <3>1, Zenon
  <2>2. k + j \in Nat /\ 2 * k + n + 1 = 2 * (k + j)
    BY <2>1
  <2>3. w[n] = <<"length", w[n][2]>>
    BY <2>2, Zenon DEF Lengths
  <2> QED BY <1>1, <2>3, Zenon
<1>2. CASE n % 2 # 1
  <2>1. PICK j \in Nat : n = 2 * j
    <3>1. n = 2 * (n \div 2) /\ (n \div 2) \in Nat
      BY <1>2
    <3> QED BY <3>1, Zenon
  <2>2. k + j \in Nat /\ 2 * k + n = 2 * (k + j) /\ n - 1 \in 1..Len(w) /\ 2 * k + (n - 1) + 1 = 2 * (k + j)
    BY <2>1
  <2>3. k + j <= Len(S) /\ w[n] = <<"payload", S[k + j]>>
    BY <2>2, Zenon DEF Payloads
  <2>4. w[n - 1][2] = S[k + j]
    BY <2>2, <2>3, Zenon DEF Lengths
  <2> QED BY <1>2, <2>3, <2>4, Zenon
<1> QED BY <1>1, <1>2, Zenon

LEMMA InFront ==
    ASSUME NEW w \in Seq(Part), NEW e \in Part
    PROVE  /\ <<e>> \o w \in Seq(Part) /\ Len(<<e>> \o w) = Len(w) + 1 /\ (<<e>> \o w)[1] = e
           /\ \A n \in 2..Len(<<e>> \o w) : n - 1 \in 1..Len(w) /\ (<<e>> \o w)[n] = w[n - 1]
OBVIOUS

\* The length the handler has read, put back before what is still to be read.
LEMMA FrameAgain ==
    ASSUME NEW w \in Seq(Part), NEW k \in Nat, NEW S \in Seq(Nat), NEW P, NEW live \in BOOLEAN,
           Payloads(w, 2 * k + 1, S), Lengths(w, 2 * k + 1, S, P, live), NEW g \in Nat,
           IF k + 1 <= Len(S) THEN g = S[k + 1] ELSE live => g \in P
    PROVE  LET v == <<<<"length", g>>>> \o w
           IN  v \in Seq(Part) /\ Payloads(v, 2 * k, S) /\ Lengths(v, 2 * k, S, P, live)
<1> DEFINE e == <<"length", g>>
           v == <<e>> \o w
<1>0. e \in Part
  BY DEF Part
<1> HIDE DEF e
<1>1. /\ v \in Seq(Part) /\ Len(v) = Len(w) + 1 /\ v[1] = e
      /\ \A n \in 2..Len(v) : n - 1 \in 1..Len(w) /\ v[n] = w[n - 1]
  BY <1>0, InFront, Zenon
<1> HIDE DEF v
<1>2. Payloads(v, 2 * k, S)
  <2> SUFFICES ASSUME NEW n \in 1..Len(v), NEW i \in Nat, 2 * k + n = 2 * i
               PROVE  i <= Len(S) /\ v[n] = <<"payload", S[i]>>
    BY Zenon DEF Payloads
  <2>1. n # 1
    OBVIOUS
  <2>2. Len(v) \in Nat /\ n \in Nat /\ n \in 2..Len(v)
    <3>1. Len(v) \in Nat
      BY <1>1
    <3> QED BY <2>1, <3>1
  <2>3. (2 * k + 1) + (n - 1) = 2 * i
    BY <2>2
  <2> QED BY <1>1, <2>2, <2>3, Zenon DEF Payloads
<1>3. Lengths(v, 2 * k, S, P, live)
  <2> SUFFICES ASSUME NEW n \in 1..Len(v), NEW i \in Nat, 2 * k + n + 1 = 2 * i
               PROVE  /\ v[n] = <<"length", v[n][2]>>
                      /\ i <= Len(S) => v[n][2] = S[i]
                      /\ i > Len(S) /\ live => v[n][2] \in P
    BY Zenon DEF Lengths
  <2>1. CASE n = 1
    <3>1. i = k + 1
      BY <2>1
    <3>2. v[n] = <<"length", g>> /\ v[n][2] = g
      BY <1>1, <2>1 DEF e
    <3>3. Len(S) \in Nat
      OBVIOUS
    <3> QED BY <3>1, <3>2, <3>3
  <2>2. CASE n # 1
    <3>1. n \in 2..Len(v) /\ (2 * k + 1) + (n - 1) + 1 = 2 * i
      BY <1>1, <2>2, SMTT(30)
    <3>2. v[n] = w[n - 1] /\ n - 1 \in 1..Len(w)
      BY <1>1, <3>1, Zenon
    <3>3. /\ w[n - 1] = <<"length", w[n - 1][2]>>
          /\ i <= Len(S) => w[n - 1][2] = S[i]
          /\ i > Len(S) /\ live => w[n - 1][2] \in P
      BY <3>1, <3>2, Zenon DEF Lengths
    <3> QED BY <3>2, <3>3, Zenon
  <2> QED BY <2>1, <2>2, Zenon
<1> QED BY <1>1, <1>2, <1>3, Zenon DEF v, e

\* However Sends, dials, broken connections and Close interleave, what the handler
\* of a connection still has to read is lengths and payloads in turn, each payload
\* that of the length before it (writeFrame under the connection's mutex,
\* readFrame).
THEOREM FramesStayWhole == Spec => []FramesWhole
<1>1. Inv /\ StreamInv => FramesWhole
  <2> SUFFICES ASSUME Inv, StreamInv, NEW c \in Conn, handler[c] # "exit"
               PROVE  LET stream == (IF handler[c] = "payload" THEN <<<<"length", got[c]>>>> ELSE <<>>) \o wire[c]
                      IN  \A n \in DOMAIN stream :
                            stream[n] = <<IF n % 2 = 1 THEN "length" ELSE "payload",
                                          stream[IF n % 2 = 1 THEN n ELSE n - 1][2]>>
    BY Zenon DEF FramesWhole
  <2> DEFINE stream == (IF handler[c] = "payload" THEN <<<<"length", got[c]>>>> ELSE <<>>) \o wire[c]
             k == Len(recvOn[c])
  <2>1. /\ wire[c] \in Seq(Part) /\ sentOn[c] \in Seq(Nat) /\ k \in Nat /\ k + 1 \in Nat
        /\ got[c] \in Nat /\ Stream(c) /\ Live(c) \in BOOLEAN
    <3>1. /\ wire[c] \in Seq(Part) /\ sentOn[c] \in Seq(Nat) /\ recvOn[c] \in Seq(Nat)
          /\ got[c] \in Nat /\ Stream(c) /\ Live(c) \in BOOLEAN
      BY Zenon DEF StreamInv, StreamTypes, Live
    <3>2. k \in Nat /\ k + 1 \in Nat
      BY <3>1
    <3> QED BY <3>1, <3>2, Zenon
  <2>2. CASE server[c] = "closed"
    <3>1. wire[c] = <<>>
      BY <2>1, <2>2, Zenon DEF Stream
    <3>2. CASE handler[c] = "payload"
      <4>1. DOMAIN stream = {1} /\ stream[1] = <<"length", got[c]>>
        <5>1. stream = <<<<"length", got[c]>>>> \o <<>>
          BY <3>1, <3>2, Zenon
        <5>2. \A e : DOMAIN (<<e>> \o <<>>) = {1} /\ (<<e>> \o <<>>)[1] = e
          OBVIOUS
        <5> QED BY <5>1, <5>2, Zenon
      <4> HIDE DEF stream
      <4>2. ASSUME NEW n \in DOMAIN stream
            PROVE  stream[n] = <<IF n % 2 = 1 THEN "length" ELSE "payload",
                                 stream[IF n % 2 = 1 THEN n ELSE n - 1][2]>>
        <5>1. n = 1 /\ n % 2 = 1
          BY <4>1
        <5> QED BY <4>1, <5>1
      <4> QED BY <4>2, Zenon DEF stream
    <3>3. CASE handler[c] # "payload"
      <4>1. DOMAIN stream = {}
        BY <3>1, <3>3
      <4> QED BY <4>1, Zenon
    <3> QED BY <3>2, <3>3, Zenon
  <2>3. CASE server[c] # "closed"
    <3>1. Aligned(wire[c], 2 * k + Offset(handler[c]), sentOn[c], Half(c), Live(c))
      BY <2>1, <2>3, Zenon DEF Stream
    <3>2. PICK j \in Nat : /\ stream \in Seq(Part)
                           /\ Payloads(stream, 2 * j, sentOn[c])
                           /\ Lengths(stream, 2 * j, sentOn[c], Half(c), Live(c))
      <4>1. CASE handler[c] = "payload"
        <5>1. /\ Payloads(wire[c], 2 * k + 1, sentOn[c])
              /\ Lengths(wire[c], 2 * k + 1, sentOn[c], Half(c), Live(c))
          BY <3>1, <4>1, Zenon DEF Aligned, Offset
        <5>2. IF k + 1 <= Len(sentOn[c]) THEN got[c] = sentOn[c][k + 1] ELSE Live(c) => got[c] \in Half(c)
          BY <2>1, <2>3, <4>1, Zenon DEF Stream, GotNext
        <5>3. stream = <<<<"length", got[c]>>>> \o wire[c]
          BY <4>1, Zenon
        <5> QED BY <2>1, <5>1, <5>2, <5>3, FrameAgain, Zenon
      <4>2. CASE handler[c] # "payload"
        <5>1. stream = wire[c]
          BY <2>1, <4>2
        <5>2. PICK j \in Nat : 2 * k + Offset(handler[c]) = 2 * j
          <6>1. CASE handler[c] = "deliver"
            <7>1. 2 * k + Offset(handler[c]) = 2 * (k + 1)
              BY <2>1, <6>1 DEF Offset
            <7> QED BY <2>1, <7>1, Zenon
          <6>2. CASE handler[c] # "deliver"
            <7>1. 2 * k + Offset(handler[c]) = 2 * k
              BY <2>1, <4>2, <6>2 DEF Offset
            <7> QED BY <2>1, <7>1, Zenon
          <6> QED BY <6>1, <6>2, Zenon
        <5> QED BY <2>1, <3>1, <5>1, <5>2, Zenon DEF Aligned
      <4> QED BY <4>1, <4>2, Zenon
    <3> HIDE DEF stream
    <3>3. DOMAIN stream = 1..Len(stream)
      BY <3>2
    <3>4. \A n \in 1..Len(stream) :
            stream[n] = <<IF n % 2 = 1 THEN "length" ELSE "payload",
                          stream[IF n % 2 = 1 THEN n ELSE n - 1][2]>>
      BY <2>1, <3>2, FrameHalves, Zenon
    <3> QED BY <3>3, <3>4, Zenon DEF stream
  <2> QED BY <2>2, <2>3, Zenon
<1> QED BY <1>1, InvAlways, StreamAlways, PTL

\* What is delivered from a connection is what was sent on it, in order and without
\* gaps, and no message is sent twice, whatever breaks and is redialed (handleConn,
\* deliver, Send).
THEOREM DeliveryInOrder == Spec => []DeliveredInOrder
<1>1. StreamInv => DeliveredInOrder
  <2> SUFFICES ASSUME StreamInv PROVE DeliveredInOrder
    BY Zenon
  <2>1. ASSUME NEW c \in Conn
        PROVE  Len(recvOn[c]) <= Len(sentOn[c]) /\ recvOn[c] = SubSeq(sentOn[c], 1, Len(recvOn[c]))
    <3>1. recvOn[c] \in Seq(Nat) /\ sentOn[c] \in Seq(Nat)
      BY Zenon DEF StreamInv, StreamTypes
    <3>2. Len(recvOn[c]) <= Len(sentOn[c]) /\ \A n \in 1..Len(recvOn[c]) : recvOn[c][n] = sentOn[c][n]
      BY Zenon DEF StreamInv, Stream
    <3> QED BY <3>1, <3>2
  <2>2. ASSUME NEW c \in Conn, NEW d \in Conn, NEW m \in DOMAIN sentOn[c], NEW n \in DOMAIN sentOn[d],
               sentOn[c][m] = sentOn[d][n]
        PROVE  c = d /\ m = n
    <3>1. sentOn[c] \in Seq(Nat) /\ sentOn[d] \in Seq(Nat)
      BY Zenon DEF StreamInv, StreamTypes
    <3>0. DOMAIN sentOn[c] = 1..Len(sentOn[c]) /\ DOMAIN sentOn[d] = 1..Len(sentOn[d])
      BY <3>1
    <3>2. /\ m \in 1..Len(sentOn[c]) /\ n \in 1..Len(sentOn[d]) /\ sentOn[c][m] \in Nat
          /\ m \in Nat /\ n \in Nat
      BY <3>0, <3>1
    <3>3. SentAs(c, m, sentOn[c][m]) /\ SentAs(d, n, sentOn[c][m])
      BY <2>2, <3>2, Zenon DEF SentAs
    <3> QED BY <3>2, <3>3, Zenon DEF StreamInv, Once, SentOnce
  <2> QED BY <2>1, <2>2, Zenon DEF DeliveredInOrder
<1> QED BY <1>1, StreamAlways, PTL

=============================================================================
