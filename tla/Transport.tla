----------------------------- MODULE Transport -----------------------------
(***************************************************************************)
(* The transport package: the sending half of one node's Transport, whose  *)
(* goroutines call Send for the same peer, the receiving half of that      *)
(* peer's, and the TCP connections in between.                             *)
(*                                                                         *)
(* A section under t.mu is one action.  A frame is two writes, its length  *)
(* and its payload; a connection holds what was written and not read yet,  *)
(* and a write blocks while that is full.  Messages are numbered in the    *)
(* order of their Sends.                                                   *)
(***************************************************************************)
EXTENDS Integers, Sequences

CONSTANTS
    Sender,      \* the goroutines that call Send
    NoOne,       \* a mutex nobody holds
    Room,        \* how many writes a connection holds before the next one blocks
    Buffer,      \* the capacity of the incoming channel
    MaxSends,    \* bound: calls of Send
    MaxDials,    \* bound: connections dialed
    MaxBreaks    \* bound: connections the network breaks

ASSUME TransportBounds ==
    /\ {Room, Buffer} \subseteq Nat \ {0}
    /\ {MaxSends, MaxDials, MaxBreaks} \subseteq Nat
    /\ NoOne \notin Sender

Conn    == 1..MaxDials
Message == 1..MaxSends

VARIABLES
    \* the sending node
    pc,        \* pc[s]: where goroutine s is in Send
    at,        \* at[s]: the connection it uses, 0 if none
    msg,       \* msg[s]: the message it sends, 0 if none
    sends,     \* how many Sends were called
    closed,
    cached,    \* outConns for the peer, 0 if there is none
    holder,    \* holder[c]: who holds the outboundConn's mutex
    \* the connections
    client, server,  \* the two ends
    wire,      \* what was written and not read yet
    broken,    \* the client knows: writes fail
    breaks,
    \* the receiving node
    acceptor,  \* acceptLoop: 0 in Accept, a connection to register, or -1 if ended
    handler,   \* handler[c]: where handleConn is
    got,       \* got[c]: the message it is reading or delivering
    inConns,
    incoming,
    shut,      \* Close: "open" until it is called, "waiting" in wg.Wait, "returned"
    consuming, \* somebody receives from Recv()
    oversized, \* the messages longer than maxMessageSize: any, never changed
    \* history
    sentOn, recvOn   \* the messages sent and delivered on each connection

sendVars == <<pc, at, msg, sends, closed, cached, holder>>
connVars == <<client, server, wire, broken, breaks>>
recvVars == <<acceptor, handler, got, inConns, incoming, shut, consuming>>
vars == <<sendVars, connVars, recvVars, oversized, sentOn, recvOn>>

\* Both nodes listen; connection up, if it is one, is established and idle.
Started(up) ==
    /\ pc = [s \in Sender |-> "idle"]
    /\ at = [s \in Sender |-> 0]
    /\ msg = [s \in Sender |-> 0]
    /\ sends \in 0..MaxSends
    /\ oversized \in SUBSET Message
    /\ closed = FALSE
    /\ cached = up
    /\ holder = [c \in Conn |-> NoOne]
    /\ client = [c \in Conn |-> IF c = up THEN "open" ELSE "none"]
    /\ server = client
    /\ wire = [c \in Conn |-> <<>>]
    /\ broken = [c \in Conn |-> FALSE]
    /\ breaks \in 0..MaxBreaks
    /\ acceptor = 0
    /\ handler = [c \in Conn |-> IF c = up THEN "length" ELSE "none"]
    /\ got = [c \in Conn |-> 0]
    /\ inConns = Conn \cap {up}
    /\ incoming = <<>>
    /\ shut = "open"
    /\ consuming = TRUE
    /\ sentOn = [c \in Conn |-> <<>>]
    /\ recvOn = [c \in Conn |-> <<>>]

Init == Started(0)

-----------------------------------------------------------------------------
(***************************************************************************)
(* Send.                                                                   *)
(***************************************************************************)
Goto(s, p) == pc' = [pc EXCEPT ![s] = p]

\* s goes on to use connection c.
Uses(s, c) ==
    /\ at' = [at EXCEPT ![s] = c]
    /\ Goto(s, "lock")
    /\ UNCHANGED msg

Returns(s) ==
    /\ at' = [at EXCEPT ![s] = 0]
    /\ msg' = [msg EXCEPT ![s] = 0]
    /\ Goto(s, "idle")

Send(s) ==
    /\ pc[s] = "idle"
    /\ sends < MaxSends
    /\ sends' = sends + 1
    /\ msg' = [msg EXCEPT ![s] = sends']
    /\ Goto(s, "get")
    /\ UNCHANGED <<at, closed, cached, holder, connVars, recvVars, sentOn, recvOn>>

\* getConn up to the dial.
GetConn(s) ==
    /\ pc[s] = "get"
    /\ \/ closed /\ Returns(s)
       \/ ~closed /\ cached # 0 /\ Uses(s, cached)
       \/ ~closed /\ cached = 0 /\ Goto(s, "dial") /\ UNCHANGED <<at, msg>>
    /\ UNCHANGED <<sends, closed, cached, holder, connVars, recvVars, sentOn, recvOn>>

\* net.DialTimeout, without the lock: succeeds while the peer listens, and may
\* fail at any time.
Dial(s) ==
    /\ pc[s] = "dial"
    /\ \/ /\ shut = "open"
          /\ \E c \in Conn :
                /\ client[c] = "none"
                /\ \A x \in Conn : x < c => client[x] # "none"
                /\ client' = [client EXCEPT ![c] = "open"]
                /\ server' = [server EXCEPT ![c] = "backlog"]
                /\ at' = [at EXCEPT ![s] = c]
          /\ Goto(s, "register")
          /\ UNCHANGED msg
       \/ Returns(s) /\ UNCHANGED <<client, server>>
    /\ UNCHANGED <<sends, closed, cached, holder, wire, broken, breaks, recvVars, sentOn, recvOn>>

CloseClient(c) == client' = [client EXCEPT ![c] = "closed"]

\* Mutant of RegisterDialed: does not look for a connection cached meanwhile.
RegisterDialedAnyway(s) ==
    /\ pc[s] = "register"
    /\ \/ closed /\ CloseClient(at[s]) /\ Returns(s) /\ UNCHANGED cached
       \/ ~closed /\ cached' = at[s] /\ Uses(s, at[s]) /\ UNCHANGED client
    /\ UNCHANGED <<sends, closed, holder, server, wire, broken, breaks, recvVars, sentOn, recvOn>>

RegisterDialed(s) ==
    /\ pc[s] = "register"
    /\ \/ closed /\ CloseClient(at[s]) /\ Returns(s) /\ UNCHANGED cached
       \/ ~closed /\ cached # 0 /\ CloseClient(at[s]) /\ Uses(s, cached) /\ UNCHANGED cached
       \/ ~closed /\ cached = 0 /\ cached' = at[s] /\ Uses(s, at[s]) /\ UNCHANGED client
    /\ UNCHANGED <<sends, closed, holder, server, wire, broken, breaks, recvVars, sentOn, recvOn>>

\* Mutant of Lock: writes are not serialized.
LockNothing(s) ==
    /\ pc[s] = "lock"
    /\ Goto(s, "length")
    /\ UNCHANGED <<at, msg, sends, closed, cached, holder, connVars, recvVars, sentOn, recvOn>>

Lock(s) ==
    /\ pc[s] = "lock"
    /\ holder[at[s]] = NoOne
    /\ holder' = [holder EXCEPT ![at[s]] = s]
    /\ Goto(s, "length")
    /\ UNCHANGED <<at, msg, sends, closed, cached, connVars, recvVars, sentOn, recvOn>>

\* One Write to connection c: it blocks while the connection is full.  Once the
\* peer's end is closed a write may still succeed, into the void.
Fails(c)  == client[c] = "closed" \/ broken[c] \/ server[c] = "closed"
Writes(c, part) ==
    /\ client[c] = "open" /\ ~broken[c]
    /\ \/ /\ server[c] # "closed"
          /\ Len(wire[c]) < Room
          /\ wire' = [wire EXCEPT ![c] = Append(@, part)]
       \/ server[c] = "closed" /\ UNCHANGED wire

Unlock(c) == holder' = [holder EXCEPT ![c] = NoOne]

\* Mutant of WriteLength: a failed write returns without unlocking.
WriteLengthLocked(s) ==
    /\ pc[s] = "length"
    /\ \/ /\ Writes(at[s], <<"length", msg[s]>>)
          /\ Goto(s, "payload")
       \/ Fails(at[s]) /\ Goto(s, "drop") /\ UNCHANGED wire
    /\ UNCHANGED <<at, msg, sends, closed, cached, holder, client, server, broken, breaks,
                   recvVars, sentOn, recvOn>>

\* The four bytes are the payload's length: one of 4 GiB or more is not modelled.
WriteLength(s) ==
    /\ pc[s] = "length"
    /\ \/ /\ Writes(at[s], <<"length", msg[s]>>)
          /\ Goto(s, "payload")
          /\ UNCHANGED holder
       \/ Fails(at[s]) /\ Unlock(at[s]) /\ Goto(s, "drop") /\ UNCHANGED wire
    /\ UNCHANGED <<at, msg, sends, closed, cached, client, server, broken, breaks, recvVars,
                   sentOn, recvOn>>

WritePayload(s) ==
    /\ pc[s] = "payload"
    /\ Unlock(at[s])
    /\ \/ /\ Writes(at[s], <<"payload", msg[s]>>)
          /\ sentOn' = [sentOn EXCEPT ![at[s]] = Append(@, msg[s])]
          /\ Returns(s)
       \/ Fails(at[s]) /\ Goto(s, "drop") /\ UNCHANGED <<at, msg, wire, sentOn>>
    /\ UNCHANGED <<sends, closed, cached, client, server, broken, breaks, recvVars, recvOn>>

\* dropConn, after a failed write: whatever connection is cached by now.
DropConn(s) ==
    /\ pc[s] = "drop"
    /\ \/ cached # 0 /\ CloseClient(cached) /\ cached' = 0
       \/ cached = 0 /\ UNCHANGED <<client, cached>>
    /\ Returns(s)
    /\ UNCHANGED <<sends, closed, holder, server, wire, broken, breaks, recvVars, sentOn, recvOn>>

\* Close at the sending node.
CloseSender ==
    /\ ~closed
    /\ closed' = TRUE
    /\ cached' = 0
    /\ IF cached # 0 THEN CloseClient(cached) ELSE UNCHANGED client
    /\ UNCHANGED <<pc, at, msg, sends, holder, server, wire, broken, breaks, recvVars, sentOn, recvOn>>

-----------------------------------------------------------------------------
(***************************************************************************)
(* acceptLoop and handleConn.                                              *)
(***************************************************************************)
\* The peer's end is closed: what was not read is gone.
CloseServer(S) ==
    /\ server' = [c \in Conn |-> IF c \in S THEN "closed" ELSE server[c]]
    /\ wire' = [c \in Conn |-> IF c \in S THEN <<>> ELSE wire[c]]

Accept ==
    /\ acceptor = 0
    /\ \/ /\ shut = "open"
          /\ \E c \in Conn : /\ server[c] = "backlog"
                             /\ acceptor' = c
                             /\ server' = [server EXCEPT ![c] = "open"]
       \/ shut # "open" /\ acceptor' = -1 /\ UNCHANGED server
    /\ UNCHANGED <<sendVars, client, wire, broken, breaks, handler, got, inConns, incoming,
                   shut, consuming, sentOn, recvOn>>

\* A fatal error of Accept ends acceptLoop and nothing else: the listener stays
\* open, so peers go on connecting to a node that accepts nobody.
AcceptFails ==
    /\ acceptor = 0
    /\ shut = "open"
    /\ acceptor' = -1
    /\ UNCHANGED <<sendVars, connVars, handler, got, inConns, incoming, shut, consuming,
                   sentOn, recvOn>>

\* registerAccepted, and the goroutine it is for.
RegisterAccepted ==
    /\ acceptor > 0
    /\ \/ /\ shut = "open"
          /\ inConns' = inConns \cup {acceptor}
          /\ handler' = [handler EXCEPT ![acceptor] = "length"]
          /\ acceptor' = 0
          /\ UNCHANGED <<server, wire>>
       \/ /\ shut # "open"
          /\ CloseServer({acceptor})
          /\ acceptor' = -1
          /\ UNCHANGED <<inConns, handler>>
    /\ UNCHANGED <<sendVars, client, broken, breaks, got, incoming, shut, consuming,
                   sentOn, recvOn>>

\* The next part of the stream, or an error once there is none to come.
Ended(c) ==
    \/ server[c] = "closed"
    \/ wire[c] = <<>> /\ (client[c] = "closed" \/ broken[c])

Handler(c, h) == handler' = [handler EXCEPT ![c] = h]

\* readFramed: the length, refused if it exceeds maxMessageSize ...
ReadLength(c) ==
    /\ handler[c] = "length"
    /\ \/ /\ wire[c] # <<>>
          /\ wire' = [wire EXCEPT ![c] = Tail(@)]
          /\ got' = [got EXCEPT ![c] = Head(wire[c])[2]]
          /\ Handler(c, IF Head(wire[c])[2] \in oversized THEN "exit" ELSE "payload")
       \/ Ended(c) /\ Handler(c, "exit") /\ UNCHANGED <<wire, got>>
    /\ UNCHANGED <<sendVars, client, server, broken, breaks, acceptor, inConns, incoming,
                   shut, consuming, sentOn, recvOn>>

\* ... and as many bytes as it says: the message, if they are its own payload.
ReadPayload(c) ==
    /\ handler[c] = "payload"
    /\ \/ /\ wire[c] # <<>>
          /\ wire' = [wire EXCEPT ![c] = Tail(@)]
          /\ Handler(c, IF Head(wire[c]) = <<"payload", got[c]>> THEN "deliver" ELSE "exit")
       \/ Ended(c) /\ Handler(c, "exit") /\ UNCHANGED wire
    /\ UNCHANGED <<sendVars, client, server, broken, breaks, acceptor, got, inConns, incoming,
                   shut, consuming, sentOn, recvOn>>

Delivers(c) ==
    /\ incoming' = Append(incoming, got[c])
    /\ recvOn' = [recvOn EXCEPT ![c] = Append(@, got[c])]
    /\ Handler(c, "length")

\* Mutants of Deliver: a full channel drops the message; done is not watched.
DeliverOrDrop(c) ==
    /\ handler[c] = "deliver"
    /\ \/ Len(incoming) < Buffer /\ Delivers(c)
       \/ Len(incoming) = Buffer /\ Handler(c, "length") /\ UNCHANGED <<incoming, recvOn>>
    /\ UNCHANGED <<sendVars, connVars, acceptor, got, inConns, shut, consuming, sentOn>>

DeliverOrBlock(c) ==
    /\ handler[c] = "deliver"
    /\ Len(incoming) < Buffer
    /\ Delivers(c)
    /\ UNCHANGED <<sendVars, connVars, acceptor, got, inConns, shut, consuming, sentOn>>

\* deliver: either case of the select, if both are ready.
Deliver(c) ==
    /\ handler[c] = "deliver"
    /\ \/ Len(incoming) < Buffer /\ Delivers(c)
       \/ shut # "open" /\ Handler(c, "exit") /\ UNCHANGED <<incoming, recvOn>>
    /\ UNCHANGED <<sendVars, connVars, acceptor, got, inConns, shut, consuming, sentOn>>

\* The deferred clean-up.
Exit(c) ==
    /\ handler[c] = "exit"
    /\ inConns' = inConns \ {c}
    /\ CloseServer({c})
    /\ Handler(c, "gone")
    /\ UNCHANGED <<sendVars, client, broken, breaks, acceptor, got, incoming, shut, consuming,
                   sentOn, recvOn>>

-----------------------------------------------------------------------------
(***************************************************************************)
(* Close at the receiving node: everything is closed under the lock, then  *)
(* wg.Wait for acceptLoop and every handleConn, then the channel is closed.*)
(***************************************************************************)
CloseReceiver ==
    /\ shut = "open"
    /\ shut' = "waiting"
    /\ CloseServer(inConns \cup {c \in Conn : server[c] = "backlog"})
    /\ inConns' = {}
    /\ UNCHANGED <<sendVars, client, broken, breaks, acceptor, handler, got, incoming, consuming,
                   sentOn, recvOn>>

\* Mutant of CloseWaited: only acceptLoop is waited for.
CloseWaitedForAccept ==
    /\ shut = "waiting"
    /\ acceptor = -1
    /\ shut' = "returned"
    /\ UNCHANGED <<sendVars, connVars, acceptor, handler, got, inConns, incoming, consuming,
                   sentOn, recvOn>>

CloseWaited ==
    /\ shut = "waiting"
    /\ acceptor = -1
    /\ \A c \in Conn : handler[c] \in {"none", "gone"}
    /\ shut' = "returned"
    /\ UNCHANGED <<sendVars, connVars, acceptor, handler, got, inConns, incoming, consuming,
                   sentOn, recvOn>>

\* The server's Run receives, until it returns.
Consume ==
    /\ consuming
    /\ incoming # <<>>
    /\ incoming' = Tail(incoming)
    /\ UNCHANGED <<sendVars, connVars, acceptor, handler, got, inConns, shut, consuming,
                   sentOn, recvOn>>

ConsumerStops ==
    /\ consuming
    /\ consuming' = FALSE
    /\ UNCHANGED <<sendVars, connVars, acceptor, handler, got, inConns, incoming, shut,
                   sentOn, recvOn>>

\* The network breaks a connection; the newest of what is in flight is lost.
Break(c) ==
    /\ breaks < MaxBreaks
    /\ breaks' = breaks + 1
    /\ client[c] = "open" /\ server[c] \in {"backlog", "open"} /\ ~broken[c]
    /\ broken' = [broken EXCEPT ![c] = TRUE]
    /\ \E k \in 0..Len(wire[c]) : wire' = [wire EXCEPT ![c] = SubSeq(@, 1, k)]
    /\ UNCHANGED <<sendVars, client, server, recvVars, sentOn, recvOn>>

-----------------------------------------------------------------------------
SendStep(s) ==
    \/ GetConn(s) \/ Dial(s) \/ RegisterDialed(s) \/ Lock(s)
    \/ WriteLength(s) \/ WritePayload(s) \/ DropConn(s)

AcceptStep == Accept \/ RegisterAccepted

HandleStep(c) == ReadLength(c) \/ ReadPayload(c) \/ Deliver(c) \/ Exit(c)

Step ==
    \/ \E s \in Sender : Send(s) \/ SendStep(s)
    \/ CloseSender
    \/ AcceptStep \/ AcceptFails
    \/ \E c \in Conn : HandleStep(c) \/ Break(c)
    \/ CloseReceiver \/ CloseWaited
    \/ Consume \/ ConsumerStops

Next == Step /\ UNCHANGED oversized

\* Every goroutine goes on when it can; a dial and a blocked write end when the
\* connection does.  Nobody has to call Send or Close, or to go on receiving, and
\* Accept need not fail.
Fairness ==
    /\ \A s \in Sender : WF_vars(SendStep(s) /\ UNCHANGED oversized)
    /\ WF_vars(AcceptStep /\ UNCHANGED oversized)
    /\ \A c \in Conn : WF_vars(HandleStep(c) /\ UNCHANGED oversized)
    /\ WF_vars(CloseWaited /\ UNCHANGED oversized)
    /\ WF_vars(Consume /\ UNCHANGED oversized)

Steps == [][Next]_vars /\ Fairness

Spec == Init /\ Steps

-----------------------------------------------------------------------------
(***************************************************************************)
(* Properties.                                                             *)
(***************************************************************************)
\* Whatever goroutines send at once, what is still to be read of a connection is
\* the rest of whole frames, only the last of which may be cut short: a length is
\* followed by its own payload (outboundConn.mu, Send, writeFramed).
FramesWhole ==
    \A c \in Conn :
        LET stream == (IF handler[c] = "payload" THEN <<<<"length", got[c]>>>> ELSE <<>>) \o wire[c]
        IN  handler[c] # "exit" =>
              \A n \in DOMAIN stream :
                  stream[n] = <<IF n % 2 = 1 THEN "length" ELSE "payload",
                                stream[IF n % 2 = 1 THEN n ELSE n - 1][2]>>

\* What is delivered from a connection is what was sent on it, in order and
\* without gaps, and no message is sent on two connections: across a redial
\* messages may overtake each other, but none is delivered twice (handleConn,
\* deliver, Send's "nothing here retries").
DeliveredInOrder ==
    /\ \A c \in Conn : /\ Len(recvOn[c]) <= Len(sentOn[c])
                       /\ recvOn[c] = SubSeq(sentOn[c], 1, Len(recvOn[c]))
    /\ \A c, d \in Conn : \A m \in DOMAIN sentOn[c], n \in DOMAIN sentOn[d] :
          sentOn[c][m] = sentOn[d][n] => c = d /\ m = n

\* No connection leaks: our end is open exactly while it is cached or still being
\* registered, the peer's while it is in inConns or still being registered, so
\* that Close reaches all of them (registerDialed, dropConn, registerAccepted,
\* handleConn's defer, Close).
NothingLeaks ==
    /\ \A c \in Conn : client[c] = "open" <=>
          c = cached \/ \E s \in Sender : pc[s] = "register" /\ at[s] = c
    /\ \A c \in Conn : server[c] = "open" <=> c \in inConns \/ c = acceptor

\* Once Close has closed the incoming channel no handleConn is left to send on
\* it, which would panic (wg.Add before the goroutine starts, wg.Wait before
\* close(t.incoming)).
NoSendOnClosed ==
    shut = "returned" => /\ acceptor = -1
                         /\ \A c \in Conn : handler[c] \in {"none", "gone"}

\* A Send returns, whatever happens to its connection, unless the peer is up and
\* no longer receives, or never accepts the connection because its acceptLoop has
\* ended: there is no write deadline (Send, getConn, acceptLoop, Close).
Stalled(s) ==
    /\ shut = "open" /\ ~closed
    /\ ~consuming \/ (acceptor = -1 /\ at[s] # 0 /\ server[at[s]] = "backlog")

SendReturns == \A s \in Sender : pc[s] # "idle" ~> (pc[s] = "idle" \/ Stalled(s))

\* Close returns although handlers are blocked on a full channel nobody receives
\* from any more (done in deliver, the connections closed under them).
CloseReturns == shut = "waiting" ~> shut = "returned"

=============================================================================
