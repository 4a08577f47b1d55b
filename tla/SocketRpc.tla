----------------------------- MODULE SocketRpc -----------------------------
(***************************************************************************)
(* RPC over sockets: one server process (socket_server.c), client          *)
(* processes (socket_client.c), and the TCP connections between them       *)
(* (socket_helper.c formats and parses what goes over them).               *)
(*                                                                         *)
(* Both sides are event loops: the application calls update again and      *)
(* again, update selects the readable sockets and handles each.  A request *)
(* or a response is MsgCells cells, of which recv may get any prefix.  The *)
(* k-th request of a client is answered with a response k.                 *)
(*                                                                         *)
(* LWPB_FAIL ends a process as "aborted"; SIGPIPE, which a send to a peer  *)
(* that is gone may raise, as "killed".                                    *)
(***************************************************************************)
EXTENDS Integers, Sequences, FiniteSets

CONSTANTS
    Client,       \* client processes, each with one socket transport
    NoClient,     \* a free slot
    NumConns,     \* LWPB_TRANSPORT_SOCKET_SERVER_CONNS
    Backlog,      \* connections the kernel queues for accept
    MsgCells,     \* cells of a message
    BufCells,     \* cells a receive buffer holds (1024 bytes)
    MaxCalls      \* bound: calls each client makes

ASSUME SocketAssumption ==
    /\ NoClient \notin Client
    /\ NumConns \in Nat \ {0} /\ Backlog \in Nat \ {0}
    /\ MsgCells \in Nat \ {0} /\ BufCells \in Nat /\ MsgCells <= BufCells
    /\ MaxCalls \in [Client -> Nat]

VARIABLES
    (* the server *)
    srv,          \* its process: "running", "aborted" or "killed"
    listen,       \* socket_server->socket: "none" (-1), "open", "unbound" after
                  \* a failed open, or "closed" and not -1
    conns,        \* socket_server->conns: peer (socket # -1), fd, buf up to pos
    num_conns,    \* socket_server->num_conns
    ready,        \* read_fds after select: slots not handled yet, 0 to accept
    (* the clients *)
    cli,          \* cli[c]: the process
    sock,         \* sock[c]: "none" (-1), "open", "unconnected" or "closed"
    buf,          \* buf[c]: socket_client->buf up to pos
    last,         \* last[c]: last_method, as the number of the last call
    (* the network *)
    link,         \* link[c]: "none", "pending", "up", or "cut" by the server
    pending,      \* connections waiting for accept
    toServer,     \* toServer[c], toClient[c]: cells sent, not yet received
    toClient,
    (* history *)
    calls,        \* calls[c]: requests client c has sent
    handled,      \* handled[c]: the requests the server has handled, in order
    answers,      \* answers[c]: << last, response >> of each response handled
    done          \* done[c]: how often the done handler was called

server  == <<srv, listen, conns, num_conns, ready>>
clients == <<cli, sock, buf, last>>
network == <<link, pending, toServer, toClient>>
history == <<calls, handled, answers, done>>
vars == <<server, clients, network, history>>

Slot == 1..NumConns
Free == [peer |-> NoClient, fd |-> 0, buf |-> << >>]

-----------------------------------------------------------------------------
(* Messages. *)

Message(kind, k) == [i \in 1..MsgCells |-> <<kind, k, i>>]
Text == << <<"text", 0, 1>> >>            \* "No more connections allowed"

\* Mutant: a message is taken as complete when its header is.
HeaderIsEnough(b) == b # << >> /\ b[1][1] # "text"

\* Mutant: a message is complete only when more follows it.
NeedsOneMore(b) == Len(b) > MsgCells /\ b[1][1] # "text"

\* parse_request: is there a whole message at the start of the buffer?  What
\* follows it, and what was parsed before, makes no difference.
ParsesOK(b) == Len(b) >= MsgCells /\ b[1][1] # "text"
Parsed(b) == b[1][2]

\* Mutant: recv is not told how much room is left.
ReceivedAll(q, b) == IF q = << >> THEN {0} ELSE 1..Len(q)

\* What recv may get of the cells q into a buffer that holds b: a nonempty
\* prefix, or nothing when the buffer is full or the peer is gone.
Received(q, b) == LET room == BufCells - Len(b)
                      n == IF Len(q) < room THEN Len(q) ELSE room
                  IN  IF n = 0 THEN {0} ELSE 1..n

Rest(q, n) == SubSeq(q, n + 1, Len(q))
Front(q, n) == SubSeq(q, 1, n)

-----------------------------------------------------------------------------

Init ==
    /\ srv = "running"
    /\ listen = "none"
    /\ conns = [i \in Slot |-> Free]
    /\ num_conns = 0
    /\ ready = {}
    /\ cli = [c \in Client |-> "running"]
    /\ sock = [c \in Client |-> "none"]
    /\ buf = [c \in Client |-> << >>]
    /\ last = [c \in Client |-> 0]
    /\ link = [c \in Client |-> "none"]
    /\ pending = << >>
    /\ toServer = [c \in Client |-> << >>]
    /\ toClient = [c \in Client |-> << >>]
    /\ calls = [c \in Client |-> 0]
    /\ handled = [c \in Client |-> << >>]
    /\ answers = [c \in Client |-> << >>]
    /\ done = [c \in Client |-> 0]

-----------------------------------------------------------------------------
(* The server. *)

InUse == {i \in Slot : conns[i].peer # NoClient}

\* The client's end of its connection is closed, by it or with its process.
PeerGone(c) == cli[c] # "running" \/ sock[c] # "open"

\* The server process is gone, and with it its ends of all connections.
ServerDies(how) ==
    /\ srv' = how
    /\ ready' = {}
    /\ pending' = << >>
    /\ link' = [c \in Client |-> IF link[c] = "none" THEN "none" ELSE "cut"]

\* Mutant: a connection is readable only when there is something to read.
ReadableData(i) == toServer[conns[i].peer] # << >>

Readable(i) == toServer[conns[i].peer] # << >> \/ PeerGone(conns[i].peer)

\* The highest descriptor select is told of: that of the last slot in use.
\* The listen socket has the number 0, below every connection's.
High == IF InUse = {} THEN 0
        ELSE conns[CHOOSE i \in InUse : \A j \in InUse : j <= i].fd

\* update, up to and with select; without a readable socket it times out.
Select ==
    /\ srv = "running" /\ listen = "open" /\ ready = {}
    /\ ready' = {i \in InUse : conns[i].fd <= High /\ Readable(i)}
                \cup {i \in {0} : pending # << >>}
    /\ ready' # {}
    /\ UNCHANGED <<srv, listen, conns, num_conns, clients, network, history>>

\* update after close: select is given a closed socket and fails.
UpdateClosedServer ==
    /\ srv = "running" /\ listen = "closed"
    /\ ServerDies("aborted")
    /\ UNCHANGED <<listen, conns, num_conns, clients, toServer, toClient, history>>

\* The kernel gives out the lowest descriptor that is not in use.
LowestFd == CHOOSE n \in 1..(NumConns + 1) :
                /\ \A i \in InUse : conns[i].fd # n
                /\ \A m \in 1..(n - 1) : \E i \in InUse : conns[i].fd = m

\* Mutant: the last free slot is taken.
LastFree == CHOOSE i \in Slot \ InUse : \A j \in Slot \ InUse : j <= i

FirstFree == CHOOSE i \in Slot \ InUse : \A j \in Slot \ InUse : i <= j

HandleNewConnection ==
    LET c == Head(pending)
    IN  /\ srv = "running" /\ 0 \in ready
        /\ ready' = ready \ {0}
        /\ pending' = Tail(pending)
        /\ \/ /\ InUse # Slot
              /\ conns' = [conns EXCEPT ![FirstFree] =
                              [peer |-> c, fd |-> LowestFd, buf |-> << >>]]
              /\ num_conns' = num_conns + 1
              /\ link' = [link EXCEPT ![c] = "up"]
              /\ UNCHANGED toClient
           \/ /\ InUse = Slot
              /\ toClient' = [toClient EXCEPT ![c] = @ \o Text]
              /\ link' = [link EXCEPT ![c] = "cut"]
              /\ UNCHANGED <<conns, num_conns>>
        /\ UNCHANGED <<srv, listen, clients, toServer, history>>

\* send_response: three sends, whose results nobody looks at.
SendResponse(i, c, k) ==
    \/ /\ toClient' = [toClient EXCEPT ![c] =
                          IF PeerGone(c) THEN @ ELSE @ \o Message("res", k)]
       /\ ready' = ready \ {i}
       /\ UNCHANGED <<srv, link, pending>>
    \/ /\ PeerGone(c)
       /\ ServerDies("killed")
       /\ UNCHANGED toClient

\* Mutant: the connection is not counted off.
CloseUncounted(i) ==
    /\ conns' = [conns EXCEPT ![i] = Free]
    /\ link' = [link EXCEPT ![conns[i].peer] = "cut"]
    /\ UNCHANGED num_conns

CloseConnection(i) ==
    /\ conns' = [conns EXCEPT ![i] = Free]
    /\ link' = [link EXCEPT ![conns[i].peer] = "cut"]
    /\ num_conns' = num_conns - 1

\* The next ready connection, after accept and in the order of the slots.
HandleConnection(i) ==
    LET c == conns[i].peer
    IN  /\ srv = "running" /\ i \in ready \ {0} /\ \A j \in ready : i <= j
        /\ \E n \in Received(toServer[c], conns[i].buf) :
             LET b == conns[i].buf \o Front(toServer[c], n)
             IN  /\ toServer' = [toServer EXCEPT ![c] = Rest(@, n)]
                 /\ \/ /\ n = 0            \* peer gone, or the buffer is full
                       /\ CloseConnection(i)
                       /\ ready' = ready \ {i}
                       /\ UNCHANGED <<srv, pending, toClient, handled>>
                    \/ /\ n > 0
                       /\ conns' = [conns EXCEPT ![i].buf = b]
                       /\ UNCHANGED num_conns
                       /\ \/ /\ ~ParsesOK(b)
                             /\ ready' = ready \ {i}
                             /\ UNCHANGED <<srv, link, pending, toClient, handled>>
                          \/ /\ ParsesOK(b)
                             /\ handled' = [handled EXCEPT ![c] = Append(@, Parsed(b))]
                             /\ SendResponse(i, c, Parsed(b))
        /\ UNCHANGED <<listen, clients, calls, answers, done>>

\* The socket is made, and then bind fails, or listen does, which closes it
\* again, or neither.  (An open that fails earlier leaves socket at -1; without
\* a name to resolve it frees a list it does not have.)  After any of these,
\* open returns OK and does nothing, and update of a socket that does not listen
\* only logs that accept fails.
OpenServer ==
    /\ srv = "running" /\ listen = "none"
    /\ listen' \in {"open", "unbound", "closed"}
    /\ UNCHANGED <<srv, conns, num_conns, ready, clients, network, history>>

\* Between two updates the application may close the server.  It cannot open
\* it again: socket is not -1, so open returns OK and does nothing.
CloseServer ==
    /\ srv = "running" /\ listen \in {"open", "unbound"} /\ ready = {}
    /\ listen' = "closed"
    /\ conns' = [i \in Slot |-> Free]
    /\ num_conns' = num_conns - Cardinality(InUse)
    /\ pending' = << >>
    /\ link' = [c \in Client |-> IF link[c] = "none" THEN "none" ELSE "cut"]
    /\ UNCHANGED <<srv, ready, clients, toServer, toClient, history>>

-----------------------------------------------------------------------------
(* A client.  Close leaves socket at a number that is not -1, and so does  *)
(* a connect that failed: open never tries again.                          *)

Open(c) ==
    /\ cli[c] = "running" /\ sock[c] = "none"
    /\ \/ /\ srv = "running" /\ listen = "open" /\ Len(pending) < Backlog
          /\ sock' = [sock EXCEPT ![c] = "open"]
          /\ link' = [link EXCEPT ![c] = "pending"]
          /\ pending' = Append(pending, c)
       \/ /\ ~(srv = "running" /\ listen = "open" /\ Len(pending) < Backlog)
          /\ sock' = [sock EXCEPT ![c] = "unconnected"]
          /\ UNCHANGED <<link, pending>>
    /\ UNCHANGED <<server, cli, buf, last, toServer, toClient, history>>

\* lwpb_client_call, with a request handler that succeeds.
Call(c) ==
    /\ cli[c] = "running" /\ calls[c] + done[c] < MaxCalls[c]
    /\ \/ /\ sock[c] = "none"                      \* LWPB_RPC_NOT_CONNECTED
          /\ done' = [done EXCEPT ![c] = @ + 1]
          /\ UNCHANGED <<cli, last, toServer, calls>>
       \/ /\ sock[c] # "none"
          /\ calls' = [calls EXCEPT ![c] = @ + 1]
          /\ last' = [last EXCEPT ![c] = calls'[c]]
          /\ LET up == sock[c] = "open" /\ link[c] # "cut"
             IN  /\ toServer' = [toServer EXCEPT ![c] =
                                    IF up THEN @ \o Message("req", calls'[c]) ELSE @]
                 /\ \/ UNCHANGED cli
                    \/ /\ ~up /\ sock[c] # "closed"
                       /\ cli' = [cli EXCEPT ![c] = "killed"]
          /\ UNCHANGED done
    /\ UNCHANGED <<server, sock, buf, link, pending, toClient, handled, answers>>

\* A message in the client's buffer goes to the response handler as the
\* response of the last call.
HandleResponse(c, b) ==
    answers' = IF ParsesOK(b)
               THEN [answers EXCEPT ![c] = Append(@, <<last[c], Parsed(b)>>)]
               ELSE answers

\* update: nothing readable is a timeout; a connection that was not made, or
\* was closed, and a peer that closed it make the process abort.
Update(c) ==
    /\ cli[c] = "running" /\ sock[c] # "none"
    /\ \/ /\ \/ sock[c] # "open"
             \/ toClient[c] # << >> /\ 0 \in Received(toClient[c], buf[c])
             \/ toClient[c] = << >> /\ link[c] = "cut"
          /\ cli' = [cli EXCEPT ![c] = "aborted"]
          /\ UNCHANGED <<buf, toClient, answers>>
       \/ /\ sock[c] = "open" /\ toClient[c] # << >>
          /\ \E n \in Received(toClient[c], buf[c]) \ {0} :
                /\ toClient' = [toClient EXCEPT ![c] = Rest(@, n)]
                /\ buf' = [buf EXCEPT ![c] = @ \o Front(toClient[c], n)]
                /\ HandleResponse(c, buf'[c])
          /\ UNCHANGED cli
    /\ UNCHANGED <<server, sock, last, link, pending, toServer, calls, handled, done>>

\* The receive buffer is freed; a second close frees it again.
Close(c) ==
    /\ cli[c] = "running" /\ sock[c] # "none"
    /\ \/ /\ sock[c] # "closed"
          /\ sock' = [sock EXCEPT ![c] = "closed"]
          /\ UNCHANGED cli
       \/ /\ sock[c] = "closed"
          /\ cli' = [cli EXCEPT ![c] = "undefined"]
          /\ UNCHANGED sock
    /\ UNCHANGED <<server, buf, last, network, history>>

-----------------------------------------------------------------------------

ServerUpdate == \/ Select \/ UpdateClosedServer \/ HandleNewConnection
                \/ \E i \in Slot : HandleConnection(i)

Next == \/ ServerUpdate \/ OpenServer \/ CloseServer
        \/ \E c \in Client : Open(c) \/ Call(c) \/ Update(c) \/ Close(c)

\* Update "needs to be called periodically", by the server's application and
\* by each client's.  Nobody has to open, call or close.
Fairness == WF_vars(ServerUpdate) /\ \A c \in Client : WF_vars(Update(c))

Spec == Init /\ [][Next]_vars /\ Fairness

-----------------------------------------------------------------------------
(* Properties. *)

Cells(kind, c) == {<<kind, k, i>> : k \in 1..MaxCalls[c], i \in 1..MsgCells}
Process == {"running", "aborted", "killed", "undefined"}

\* Every variable has its type; no buffer holds more than it has room for.
TypeOK ==
    /\ srv \in Process /\ listen \in {"none", "open", "unbound", "closed"}
    /\ \A i \in Slot : /\ conns[i].peer \in Client \cup {NoClient}
                       /\ conns[i].fd \in 0..NumConns
                       /\ conns[i].buf \in Seq(UNION {Cells("req", c) : c \in Client})
                       /\ Len(conns[i].buf) <= BufCells
    /\ num_conns \in 0..NumConns
    /\ ready \subseteq 0..NumConns
    /\ \A c \in Client :
          /\ cli[c] \in Process
          /\ sock[c] \in {"none", "open", "unconnected", "closed"}
          /\ buf[c] \in Seq(Cells("res", c) \cup {Text[1]}) /\ Len(buf[c]) <= BufCells
          /\ link[c] \in {"none", "pending", "up", "cut"}
          /\ toServer[c] \in Seq(Cells("req", c))
          /\ toClient[c] \in Seq(Cells("res", c) \cup {Text[1]})
          /\ calls[c] \in 0..MaxCalls[c] /\ last[c] = calls[c]
          /\ calls[c] + done[c] <= MaxCalls[c]

\* The slots are the accepted connections, one slot each, and num_conns counts
\* them, through every accept, disconnect and close (handle_new_connection,
\* close_connection).
SlotsAreConnections ==
    srv = "running" =>
        /\ \A c \in Client : link[c] = "up" <=> \E i \in InUse : conns[i].peer = c
        /\ \A i, j \in InUse : conns[i].peer = conns[j].peer => i = j
        /\ num_conns = Cardinality(InUse)

\* select is told of the last slot's descriptor as the highest.  As long as
\* nobody else in the process opens or closes descriptors, the slots stay in
\* the order of their descriptors, and no connection is left out.
SelectSeesAll == \A i \in InUse : conns[i].fd <= High

\* The cells of the messages of kind "req" or "res" of the calls c has made.
Sent(kind, c) == {<<kind, k, i>> : k \in 1..calls[c], i \in 1..MsgCells}
ResponseCells(c) == Sent("res", c) \cup {Text[1]}

Cell == {"req", "res", "text"} \X Nat \X Nat

\* Behind TypeOK: what holds of each variable alone.
TypesInv ==
    /\ srv \in Process /\ listen \in {"none", "open", "unbound", "closed"}
    /\ conns \in [Slot -> [peer : Client \cup {NoClient}, fd : 0..NumConns,
                           buf : Seq(Cell)]]
    /\ ready \subseteq 0..NumConns
    /\ cli \in [Client -> Process]
    /\ sock \in [Client -> {"none", "open", "unconnected", "closed"}]
    /\ link \in [Client -> {"none", "pending", "up", "cut"}]
    /\ pending \in Seq(Client)
    /\ calls \in [Client -> Nat] /\ done \in [Client -> Nat] /\ last = calls
    /\ buf \in [Client -> Seq(Cell)]
    /\ toServer \in [Client -> Seq(Cell)] /\ toClient \in [Client -> Seq(Cell)]

\* A client's cells are those of its own calls, also in its connection's slot.
SlotCells(i) ==
    /\ Len(conns[i].buf) <= BufCells
    /\ conns[i].peer = NoClient => conns[i].buf = << >>
    /\ conns[i].peer # NoClient => conns[i].buf \in Seq(Sent("req", conns[i].peer))

ClientCells(c) ==
    /\ buf[c] \in Seq(ResponseCells(c)) /\ Len(buf[c]) <= BufCells
    /\ toServer[c] \in Seq(Sent("req", c))
    /\ toClient[c] \in Seq(ResponseCells(c))
    /\ calls[c] + done[c] <= MaxCalls[c]

CellsInv == (\A i \in Slot : SlotCells(i)) /\ (\A c \in Client : ClientCells(c))

\* Behind SelectSeesAll: descriptors are slots.
FdIsSlot == \A i \in InUse : conns[i].fd = i

\* Behind SlotsAreConnections: who waits for accept is in no slot, and waits
\* once; what select reported is still there when update comes to it.
SlotsInv ==
    /\ srv = "running" =>
          \A c \in Client : link[c] = "up" <=> \E i \in InUse : conns[i].peer = c
    /\ \A i, j \in InUse : conns[i].peer = conns[j].peer => i = j
    /\ num_conns = Cardinality(InUse)
    /\ srv = "running" => \A k \in DOMAIN pending : link[pending[k]] = "pending"
    /\ \A k, l \in DOMAIN pending : pending[k] = pending[l] => k = l
    /\ \A c \in Client : sock[c] = "none" => link[c] = "none"
    /\ ready \ {0} \subseteq InUse /\ (0 \in ready => pending # << >>)

ServerInv == TypesInv /\ CellsInv /\ FdIsSlot /\ SlotsInv

\* Behind ImplementsCall: where the cells of the only call of c can be.  The
\* request is on its way, then handled, and nothing is left of it;
Requested(c) ==
    /\ handled[c] \in {<< >>, <<1>>}
    /\ calls[c] = 0 => handled[c] = << >> /\ toServer[c] = << >>
    /\ link[c] \in {"none", "pending"} => handled[c] = << >>
    /\ Len(toServer[c]) <= MsgCells
    /\ handled[c] = <<1>> => toServer[c] = << >>

\* in its slot is what has arrived of it;
Arrived(c, i) ==
    /\ calls[c] = 0 => conns[i].buf = << >>
    /\ Len(conns[i].buf) + Len(toServer[c]) <= MsgCells
    /\ handled[c] = << >> => Len(conns[i].buf) < MsgCells

\* before it is handled c hears at most that it is refused, and afterwards gets
\* the cells of one response.
FirstResponse == {<<"res", 1, i>> : i \in 1..MsgCells}

Refused(c) ==
    /\ answers[c] = << >>
    /\ buf[c] \in Seq({Text[1]}) /\ toClient[c] \in Seq({Text[1]})
    /\ link[c] # "cut" => buf[c] = << >> /\ toClient[c] = << >>

Responded(c) ==
    /\ answers[c] \in {<< >>, << <<1, 1>> >>}
    /\ buf[c] \in Seq(FirstResponse) /\ toClient[c] \in Seq(FirstResponse)
    /\ Len(buf[c]) + Len(toClient[c]) <= MsgCells
    /\ answers[c] = << >> => Len(buf[c]) < MsgCells
    /\ answers[c] # << >> => toClient[c] = << >>

FirstCall(c) ==
    /\ Requested(c)
    /\ \A i \in Slot : conns[i].peer = c => Arrived(c, i)
    /\ handled[c] = << >> => Refused(c)
    /\ handled[c] = <<1>> => Responded(c)

CallInv ==
    /\ handled \in [Client -> Seq(Nat)] /\ answers \in [Client -> Seq(Nat \X Nat)]
    /\ \A c \in Client : calls[c] <= 1 => FirstCall(c)

\* How far the first call of a client has got; after a second call anything.
Phase(c) ==
    CASE calls[c] > 1 -> "over"
      [] calls[c] = 0 /\ handled[c] = << >> /\ answers[c] = << >> -> "idle"
      [] calls[c] = 1 /\ handled[c] = << >> /\ answers[c] = << >> -> "asked"
      [] calls[c] = 1 /\ handled[c] = <<1>> /\ answers[c] = << >> -> "executed"
      [] calls[c] = 1 /\ handled[c] = <<1>> /\ answers[c] = << <<1, 1>> >> -> "answered"
      [] OTHER -> "wrong"

Promise == INSTANCE RpcCall WITH phase <- [c \in Client |-> Phase(c)]

\* However a request and its response are cut up on the way, the first call on
\* a connection is handled at most once and answered at most once, in order.
ImplementsCall == Promise!RSpec

\* A call is answered, unless a second call follows it, or the server is
\* closed or gone, or the connection was refused or closed.
CallAnswered ==
    \A c \in {d \in Client : MaxCalls[d] > 0} :
        calls[c] = 1 ~> \/ answers[c] # << >> \/ calls[c] > 1
                        \/ srv # "running" \/ listen # "open"
                        \/ PeerGone(c)

\* The slots of connections whose peer has closed them, or has ended, are freed
\* once what it sent has been handled: no slot is lost to a dead connection.
\* (A client connects once: in the end no slot becomes dead any more.)
DeadSlots == {i \in InUse : link[conns[i].peer] = "up" /\ PeerGone(conns[i].peer)}
SlotFreed == DeadSlots # {} ~> DeadSlots = {}

\* "This handler is called when the execution of an RPC call is done"
\* (client.h:60): once the response was handled the call is done, unless the
\* client does something else meanwhile.
DoneCalled ==
    \A c \in Client :
        answers[c] # << >> ~> done[c] > 0 \/ calls[c] > 1 \/ PeerGone(c)

\* "This handler is called when the server needs to process an RPC call"
\* (server.h:30): once for each request, in the order of the requests.
HandledOnce ==
    \A c \in Client :
        /\ Len(handled[c]) <= calls[c]
        /\ \A k \in DOMAIN handled[c] : handled[c][k] = k
=============================================================================
