-------------------------- MODULE SocketRpc_proofs --------------------------
(***************************************************************************)
(* Proofs about SocketRpc, for any number of clients, slots and calls and  *)
(* any length of message: the types, that the slots are the accepted       *)
(* connections, that select is told of all of them, and that the transport *)
(* implements RpcCall.                                                     *)
(***************************************************************************)
EXTENDS SocketRpc, Foundations, FiniteSetTheorems, SequenceTheorems

LEMMA Constants ==
    /\ NoClient \notin Client
    /\ NumConns \in Nat /\ NumConns > 0 /\ Slot \subseteq Nat /\ 0 \notin Slot
    /\ MsgCells \in Nat /\ MsgCells > 0 /\ BufCells \in Nat /\ MsgCells <= BufCells
    /\ MaxCalls \in [Client -> Nat]
  BY SocketAssumption DEF Slot

-----------------------------------------------------------------------------
(* Cells. *)

\* What is left of a sequence of cells, and what recv took of it.
LEMMA RestCells ==
    ASSUME NEW S, NEW q \in Seq(S), NEW n \in 0..Len(q)
    PROVE  /\ Rest(q, n) \in Seq(S) /\ Len(Rest(q, n)) = Len(q) - n
           /\ Front(q, n) \in Seq(S) /\ Len(Front(q, n)) = n
  <1>1. Len(q) \in Nat /\ \A i \in 1..Len(q) : q[i] \in S
    BY ElementOfSeq
  <1>2. /\ SubSeq(q, n + 1, Len(q)) \in Seq(S)
        /\ Len(SubSeq(q, n + 1, Len(q))) = IF n + 1 <= Len(q) THEN Len(q) - (n + 1) + 1
                                                              ELSE 0
    <2>1. n + 1 \in Int /\ Len(q) \in Int /\ \A i \in (n + 1)..Len(q) : q[i] \in S
      BY <1>1
    <2>2. QED
      BY <2>1, SubSeqProperties
  <1>3. /\ SubSeq(q, 1, n) \in Seq(S)
        /\ Len(SubSeq(q, 1, n)) = IF 1 <= n THEN n - 1 + 1 ELSE 0
    <2>1. 1 \in Int /\ n \in Int /\ \A i \in 1..n : q[i] \in S
      BY <1>1
    <2>2. QED
      BY <2>1, SubSeqProperties
  <1>4. QED
    BY <1>1, <1>2, <1>3 DEF Rest, Front

\* recv gets no more than there is, and no more than there is room for.
LEMMA ReceivedBounds ==
    ASSUME NEW S, NEW T, NEW q \in Seq(S), NEW b \in Seq(T), Len(b) <= BufCells,
           NEW n \in Received(q, b)
    PROVE  n \in 0..Len(q) /\ Len(b) + n <= BufCells
  <1>1. Len(q) \in Nat /\ Len(b) \in Nat /\ BufCells \in Nat
        /\ (Len(q) = 0 <=> q = << >>)
    BY Constants, EmptySeq
  <1>2. QED
    BY <1>1 DEF Received

LEMMA SentAreCells ==
    ASSUME NEW c \in Client, calls[c] \in Nat
    PROVE  /\ Sent("req", c) \subseteq Cell /\ Sent("res", c) \subseteq Cell
           /\ ResponseCells(c) \subseteq Cell
  <1>1. \A kind \in {"req", "res"} : Sent(kind, c) \subseteq Cell
    BY Constants DEF Sent, Cell
  <1>2. Text[1] \in Cell
    BY DEF Text, Cell
  <1>3. QED
    BY <1>1, <1>2 DEF ResponseCells

LEMMA MessageCells ==
    ASSUME NEW c \in Client, calls[c] \in Nat, NEW k \in 1..calls[c],
           NEW kind \in {"req", "res"}
    PROVE  Message(kind, k) \in Seq(Sent(kind, c)) /\ Len(Message(kind, k)) = MsgCells
  <1>1. \A i \in 1..MsgCells : <<kind, k, i>> \in Sent(kind, c)
    BY DEF Sent
  <1>2. Message(kind, k) \in [1..MsgCells -> Sent(kind, c)]
    BY <1>1 DEF Message
  <1>3. MsgCells \in Nat
    BY Constants
  <1>4. QED
    BY <1>2, <1>3, SeqDef

\* The request in a buffer is one the client has sent.
LEMMA ParsedIsSent ==
    ASSUME NEW c \in Client, calls[c] \in Nat, NEW b \in Seq(Sent("req", c)), ParsesOK(b)
    PROVE  Parsed(b) \in 1..calls[c]
  <1>1. Len(b) \in Nat /\ Len(b) >= 1
    BY Constants DEF ParsesOK
  <1>2. b[1] \in Sent("req", c)
    BY <1>1, ElementOfSeq
  <1>3. PICK k \in 1..calls[c], i \in 1..MsgCells : b[1] = <<"req", k, i>>
    BY <1>2, SMTT(30) DEF Sent
  <1>4. QED
    BY <1>3 DEF Parsed

\* A client's calls only grow, and with them the cells it may have sent.
LEMMA SentGrows ==
    ASSUME NEW c \in Client, calls[c] \in Nat, calls'[c] \in Nat, calls[c] <= calls'[c]
    PROVE  /\ \A q \in Seq(Sent("req", c)) : q \in Seq(Sent("req", c)')
           /\ \A q \in Seq(ResponseCells(c)) : q \in Seq(ResponseCells(c)')
  <1>1. \A k \in 1..calls[c] : k \in 1..calls'[c]
    OBVIOUS
  <1>2. Sent("req", c) \subseteq Sent("req", c)'
    BY <1>1 DEF Sent
  <1>3. Sent("res", c) \subseteq Sent("res", c)'
    BY <1>1 DEF Sent
  <1>4. ResponseCells(c) \subseteq ResponseCells(c)'
    BY <1>3 DEF ResponseCells, Text
  <1>5. QED
    BY <1>2, <1>4, SeqMonotonic

-----------------------------------------------------------------------------
(* Slots and descriptors. *)

LEMMA InUseFinite ==
    InUse \subseteq Slot /\ IsFiniteSet(InUse) /\ Cardinality(InUse) \in 0..NumConns
  <1>1. InUse \in SUBSET Slot
    BY DEF InUse
  <1>2. IsFiniteSet(1..NumConns) /\ Cardinality(1..NumConns) = NumConns
    <2>1. 1 \in Int /\ NumConns \in Int /\ NumConns >= 1
      BY Constants
    <2>2. IsFiniteSet(1..NumConns)
          /\ Cardinality(1..NumConns) = IF 1 > NumConns THEN 0 ELSE NumConns - 1 + 1
      BY <2>1, FS_Interval
    <2>3. QED
      BY <2>1, <2>2
  <1>3. IsFiniteSet(InUse) /\ Cardinality(InUse) <= Cardinality(1..NumConns)
    BY <1>1, <1>2, FS_Subset DEF Slot
  <1>4. Cardinality(InUse) \in Nat
    BY <1>3, FS_CardinalityType
  <1>5. QED
    BY <1>1, <1>2, <1>3, <1>4, Constants

LEMMA FirstFreeIsLeast ==
    ASSUME InUse # Slot
    PROVE  /\ FirstFree \in Slot \ InUse
           /\ \A j \in Slot \ InUse : FirstFree <= j
  <1>1. Slot \ InUse \subseteq Nat /\ Slot \ InUse # {}
    BY InUseFinite, Constants
  <1>2. \E i \in Slot \ InUse : \A j \in Slot \ InUse : i <= j
    BY <1>1, LeastElement
  <1>3. QED
    BY <1>2 DEF FirstFree

\* As long as descriptors are slots, the kernel's lowest free descriptor is the
\* first free slot.
LEMMA LowestFdIsFirstFree ==
    ASSUME InUse # Slot, FdIsSlot
    PROVE  LowestFd = FirstFree
  <1> DEFINE IsLowest(n) == /\ \A i \in InUse : conns[i].fd # n
                            /\ \A m \in 1..(n - 1) : \E i \in InUse : conns[i].fd = m
  <1>1. /\ FirstFree \in Slot /\ FirstFree \notin InUse
        /\ \A j \in Slot \ InUse : FirstFree <= j
    BY FirstFreeIsLeast
  <1>2. \A n \in 1..(NumConns + 1) :
            IsLowest(n) <=> n \notin InUse /\ \A m \in 1..(n - 1) : m \in InUse
    BY DEF FdIsSlot
  <1>3. FirstFree \in 1..(NumConns + 1)
    BY <1>1, Constants DEF Slot
  <1>4. \A m \in 1..(FirstFree - 1) : m \in InUse
    BY <1>1, Constants DEF Slot
  <1>5. IsLowest(FirstFree)
    BY <1>1, <1>2, <1>3, <1>4
  <1>6. ASSUME NEW n \in 1..(NumConns + 1), IsLowest(n)
        PROVE  n = FirstFree
    <2>1. n \notin InUse /\ \A m \in 1..(n - 1) : m \in InUse
      BY <1>2, <1>6
    <2>2. ~(FirstFree < n)
      <3>1. FirstFree < n => FirstFree \in 1..(n - 1)
        BY <1>3
      <3>2. QED
        BY <1>1, <2>1, <3>1
    <2>3. ~(n < FirstFree)
      <3>1. n < FirstFree => n \in 1..(FirstFree - 1)
        BY <1>3
      <3>2. QED
        BY <1>4, <2>1, <3>1
    <2>4. QED
      BY <1>3, <2>2, <2>3
  <1> HIDE DEF IsLowest
  <1>7. LowestFd = CHOOSE n \in 1..(NumConns + 1) : IsLowest(n)
    BY DEF LowestFd, IsLowest
  <1>8. QED
    BY <1>3, <1>5, <1>6, <1>7

\* The descriptor select is told of is the greatest slot in use.
LEMMA HighIsGreatest ==
    ASSUME FdIsSlot
    PROVE  SelectSeesAll
  <1>1. CASE InUse = {}
    BY <1>1 DEF SelectSeesAll
  <1>2. CASE InUse # {}
    <2>1. \E i \in InUse : \A j \in InUse : j <= i
      BY <1>2, InUseFinite, Constants, GreatestElement DEF Slot
    <2> DEFINE g == CHOOSE i \in InUse : \A j \in InUse : j <= i
    <2>2. g \in InUse /\ \A j \in InUse : j <= g
      BY <2>1
    <2>3. High = conns[g].fd
      BY <1>2 DEF High
    <2> HIDE DEF g
    <2>4. QED
      BY <2>2, <2>3 DEF SelectSeesAll, FdIsSlot
  <1>3. QED
    BY <1>1, <1>2

-----------------------------------------------------------------------------
(* How the slots in use change. *)

LEMMA SlotTaken ==
    ASSUME TypesInv, FdIsSlot, InUse # Slot, NEW c \in Client,
           conns' = [conns EXCEPT ![FirstFree] =
                        [peer |-> c, fd |-> LowestFd, buf |-> << >>]]
    PROVE  /\ conns' \in [Slot -> [peer : Client \cup {NoClient}, fd : 0..NumConns,
                                   buf : Seq(Cell)]]
           /\ InUse' = InUse \cup {FirstFree} /\ FirstFree \in Slot \ InUse
           /\ \A j \in Slot : j # FirstFree => conns'[j] = conns[j]
           /\ conns'[FirstFree] = [peer |-> c, fd |-> FirstFree, buf |-> << >>]
  <1>1. FirstFree \in Slot /\ FirstFree \notin InUse /\ LowestFd = FirstFree
    BY FirstFreeIsLeast, LowestFdIsFirstFree
  <1>2. conns \in [Slot -> [peer : Client \cup {NoClient}, fd : 0..NumConns,
                            buf : Seq(Cell)]]
    BY DEF TypesInv
  <1>3. [peer |-> c, fd |-> FirstFree, buf |-> << >>]
            \in [peer : Client \cup {NoClient}, fd : 0..NumConns, buf : Seq(Cell)]
    BY <1>1, EmptySeq, Constants DEF Slot
  <1>4. conns'[FirstFree] = [peer |-> c, fd |-> FirstFree, buf |-> << >>]
        /\ \A j \in Slot : j # FirstFree => conns'[j] = conns[j]
    BY <1>1, <1>2
  <1>5. c # NoClient
    BY Constants
  <1>6. InUse' = InUse \cup {FirstFree}
    BY <1>1, <1>4, <1>5 DEF InUse
  <1>7. conns' \in [Slot -> [peer : Client \cup {NoClient}, fd : 0..NumConns,
                             buf : Seq(Cell)]]
    BY <1>1, <1>2, <1>3
  <1>8. QED
    BY <1>1, <1>4, <1>6, <1>7

LEMMA SlotCleared ==
    ASSUME TypesInv, NEW i \in InUse, conns' = [conns EXCEPT ![i] = Free]
    PROVE  /\ conns' \in [Slot -> [peer : Client \cup {NoClient}, fd : 0..NumConns,
                                   buf : Seq(Cell)]]
           /\ InUse' = InUse \ {i}
           /\ \A j \in Slot : j # i => conns'[j] = conns[j]
           /\ conns'[i] = Free
  <1>1. i \in Slot
    BY DEF InUse
  <1>2. conns \in [Slot -> [peer : Client \cup {NoClient}, fd : 0..NumConns,
                            buf : Seq(Cell)]]
    BY DEF TypesInv
  <1>3. Free \in [peer : Client \cup {NoClient}, fd : 0..NumConns, buf : Seq(Cell)]
    BY EmptySeq, Constants DEF Free
  <1>4. conns'[i] = Free /\ \A j \in Slot : j # i => conns'[j] = conns[j]
    BY <1>1, <1>2
  <1>5. Free.peer = NoClient
    BY DEF Free
  <1>6. InUse' = InUse \ {i}
    BY <1>1, <1>4, <1>5 DEF InUse
  <1>7. conns' \in [Slot -> [peer : Client \cup {NoClient}, fd : 0..NumConns,
                             buf : Seq(Cell)]]
    BY <1>1, <1>2, <1>3
  <1>8. QED
    BY <1>4, <1>6, <1>7

LEMMA SlotFilled ==
    ASSUME TypesInv, NEW i \in InUse, NEW b \in Seq(Cell),
           conns' = [conns EXCEPT ![i].buf = b]
    PROVE  /\ conns' \in [Slot -> [peer : Client \cup {NoClient}, fd : 0..NumConns,
                                   buf : Seq(Cell)]]
           /\ InUse' = InUse
           /\ \A j \in Slot : conns'[j].peer = conns[j].peer /\ conns'[j].fd = conns[j].fd
           /\ \A j \in Slot : j # i => conns'[j].buf = conns[j].buf
           /\ conns'[i].buf = b
  <1>1. i \in Slot
    BY DEF InUse
  <1>2. conns \in [Slot -> [peer : Client \cup {NoClient}, fd : 0..NumConns,
                            buf : Seq(Cell)]]
    BY DEF TypesInv
  <1>3. \A j \in Slot : conns'[j].peer = conns[j].peer /\ conns'[j].fd = conns[j].fd
    BY <1>1, <1>2
  <1>4. conns'[i].buf = b /\ \A j \in Slot : j # i => conns'[j].buf = conns[j].buf
    BY <1>1, <1>2
  <1>5. conns' \in [Slot -> [peer : Client \cup {NoClient}, fd : 0..NumConns,
                             buf : Seq(Cell)]]
    BY <1>1, <1>2
  <1>6. InUse' = InUse
    BY <1>3 DEF InUse
  <1>7. QED
    BY <1>3, <1>4, <1>5, <1>6

LEMMA SlotsKept ==
    ASSUME conns' = conns
    PROVE  InUse' = InUse /\ (FdIsSlot => FdIsSlot')
  BY DEF InUse, FdIsSlot

\* The cells of the requests up to the n-th.
Requests(n) == {<<"req", k, i>> : k \in 1..n, i \in 1..MsgCells}

LEMMA RequestsGrow ==
    ASSUME NEW m \in Nat, NEW n \in Nat, m <= n
    PROVE  \A q \in Seq(Requests(m)) : q \in Seq(Requests(n))
  <1>1. \A k \in 1..m : k \in 1..n
    OBVIOUS
  <1>2. Requests(m) \subseteq Requests(n)
    BY <1>1 DEF Requests
  <1>3. QED
    BY <1>2, SeqMonotonic

LEMMA SlotCellsKept ==
    ASSUME TypesInv, NEW i \in Slot, SlotCells(i), conns'[i] = conns[i],
           calls' \in [Client -> Nat], \A c \in Client : calls[c] <= calls'[c]
    PROVE  SlotCells(i)'
  <1> DEFINE p == conns[i].peer
  <1>1. p \in Client \cup {NoClient} /\ calls \in [Client -> Nat]
    BY DEF TypesInv
  <1>2. ASSUME p # NoClient
        PROVE  conns'[i].buf \in Seq(Requests(calls'[p]))
    <2>1. conns[i].buf \in Seq(Requests(calls[p]))
      BY <1>2 DEF SlotCells, Sent, Requests
    <2>2. calls[p] \in Nat /\ calls'[p] \in Nat /\ calls[p] <= calls'[p]
      BY <1>1, <1>2
    <2>3. conns[i].buf \in Seq(Requests(calls'[p]))
      BY <2>1, <2>2, RequestsGrow
    <2>4. QED
      BY <2>3
  <1>3. QED
    BY <1>2 DEF SlotCells, Sent, Requests

LEMMA ClientCellsKept ==
    ASSUME NEW c \in Client, ClientCells(c), calls'[c] = calls[c], done'[c] = done[c],
           buf'[c] = buf[c], toServer'[c] = toServer[c], toClient'[c] = toClient[c]
    PROVE  ClientCells(c)'
  BY DEF ClientCells, Sent, ResponseCells, Text

LEMMA CellsKept ==
    ASSUME TypesInv, CellsInv,
           UNCHANGED <<conns, calls, done, buf, toServer, toClient>>
    PROVE  CellsInv'
  <1>1. calls' \in [Client -> Nat] /\ \A c \in Client : calls[c] <= calls'[c]
    BY DEF TypesInv
  <1>2. \A i \in Slot : SlotCells(i)'
    BY <1>1, SlotCellsKept DEF CellsInv
  <1>3. \A c \in Client : ClientCells(c)'
    BY ClientCellsKept DEF CellsInv
  <1>4. QED
    BY <1>2, <1>3 DEF CellsInv

-----------------------------------------------------------------------------
(* ServerInv is inductive. *)

LEMMA ServerInvInit == Init => ServerInv
  <1> SUFFICES ASSUME Init PROVE ServerInv
    OBVIOUS
  <1>1. InUse = {}
    BY DEF Init, InUse, Free
  <1>2. << >> \in Seq(Cell) /\ << >> \in Seq(Client) /\ Len(<< >>) = 0
    BY EmptySeq
  <1>3. Free \in [peer : Client \cup {NoClient}, fd : 0..NumConns, buf : Seq(Cell)]
    BY <1>2, Constants DEF Free
  <1>4. TypesInv
    BY <1>2, <1>3 DEF Init, TypesInv, Process
  <1>5. CellsInv
    <2>1. \A i \in Slot : SlotCells(i)
      BY <1>2, Constants DEF Init, SlotCells, Free
    <2>2. ASSUME NEW c \in Client PROVE ClientCells(c)
      <3>1. << >> \in Seq(Sent("req", c)) /\ << >> \in Seq(ResponseCells(c))
        BY EmptySeq
      <3>2. MaxCalls[c] \in Nat
        BY Constants
      <3>3. QED
        BY <1>2, <3>1, <3>2, Constants DEF Init, ClientCells
    <2>3. QED
      BY <2>1, <2>2 DEF CellsInv
  <1>6. FdIsSlot
    BY <1>1 DEF FdIsSlot
  <1>7. SlotsInv
    BY <1>1, FS_EmptySet DEF Init, SlotsInv
  <1>8. QED
    BY <1>4, <1>5, <1>6, <1>7 DEF ServerInv

\* A step that only moves the server's process, socket or ready set.
LEMMA SelectStep == ServerInv /\ Select => ServerInv'
  <1> SUFFICES ASSUME ServerInv, Select PROVE ServerInv'
    OBVIOUS
  <1> USE DEF ServerInv
  <1>1. InUse' = InUse /\ FdIsSlot'
    BY SlotsKept DEF Select
  <1>2. CellsInv'
    BY CellsKept DEF Select, clients, network, history
  <1>3. ready' \subseteq InUse \cup {0} /\ (0 \in ready' => pending # << >>)
    BY Constants DEF Select, InUse
  <1>4. TypesInv'
    <2>1. ready' \subseteq 0..NumConns
      BY <1>3, Constants DEF InUse, Slot
    <2>2. QED
      BY <2>1 DEF Select, TypesInv, clients, network, history
  <1>5. SlotsInv'
    BY <1>1, <1>3 DEF Select, SlotsInv, clients, network, history
  <1>6. QED
    BY <1>1, <1>2, <1>4, <1>5

LEMMA UpdateClosedServerStep == ServerInv /\ UpdateClosedServer => ServerInv'
  <1> SUFFICES ASSUME ServerInv, UpdateClosedServer PROVE ServerInv'
    OBVIOUS
  <1> USE DEF ServerInv
  <1>1. InUse' = InUse /\ FdIsSlot'
    BY SlotsKept DEF UpdateClosedServer
  <1>2. CellsInv'
    BY CellsKept DEF UpdateClosedServer, clients, history
  <1>3. TypesInv'
    BY EmptySeq DEF UpdateClosedServer, ServerDies, TypesInv, clients, history, Process
  <1>4. SlotsInv'
    BY <1>1 DEF UpdateClosedServer, ServerDies, SlotsInv, TypesInv, clients, history
  <1>5. QED
    BY <1>1, <1>2, <1>3, <1>4

LEMMA OpenServerStep == ServerInv /\ OpenServer => ServerInv'
  <1> SUFFICES ASSUME ServerInv, OpenServer PROVE ServerInv'
    OBVIOUS
  <1> USE DEF ServerInv
  <1>1. InUse' = InUse /\ FdIsSlot'
    BY SlotsKept DEF OpenServer
  <1>2. CellsInv'
    BY CellsKept DEF OpenServer, clients, network, history
  <1>3. TypesInv'
    BY DEF OpenServer, TypesInv, clients, network, history
  <1>4. SlotsInv'
    BY <1>1 DEF OpenServer, SlotsInv, clients, network, history
  <1>5. QED
    BY <1>1, <1>2, <1>3, <1>4

LEMMA StutterStep == ServerInv /\ UNCHANGED vars => ServerInv'
  <1> SUFFICES ASSUME ServerInv, UNCHANGED vars PROVE ServerInv'
    OBVIOUS
  <1> USE DEF ServerInv, vars, server, clients, network, history
  <1>1. InUse' = InUse /\ FdIsSlot'
    BY SlotsKept
  <1>2. CellsInv'
    BY CellsKept
  <1>3. TypesInv'
    BY DEF TypesInv
  <1>4. SlotsInv'
    BY <1>1 DEF SlotsInv
  <1>5. QED
    BY <1>1, <1>2, <1>3, <1>4

LEMMA HandleNewConnectionStep == ServerInv /\ HandleNewConnection => ServerInv'
  <1> SUFFICES ASSUME ServerInv, HandleNewConnection PROVE ServerInv'
    OBVIOUS
  <1> USE DEF ServerInv
  <1> DEFINE c == Head(pending)
  <1>1. pending \in Seq(Client) /\ pending # << >> /\ srv = "running"
    BY DEF HandleNewConnection, TypesInv, SlotsInv
  <1>2. c \in Client /\ Tail(pending) \in Seq(Client)
        /\ Len(Tail(pending)) = Len(pending) - 1
        /\ \A k \in 1..Len(Tail(pending)) : Tail(pending)[k] = pending[k + 1]
    BY <1>1, HeadTailProperties
  <1>3. c = pending[1] /\ Len(pending) \in Nat /\ Len(pending) >= 1
        /\ DOMAIN pending = 1..Len(pending) /\ DOMAIN Tail(pending) = 1..Len(Tail(pending))
    BY <1>1, <1>2, EmptySeq, LenProperties
  <1>4. link[c] = "pending"
    BY <1>1, <1>3 DEF SlotsInv
  <1>5. \A i \in InUse : conns[i].peer # c
    BY <1>1, <1>2, <1>4 DEF SlotsInv
  <1>6. \A k \in DOMAIN Tail(pending) : k + 1 \in DOMAIN pending /\ k + 1 # 1
    BY <1>2, <1>3
  <1>7. /\ \A k \in DOMAIN Tail(pending) : link[Tail(pending)[k]] = "pending"
                                           /\ Tail(pending)[k] # c
        /\ \A k, l \in DOMAIN Tail(pending) : Tail(pending)[k] = Tail(pending)[l] => k = l
    <2>1. \A k \in DOMAIN Tail(pending) : Tail(pending)[k] = pending[k + 1]
      BY <1>2, <1>3
    <2>2. \A k \in DOMAIN pending : link[pending[k]] = "pending"
      BY <1>1 DEF SlotsInv
    <2>3. \A k, l \in DOMAIN pending : pending[k] = pending[l] => k = l
      BY DEF SlotsInv
    <2>4. 1 \in DOMAIN pending
      BY <1>3
    <2>5. ASSUME NEW k \in DOMAIN Tail(pending)
          PROVE  link[Tail(pending)[k]] = "pending" /\ Tail(pending)[k] # c
      BY <1>3, <1>6, <2>1, <2>2, <2>3, <2>4
    <2>6. ASSUME NEW k \in DOMAIN Tail(pending), NEW l \in DOMAIN Tail(pending),
                 Tail(pending)[k] = Tail(pending)[l]
          PROVE  k = l
      <3>1. k + 1 = l + 1
        BY <1>6, <2>1, <2>3, <2>6
      <3>2. QED
        BY <3>1, <1>2, <1>3
    <2>7. QED
      BY <2>5, <2>6
  <1>8. link \in [Client -> {"none", "pending", "up", "cut"}] /\ calls \in [Client -> Nat]
    BY DEF TypesInv
  <1>9. calls' = calls /\ done' = done /\ buf' = buf /\ toServer' = toServer /\ sock' = sock
        /\ pending' = Tail(pending) /\ ready' = ready \ {0} /\ srv' = srv
    BY DEF HandleNewConnection, clients, history
  <1>10. CASE /\ InUse # Slot
              /\ conns' = [conns EXCEPT ![FirstFree] =
                              [peer |-> c, fd |-> LowestFd, buf |-> << >>]]
              /\ num_conns' = num_conns + 1
              /\ link' = [link EXCEPT ![c] = "up"]
              /\ UNCHANGED toClient
    <2>1. /\ conns' \in [Slot -> [peer : Client \cup {NoClient}, fd : 0..NumConns,
                                  buf : Seq(Cell)]]
          /\ InUse' = InUse \cup {FirstFree} /\ FirstFree \in Slot \ InUse
          /\ \A j \in Slot : j # FirstFree => conns'[j] = conns[j]
          /\ conns'[FirstFree] = [peer |-> c, fd |-> FirstFree, buf |-> << >>]
      BY <1>2, <1>10, SlotTaken
    <2>2. TypesInv'
      <3>1. link' \in [Client -> {"none", "pending", "up", "cut"}]
        BY <1>8, <1>10
      <3>2. QED
        BY <1>2, <1>9, <1>10, <2>1, <3>1
           DEF TypesInv, HandleNewConnection, clients, history
    <2>3. CellsInv'
      <3>1. \A d \in Client : calls[d] <= calls'[d]
        BY <1>8, <1>9
      <3>2. \A i \in Slot : i # FirstFree => SlotCells(i)'
        BY <1>8, <1>9, <2>1, <3>1, SlotCellsKept DEF CellsInv
      <3>3. ASSUME NEW i \in Slot, i = FirstFree PROVE SlotCells(i)'
        <4>1. << >> \in Seq(Requests(calls'[c])) /\ Len(<< >>) <= BufCells
          BY EmptySeq, Constants
        <4>2. conns'[i].buf = << >> /\ conns'[i].peer = c /\ c # NoClient
          BY <1>2, <2>1, <3>3, Constants
        <4>3. QED
          BY <4>1, <4>2 DEF SlotCells, Sent, Requests
      <3>4. ASSUME NEW d \in Client PROVE ClientCells(d)'
        <4>1. toClient' = toClient
          BY <1>10
        <4>2. QED
          BY <1>9, <4>1, ClientCellsKept DEF CellsInv
      <3>5. QED
        BY <3>2, <3>3, <3>4 DEF CellsInv
    <2>4. FdIsSlot'
      BY <2>1, InUseFinite DEF FdIsSlot
    <2>5. \A d \in Client : link'[d] = "up" <=> \E i \in InUse' : conns'[i].peer = d
      <3>1. \A d \in Client : link[d] = "up" <=> \E i \in InUse : conns[i].peer = d
        BY <1>1 DEF SlotsInv
      <3>2. \A i \in InUse : conns'[i] = conns[i]
        BY <2>1, InUseFinite
      <3>3. link'[c] = "up" /\ \A d \in Client : d # c => link'[d] = link[d]
        BY <1>2, <1>8, <1>10
      <3>4. conns'[FirstFree].peer = c
        BY <2>1
      <3>5. InUse' = InUse \cup {FirstFree}
        BY <2>1
      <3>6. ASSUME NEW d \in Client, d # c
            PROVE  link'[d] = "up" <=> \E i \in InUse' : conns'[i].peer = d
        <4>1. (\E i \in InUse' : conns'[i].peer = d) <=> \E i \in InUse : conns'[i].peer = d
          BY Zenon, <3>4, <3>5, <3>6
        <4>2. (\E i \in InUse : conns'[i].peer = d) <=> \E i \in InUse : conns[i].peer = d
          BY Zenon, <3>2
        <4>3. QED
          BY Zenon, <3>1, <3>3, <3>6, <4>1, <4>2
      <3>7. \E i \in InUse' : conns'[i].peer = c
        BY Zenon, <3>4, <3>5
      <3>8. QED
        BY Zenon, <3>3, <3>6, <3>7
    <2>6. \A i, j \in InUse' : conns'[i].peer = conns'[j].peer => i = j
      <3>1. \A i \in InUse : conns'[i] = conns[i]
        BY <2>1, InUseFinite
      <3>2. conns'[FirstFree].peer = c
        BY <2>1
      <3>3. QED
        BY <1>5, <2>1, <3>1, <3>2 DEF SlotsInv
    <2>7. num_conns' = Cardinality(InUse')
      BY <1>10, <2>1, InUseFinite, FS_AddElement DEF SlotsInv
    <2>8. \A k \in DOMAIN pending' : link'[pending'[k]] = "pending"
      BY <1>7, <1>8, <1>9, <1>10, <1>2
    <2>9. \A d \in Client : sock'[d] = "none" => link'[d] = "none"
      BY <1>2, <1>4, <1>8, <1>9, <1>10 DEF SlotsInv
    <2>10. ready' \ {0} \subseteq InUse' /\ 0 \notin ready'
      BY <1>9, <2>1 DEF SlotsInv
    <2>11. SlotsInv'
      BY <1>7, <1>9, <2>5, <2>6, <2>7, <2>8, <2>9, <2>10 DEF SlotsInv
    <2>12. QED
      BY <2>2, <2>3, <2>4, <2>11
  <1>11. CASE /\ InUse = Slot
              /\ toClient' = [toClient EXCEPT ![c] = @ \o Text]
              /\ link' = [link EXCEPT ![c] = "cut"]
              /\ UNCHANGED <<conns, num_conns>>
    <2>1. InUse' = InUse /\ FdIsSlot'
      BY <1>11, SlotsKept
    <2>2. Text \in Seq(ResponseCells(c)) /\ Text \in Seq(Cell)
      <3>1. Text = <<Text[1]>> /\ Text[1] \in ResponseCells(c) /\ Text[1] \in Cell
        BY DEF Text, ResponseCells, Cell
      <3>2. \A S, x : x \in S => <<x>> \in Seq(S)
        OBVIOUS
      <3>3. QED
        BY <3>1, <3>2
    <2>3. toClient \in [Client -> Seq(Cell)] /\ toClient[c] \in Seq(ResponseCells(c))
      BY <1>2 DEF TypesInv, CellsInv, ClientCells
    <2>4. toClient[c] \o Text \in Seq(ResponseCells(c)) /\ toClient[c] \o Text \in Seq(Cell)
      <3>1. toClient[c] \in Seq(Cell)
        BY <1>2, <2>3
      <3>2. QED
        BY <2>2, <2>3, <3>1, ConcatProperties
    <2>5. TypesInv'
      <3>1. link' \in [Client -> {"none", "pending", "up", "cut"}]
        BY <1>8, <1>11
      <3>2. toClient' \in [Client -> Seq(Cell)]
        BY <1>11, <2>3, <2>4
      <3>3. QED
        BY <1>2, <1>9, <1>11, <3>1, <3>2
           DEF TypesInv, HandleNewConnection, clients, history
    <2>6. CellsInv'
      <3>1. \A d \in Client : calls[d] <= calls'[d]
        BY <1>8, <1>9
      <3>2. \A i \in Slot : SlotCells(i)'
        BY <1>8, <1>9, <1>11, <3>1, SlotCellsKept DEF CellsInv
      <3>3. ASSUME NEW d \in Client PROVE ClientCells(d)'
        <4>1. CASE d # c
          <5>1. toClient'[d] = toClient[d]
            BY <1>11, <2>3, <4>1
          <5>2. QED
            BY <1>9, <5>1, ClientCellsKept DEF CellsInv
        <4>2. CASE d = c
          <5>1. toClient'[c] \in Seq(ResponseCells(c))
            BY <1>2, <1>11, <2>3, <2>4
          <5>2. ClientCells(c)
            BY <1>2 DEF CellsInv
          <5>3. QED
            BY <1>9, <4>2, <5>1, <5>2 DEF ClientCells, Sent, ResponseCells
        <4>3. QED
          BY <4>1, <4>2
      <3>4. QED
        BY <3>2, <3>3 DEF CellsInv
    <2>7. \A d \in Client : link'[d] = "up" <=> \E i \in InUse' : conns'[i].peer = d
      BY <1>1, <1>2, <1>5, <1>8, <1>11, <2>1 DEF SlotsInv
    <2>8. \A k \in DOMAIN pending' : link'[pending'[k]] = "pending"
      BY <1>7, <1>8, <1>9, <1>11, <1>2
    <2>9. \A d \in Client : sock'[d] = "none" => link'[d] = "none"
      BY <1>2, <1>4, <1>8, <1>9, <1>11 DEF SlotsInv
    <2>10. SlotsInv'
      BY <1>7, <1>9, <1>11, <2>1, <2>7, <2>8, <2>9 DEF SlotsInv
    <2>11. QED
      BY <2>1, <2>5, <2>6, <2>10
  <1>12. QED
    BY <1>10, <1>11 DEF HandleNewConnection

\* What recv and the response leave of the cells of the connection's client.
LEMMA HandleConnectionStep ==
    ASSUME ServerInv, NEW i \in Slot, HandleConnection(i)
    PROVE  ServerInv'
  <1> USE DEF ServerInv
  <1> DEFINE c == conns[i].peer
  <1>1. srv = "running" /\ i \in InUse /\ i # 0
    BY DEF HandleConnection, SlotsInv
  <1>2. c \in Client /\ c # NoClient
    BY <1>1 DEF InUse, TypesInv
  <1>3. link \in [Client -> {"none", "pending", "up", "cut"}] /\ calls \in [Client -> Nat]
        /\ toServer \in [Client -> Seq(Cell)] /\ toClient \in [Client -> Seq(Cell)]
    BY DEF TypesInv
  <1>4. /\ conns[i].buf \in Seq(Sent("req", c)) /\ Len(conns[i].buf) <= BufCells
        /\ toServer[c] \in Seq(Sent("req", c)) /\ toClient[c] \in Seq(ResponseCells(c))
    BY <1>2, SMTT(20) DEF CellsInv, SlotCells, ClientCells
  <1>5. Sent("req", c) \subseteq Cell /\ ResponseCells(c) \subseteq Cell /\ calls[c] \in Nat
        /\ Sent("res", c) \subseteq ResponseCells(c)
    BY <1>2, <1>3, SentAreCells, SMTT(20) DEF ResponseCells
  <1>6. PICK n \in Received(toServer[c], conns[i].buf) :
           LET b == conns[i].buf \o Front(toServer[c], n)
           IN  /\ toServer' = [toServer EXCEPT ![c] = Rest(@, n)]
               /\ \/ /\ n = 0
                     /\ CloseConnection(i)
                     /\ ready' = ready \ {i}
                     /\ UNCHANGED <<srv, pending, toClient, handled>>
                  \/ /\ n > 0
                     /\ conns' = [conns EXCEPT ![i].buf = b]
                     /\ UNCHANGED num_conns
                     /\ \/ /\ ~ParsesOK(b)
                           /\ ready' = ready \ {i}
                           /\ UNCHANGED <<srv, link, pending, toClient, handled>>
                        \/ /\ ParsesOK(b)
                           /\ handled' = [handled EXCEPT ![c] = Append(@, Parsed(b))]
                           /\ SendResponse(i, c, Parsed(b))
    BY DEF HandleConnection
  <1> DEFINE b == conns[i].buf \o Front(toServer[c], n)
             rest == Rest(toServer[c], n)
  <1>7. n \in 0..Len(toServer[c]) /\ Len(conns[i].buf) + n <= BufCells
    BY <1>4, ReceivedBounds
  <1>8. /\ rest \in Seq(Sent("req", c))
        /\ Front(toServer[c], n) \in Seq(Sent("req", c)) /\ Len(Front(toServer[c], n)) = n
    BY <1>4, <1>7, RestCells
  <1>9. b \in Seq(Sent("req", c)) /\ Len(b) <= BufCells
    <2>1. /\ b \in Seq(Sent("req", c))
          /\ Len(b) = Len(conns[i].buf) + Len(Front(toServer[c], n))
      BY <1>4, <1>8, ConcatProperties
    <2> HIDE DEF b
    <2>2. QED
      BY <1>7, <1>8, <2>1
  <1>10. b \in Seq(Cell) /\ rest \in Seq(Cell)
    BY <1>5, <1>8, <1>9, SeqMonotonic
  <1>11. UNCHANGED <<listen, cli, sock, buf, last, calls, answers, done>>
    BY DEF HandleConnection, clients
  <1>12. toServer' = [toServer EXCEPT ![c] = rest]
    BY <1>6
  <1> HIDE DEF b, rest
  <1>13. /\ toServer' \in [Client -> Seq(Cell)] /\ toServer'[c] = rest
         /\ \A d \in Client : d # c => toServer'[d] = toServer[d]
    BY <1>2, <1>3, <1>10, <1>12
  <1>14. calls' \in [Client -> Nat] /\ \A d \in Client : calls[d] <= calls'[d]
    BY <1>3, <1>11
  <1>15. ASSUME toClient' = toClient \/ toClient' = [toClient EXCEPT ![c] = toClient'[c]],
                toClient'[c] \in Seq(ResponseCells(c))
         PROVE  /\ toClient' \in [Client -> Seq(Cell)]
                /\ \A d \in Client : ClientCells(d)'
    <2>1. /\ toClient' \in [Client -> Seq(Cell)]
          /\ \A d \in Client : d # c => toClient'[d] = toClient[d]
      <3>1. toClient'[c] \in Seq(Cell)
        BY <1>5, <1>15, SeqMonotonic
      <3>2. QED
        BY <1>2, <1>3, <1>15, <3>1
    <2>2. ASSUME NEW d \in Client PROVE ClientCells(d)'
      <3>1. CASE d # c
        BY <1>11, <1>13, <2>1, <3>1, ClientCellsKept DEF CellsInv
      <3>2. CASE d = c
        <4>1. ClientCells(c)
          BY <1>2 DEF CellsInv
        <4>2. QED
          BY <1>8, <1>11, <1>13, <1>15, <3>2, <4>1 DEF ClientCells, Sent, ResponseCells
      <3>3. QED
        BY <3>1, <3>2
    <2>3. QED
      BY <2>1, <2>2
  <1>16. CASE n = 0 /\ CloseConnection(i) /\ ready' = ready \ {i}
              /\ UNCHANGED <<srv, pending, toClient, handled>>
    <2>1. /\ conns' = [conns EXCEPT ![i] = Free]
          /\ link' = [link EXCEPT ![c] = "cut"]
          /\ num_conns' = num_conns - 1
      BY <1>16 DEF CloseConnection
    <2>2. /\ conns' \in [Slot -> [peer : Client \cup {NoClient}, fd : 0..NumConns,
                                  buf : Seq(Cell)]]
          /\ InUse' = InUse \ {i}
          /\ \A j \in Slot : j # i => conns'[j] = conns[j]
          /\ conns'[i] = Free
      BY <1>1, <2>1, SlotCleared
    <2>3. /\ link' \in [Client -> {"none", "pending", "up", "cut"}]
          /\ link'[c] = "cut" /\ \A d \in Client : d # c => link'[d] = link[d]
      BY <1>2, <1>3, <2>1
    <2>4. toClient' \in [Client -> Seq(Cell)] /\ \A d \in Client : ClientCells(d)'
      BY <1>4, <1>15, <1>16
    <2>5. TypesInv'
      BY <1>11, <1>13, <1>16, <2>2, <2>3, <2>4 DEF TypesInv
    <2>6. CellsInv'
      <3>1. \A j \in Slot : j # i => SlotCells(j)'
        BY <1>14, <2>2, SlotCellsKept DEF CellsInv
      <3>2. SlotCells(i)'
        BY <2>2, EmptySeq, Constants DEF SlotCells, Free
      <3>3. QED
        BY <2>4, <3>1, <3>2 DEF CellsInv
    <2>7. \A j \in InUse' : j \in InUse /\ j # i /\ conns'[j] = conns[j]
      BY <2>2, InUseFinite
    <2>8. FdIsSlot'
      BY <2>7 DEF FdIsSlot
    <2>9. \A d \in Client : link'[d] = "up" <=> \E j \in InUse' : conns'[j].peer = d
      <3>1. \A d \in Client : link[d] = "up" <=> \E j \in InUse : conns[j].peer = d
        BY <1>1 DEF SlotsInv
      <3>2. \A j \in InUse : j # i => j \in InUse' /\ conns'[j].peer = conns[j].peer
        BY <2>2, InUseFinite
      <3>3. \A j \in InUse' : conns[j].peer # c
        BY <1>1, <2>7 DEF SlotsInv
      <3>4. ASSUME NEW d \in Client, d # c
            PROVE  link'[d] = "up" <=> \E j \in InUse' : conns'[j].peer = d
        <4>1. link'[d] = link[d]
          BY <2>3, <3>4
        <4>2. (\E j \in InUse : conns[j].peer = d)
                  <=> \E j \in InUse' : conns'[j].peer = d
          BY <2>7, <3>2, <3>4
        <4>3. QED
          BY <3>1, <4>1, <4>2
      <3>5. ~\E j \in InUse' : conns'[j].peer = c
        BY <2>7, <3>3
      <3>6. QED
        BY <2>3, <3>4, <3>5
    <2>10. num_conns' = Cardinality(InUse')
      BY <1>1, <2>1, <2>2, InUseFinite, FS_RemoveElement DEF SlotsInv
    <2>11. \A k \in DOMAIN pending' : link'[pending'[k]] = "pending"
      <3>1. \A k \in DOMAIN pending : link[pending[k]] = "pending" /\ pending[k] \in Client
        BY <1>1 DEF SlotsInv, TypesInv
      <3>2. link[c] = "up"
        BY <1>1, <1>2 DEF SlotsInv
      <3>3. QED
        BY <1>16, <2>3, <3>1, <3>2
    <2>12. \A d \in Client : sock'[d] = "none" => link'[d] = "none"
      <3>1. link[c] = "up"
        BY <1>1, <1>2 DEF SlotsInv
      <3>2. QED
        BY <1>2, <1>11, <2>3, <3>1 DEF SlotsInv
    <2>13. ready' \ {0} \subseteq InUse' /\ (0 \in ready' => pending' # << >>)
      BY <1>16, <2>2 DEF SlotsInv
    <2>14. SlotsInv'
      <3>1. \A j, k \in InUse' : conns'[j].peer = conns'[k].peer => j = k
        BY <2>7 DEF SlotsInv
      <3>2. pending' = pending
        BY <1>16
      <3>3. QED
        BY <2>9, <2>10, <2>11, <2>12, <2>13, <3>1, <3>2 DEF SlotsInv
    <2>15. QED
      BY <2>5, <2>6, <2>8, <2>14
  <1>17. ASSUME conns' = [conns EXCEPT ![i].buf = b], UNCHANGED num_conns,
                toClient' = toClient \/ toClient' = [toClient EXCEPT ![c] = toClient'[c]],
                toClient'[c] \in Seq(ResponseCells(c)),
                \/ ready' = ready \ {i} /\ UNCHANGED <<srv, link, pending>>
                \/ ServerDies("killed")
         PROVE  ServerInv'
    <2>1. /\ conns' \in [Slot -> [peer : Client \cup {NoClient}, fd : 0..NumConns,
                                  buf : Seq(Cell)]]
          /\ InUse' = InUse
          /\ \A j \in Slot : conns'[j].peer = conns[j].peer /\ conns'[j].fd = conns[j].fd
          /\ \A j \in Slot : j # i => conns'[j].buf = conns[j].buf
          /\ conns'[i].buf = b
      BY <1>1, <1>10, <1>17, SlotFilled
    <2>2. toClient' \in [Client -> Seq(Cell)] /\ \A d \in Client : ClientCells(d)'
      BY <1>15, <1>17
    <2>3. CellsInv'
      <3>1. ASSUME NEW j \in Slot, j # i PROVE SlotCells(j)'
        <4>1. conns' = [conns EXCEPT ![i].buf = b] /\ conns'[j] = conns[j]
          BY <1>17, <3>1 DEF TypesInv
        <4>2. QED
          BY <1>14, <4>1, SlotCellsKept DEF CellsInv
      <3>2. SlotCells(i)'
        BY <1>2, <1>9, <1>11, <2>1 DEF SlotCells, Sent
      <3>3. QED
        BY <2>2, <3>1, <3>2 DEF CellsInv
    <2>4. FdIsSlot'
      BY <2>1, InUseFinite DEF FdIsSlot
    <2>5. \A j \in InUse : conns'[j].peer = conns[j].peer
      BY <2>1, InUseFinite
    <2>6. CASE ready' = ready \ {i} /\ UNCHANGED <<srv, link, pending>>
      <3>1. TypesInv'
        BY <1>11, <1>13, <2>1, <2>2, <2>6 DEF TypesInv
      <3>2. SlotsInv'
        BY <1>11, <1>17, <2>1, <2>5, <2>6 DEF SlotsInv
      <3>3. QED
        BY <2>3, <2>4, <3>1, <3>2
    <2>7. CASE ServerDies("killed")
      <3>1. /\ srv' = "killed" /\ ready' = {} /\ pending' = << >>
            /\ link' \in [Client -> {"none", "pending", "up", "cut"}]
            /\ \A d \in Client : link[d] = "none" => link'[d] = "none"
        BY <1>3, <2>7 DEF ServerDies
      <3>2. << >> \in Seq(Client)
        BY EmptySeq
      <3>3. TypesInv'
        BY <1>11, <1>13, <2>1, <2>2, <3>1, <3>2 DEF TypesInv, Process
      <3>4. SlotsInv'
        BY <1>11, <1>17, <2>1, <2>5, <3>1 DEF SlotsInv
      <3>5. QED
        BY <2>3, <2>4, <3>3, <3>4
    <2>8. QED
      BY <1>17, <2>6, <2>7
  <1>18. CASE /\ conns' = [conns EXCEPT ![i].buf = b] /\ UNCHANGED num_conns
              /\ ready' = ready \ {i} /\ UNCHANGED <<srv, link, pending, toClient, handled>>
    BY <1>4, <1>17, <1>18
  <1>19. CASE /\ conns' = [conns EXCEPT ![i].buf = b] /\ UNCHANGED num_conns
              /\ ParsesOK(b) /\ SendResponse(i, c, Parsed(b))
    <2>1. Parsed(b) \in 1..calls[c]
      BY <1>2, <1>5, <1>9, <1>19, ParsedIsSent
    <2>2. Message("res", Parsed(b)) \in Seq(Sent("res", c))
      BY <1>2, <1>5, <2>1, MessageCells
    <2>3. Message("res", Parsed(b)) \in Seq(ResponseCells(c))
      BY <1>5, <2>2, SeqMonotonic
    <2>4. toClient[c] \o Message("res", Parsed(b)) \in Seq(ResponseCells(c))
      BY <1>4, <2>3, ConcatProperties
    <2>5. CASE /\ toClient' = [toClient EXCEPT ![c] =
                        IF PeerGone(c) THEN @ ELSE @ \o Message("res", Parsed(b))]
               /\ ready' = ready \ {i}
               /\ UNCHANGED <<srv, link, pending>>
      <3>1. /\ toClient' = [toClient EXCEPT ![c] = toClient'[c]]
            /\ toClient'[c] \in Seq(ResponseCells(c))
        BY <1>2, <1>3, <1>4, <2>4, <2>5
      <3>2. QED
        BY <1>17, <1>19, <2>5, <3>1
    <2>6. CASE ServerDies("killed") /\ UNCHANGED toClient
      BY <1>4, <1>17, <1>19, <2>6
    <2>7. QED
      BY <1>19, <2>5, <2>6 DEF SendResponse
  <1>20. QED
    BY <1>6, <1>16, <1>18, <1>19 DEF b

LEMMA CloseServerStep == ServerInv /\ CloseServer => ServerInv'
  <1> SUFFICES ASSUME ServerInv, CloseServer PROVE ServerInv'
    OBVIOUS
  <1> USE DEF ServerInv
  <1>1. /\ srv' = srv /\ ready' = {} /\ pending' = << >> /\ listen' = "closed"
        /\ conns' = [i \in Slot |-> Free]
        /\ num_conns' = num_conns - Cardinality(InUse)
        /\ link' = [c \in Client |-> IF link[c] = "none" THEN "none" ELSE "cut"]
        /\ UNCHANGED <<cli, sock, buf, last, toServer, toClient, calls, done>>
    BY DEF CloseServer, clients, history
  <1>2. InUse' = {}
    BY <1>1 DEF InUse, Free
  <1>3. /\ link' \in [Client -> {"none", "pending", "up", "cut"}]
        /\ \A c \in Client : link'[c] # "up" /\ (link[c] = "none" => link'[c] = "none")
    BY <1>1
  <1>4. TypesInv'
    <2>1. Free \in [peer : Client \cup {NoClient}, fd : 0..NumConns, buf : Seq(Cell)]
      BY EmptySeq, Constants DEF Free
    <2>2. conns' \in [Slot -> [peer : Client \cup {NoClient}, fd : 0..NumConns,
                               buf : Seq(Cell)]]
      BY <1>1, <2>1
    <2>3. << >> \in Seq(Client)
      BY EmptySeq
    <2>4. QED
      BY <1>1, <1>3, <2>2, <2>3 DEF TypesInv
  <1>5. CellsInv'
    <2>1. ASSUME NEW i \in Slot PROVE SlotCells(i)'
      BY <1>1, EmptySeq, Constants DEF SlotCells, Free
    <2>2. \A c \in Client : ClientCells(c)'
      BY <1>1, ClientCellsKept DEF CellsInv
    <2>3. QED
      BY <2>1, <2>2 DEF CellsInv
  <1>6. FdIsSlot'
    BY <1>2 DEF FdIsSlot
  <1>7. num_conns' = 0 /\ Cardinality(InUse') = 0
    BY <1>1, <1>2, InUseFinite, FS_EmptySet DEF SlotsInv
  <1>8. SlotsInv'
    BY <1>1, <1>2, <1>3, <1>7 DEF SlotsInv
  <1>9. QED
    BY <1>4, <1>5, <1>6, <1>8

LEMMA OpenStep ==
    ASSUME ServerInv, NEW c \in Client, Open(c)
    PROVE  ServerInv'
  <1> USE DEF ServerInv
  <1>1. /\ UNCHANGED <<srv, listen, conns, num_conns, ready>>
        /\ UNCHANGED <<cli, buf, last, toServer, toClient, calls, done>>
        /\ sock[c] = "none"
    BY DEF Open, server, history
  <1>2. InUse' = InUse /\ FdIsSlot'
    BY <1>1, SlotsKept
  <1>3. CellsInv'
    BY <1>1, CellsKept
  <1>4. /\ sock \in [Client -> {"none", "open", "unconnected", "closed"}]
        /\ link \in [Client -> {"none", "pending", "up", "cut"}]
        /\ pending \in Seq(Client) /\ link[c] = "none"
    BY <1>1 DEF TypesInv, SlotsInv
  <1>5. CASE /\ srv = "running"
             /\ sock' = [sock EXCEPT ![c] = "open"]
             /\ link' = [link EXCEPT ![c] = "pending"]
             /\ pending' = Append(pending, c)
    <2>1. /\ pending' \in Seq(Client) /\ pending' # << >>
          /\ Len(pending') = Len(pending) + 1
          /\ \A k \in 1..Len(pending) : pending'[k] = pending[k]
          /\ pending'[Len(pending) + 1] = c
      BY <1>4, <1>5, AppendProperties
    <2>2. /\ Len(pending) \in Nat /\ DOMAIN pending = 1..Len(pending)
          /\ DOMAIN pending' = 1..(Len(pending) + 1)
      BY <1>4, <2>1, LenProperties
    <2>3. /\ link'[c] = "pending" /\ \A d \in Client : d # c => link'[d] = link[d]
          /\ sock'[c] = "open" /\ \A d \in Client : d # c => sock'[d] = sock[d]
      BY <1>4, <1>5
    <2>4. TypesInv'
      <3>1. /\ sock' \in [Client -> {"none", "open", "unconnected", "closed"}]
            /\ link' \in [Client -> {"none", "pending", "up", "cut"}]
        BY <1>4, <1>5
      <3>2. QED
        BY <1>1, <2>1, <3>1 DEF TypesInv
    <2>5. \A k \in DOMAIN pending : link[pending[k]] = "pending" /\ pending[k] \in Client
                                    /\ pending[k] # c
      BY <1>4, <1>5 DEF SlotsInv
    <2>6. \A k \in DOMAIN pending' :
             \/ k \in DOMAIN pending /\ pending'[k] = pending[k]
             \/ k = Len(pending) + 1 /\ pending'[k] = c
      BY <2>1, <2>2
    <2>7. \A k \in DOMAIN pending' : link'[pending'[k]] = "pending"
      BY <2>3, <2>5, <2>6
    <2>8. \A k, l \in DOMAIN pending' : pending'[k] = pending'[l] => k = l
      BY <2>5, <2>6 DEF SlotsInv
    <2>9. \A d \in Client : link'[d] = "up" <=> \E i \in InUse' : conns'[i].peer = d
      BY <1>1, <1>2, <1>4, <1>5, <2>3 DEF SlotsInv
    <2>10. \A d \in Client : sock'[d] = "none" => link'[d] = "none"
      BY <2>3 DEF SlotsInv
    <2>11. SlotsInv'
      BY <1>1, <1>2, <2>1, <2>7, <2>8, <2>9, <2>10 DEF SlotsInv
    <2>12. QED
      BY <1>2, <1>3, <2>4, <2>11
  <1>6. CASE sock' = [sock EXCEPT ![c] = "unconnected"] /\ UNCHANGED <<link, pending>>
    <2>1. TypesInv'
      BY <1>1, <1>4, <1>6 DEF TypesInv
    <2>2. \A d \in Client : sock'[d] = "none" => sock[d] = "none"
      BY <1>4, <1>6
    <2>3. SlotsInv'
      BY <1>1, <1>2, <1>6, <2>2 DEF SlotsInv
    <2>4. QED
      BY <1>2, <1>3, <2>1, <2>3
  <1>7. QED
    BY <1>5, <1>6 DEF Open

\* A client's own step, from what it leaves of the server and of its socket.
LEMMA ClientKeepsSlots ==
    ASSUME ServerInv, UNCHANGED <<srv, conns, num_conns, ready, link, pending>>,
           \A d \in Client : sock'[d] = "none" => sock[d] = "none"
    PROVE  FdIsSlot' /\ SlotsInv'
  <1>1. InUse' = InUse /\ FdIsSlot'
    BY SlotsKept DEF ServerInv
  <1>2. SlotsInv'
    BY <1>1 DEF ServerInv, SlotsInv
  <1>3. QED
    BY <1>1, <1>2

LEMMA CloseStep ==
    ASSUME ServerInv, NEW c \in Client, Close(c)
    PROVE  ServerInv'
  <1> USE DEF ServerInv
  <1>1. /\ UNCHANGED <<srv, listen, conns, num_conns, ready, link, pending>>
        /\ UNCHANGED <<buf, last, toServer, toClient, calls, done>>
        /\ sock' = sock \/ sock' = [sock EXCEPT ![c] = "closed"]
        /\ cli' = cli \/ cli' = [cli EXCEPT ![c] = "undefined"]
    BY DEF Close, server, network, history
  <1>2. CellsInv'
    BY <1>1, CellsKept
  <1>3. TypesInv'
    <2>1. sock \in [Client -> {"none", "open", "unconnected", "closed"}]
          /\ cli \in [Client -> Process]
      BY DEF TypesInv
    <2>2. sock' \in [Client -> {"none", "open", "unconnected", "closed"}]
      BY <1>1, <2>1
    <2>3. cli' \in [Client -> Process]
      BY <1>1, <2>1 DEF Process
    <2>4. QED
      BY <1>1, <2>2, <2>3 DEF TypesInv
  <1>4. \A d \in Client : sock'[d] = "none" => sock[d] = "none"
    BY <1>1 DEF TypesInv
  <1>5. QED
    BY <1>1, <1>2, <1>3, <1>4, ClientKeepsSlots

LEMMA CallStep ==
    ASSUME ServerInv, NEW c \in Client, Call(c)
    PROVE  ServerInv'
  <1> USE DEF ServerInv
  <1>1. /\ UNCHANGED <<srv, listen, conns, num_conns, ready, link, pending>>
        /\ UNCHANGED <<sock, buf, toClient>>
        /\ calls[c] + done[c] < MaxCalls[c]
    BY DEF Call, server
  <1>2. /\ calls \in [Client -> Nat] /\ done \in [Client -> Nat] /\ last = calls
        /\ toServer \in [Client -> Seq(Cell)] /\ cli \in [Client -> Process]
        /\ MaxCalls[c] \in Nat
    BY Constants DEF TypesInv
  <1>3. FdIsSlot' /\ SlotsInv'
    BY <1>1, ClientKeepsSlots
  <1>4. CASE /\ done' = [done EXCEPT ![c] = @ + 1]
             /\ UNCHANGED <<cli, last, toServer, calls>>
    <2>1. done' \in [Client -> Nat] /\ done'[c] = done[c] + 1
          /\ \A d \in Client : d # c => done'[d] = done[d]
      BY <1>2, <1>4
    <2>2. TypesInv'
      BY <1>1, <1>4, <2>1 DEF TypesInv
    <2>3. CellsInv'
      <3>1. \A i \in Slot : SlotCells(i)'
        <4>1. calls' \in [Client -> Nat] /\ \A d \in Client : calls[d] <= calls'[d]
          BY <1>2, <1>4
        <4>2. QED
          BY <1>1, <4>1, SlotCellsKept DEF CellsInv
      <3>2. ASSUME NEW d \in Client PROVE ClientCells(d)'
        <4>1. CASE d # c
          <5>1. done'[d] = done[d]
            BY <2>1, <4>1
          <5>2. QED
            BY <1>1, <1>4, <5>1, ClientCellsKept DEF CellsInv
        <4>2. CASE d = c
          <5>1. ClientCells(c)
            BY DEF CellsInv
          <5>2. calls'[c] + done'[c] <= MaxCalls[c]
            BY <1>1, <1>2, <1>4, <2>1
          <5>3. QED
            BY <1>1, <1>4, <4>2, <5>1, <5>2 DEF ClientCells, Sent, ResponseCells, Text
        <4>3. QED
          BY <4>1, <4>2
      <3>3. QED
        BY <3>1, <3>2 DEF CellsInv
    <2>4. QED
      BY <1>3, <2>2, <2>3
  <1>5. ASSUME calls' = [calls EXCEPT ![c] = @ + 1],
               last' = [last EXCEPT ![c] = calls'[c]],
               \/ toServer' = toServer
               \/ toServer' = [toServer EXCEPT ![c] = @ \o Message("req", calls'[c])],
               cli' = cli \/ cli' = [cli EXCEPT ![c] = "killed"],
               UNCHANGED done
        PROVE  ServerInv'
    <2>1. /\ calls' \in [Client -> Nat] /\ calls'[c] = calls[c] + 1
          /\ \A d \in Client : d # c => calls'[d] = calls[d]
      BY <1>2, <1>5
    <2>last. last' = calls'
      <3>1. last' = [calls EXCEPT ![c] = calls[c] + 1]
        BY <1>2, <1>5, <2>1
      <3>2. calls' = [calls EXCEPT ![c] = calls[c] + 1]
        BY <1>5
      <3>3. QED
        BY <3>1, <3>2
    <2>2. ASSUME NEW d \in Client PROVE calls[d] <= calls'[d]
      <3>1. calls[d] \in Nat /\ calls'[d] \in {calls[d], calls[d] + 1}
        BY <1>2, <2>1
      <3>2. QED
        BY <3>1
    <2>3. /\ \A q \in Seq(Sent("req", c)) : q \in Seq(Sent("req", c)')
          /\ \A q \in Seq(ResponseCells(c)) : q \in Seq(ResponseCells(c)')
      BY <1>2, <2>1, <2>2, SentGrows
    <2>4. Message("req", calls'[c]) \in Seq(Requests(calls'[c]))
      <3>1. \A i \in 1..MsgCells : <<"req", calls'[c], i>> \in Requests(calls'[c])
        BY <1>2, <2>1 DEF Requests
      <3>2. Message("req", calls'[c]) \in [1..MsgCells -> Requests(calls'[c])]
        BY <3>1 DEF Message
      <3>3. QED
        BY <3>2, Constants, SeqDef
    <2>5. toServer[c] \in Seq(Requests(calls'[c]))
      <3>1. toServer[c] \in Seq(Requests(calls[c]))
        BY DEF CellsInv, ClientCells, Sent, Requests
      <3>2. QED
        BY <1>2, <2>1, <2>2, <3>1, RequestsGrow
    <2>6. toServer[c] \o Message("req", calls'[c]) \in Seq(Requests(calls'[c]))
      BY <2>4, <2>5, ConcatProperties
    <2>7. /\ toServer'[c] \in Seq(Requests(calls'[c]))
          /\ \A d \in Client : d # c => toServer'[d] = toServer[d]
      BY <1>2, <1>5, <2>5, <2>6
    <2>8. TypesInv'
      <3>1. Requests(calls'[c]) \subseteq Cell
        BY <1>2, <2>1, Constants DEF Requests, Cell
      <3>2. toServer'[c] \in Seq(Cell)
        BY <2>7, <3>1, SeqMonotonic
      <3>3. toServer' \in [Client -> Seq(Cell)]
        BY <1>2, <1>5, <2>7, <3>2
      <3>4. cli' \in [Client -> Process]
        BY <1>2, <1>5 DEF Process
      <3>5. QED
        BY <1>1, <1>5, <2>1, <2>last, <3>3, <3>4 DEF TypesInv
    <2>9. CellsInv'
      <3>1. \A i \in Slot : SlotCells(i)'
        BY <1>1, <2>1, <2>2, SlotCellsKept DEF CellsInv
      <3>2. ASSUME NEW d \in Client, d # c PROVE ClientCells(d)'
        BY <1>1, <1>5, <2>1, <2>7, <3>2, ClientCellsKept DEF CellsInv
      <3>3. ClientCells(c)'
        <4>1. buf[c] \in Seq(ResponseCells(c)) /\ Len(buf[c]) <= BufCells
              /\ toClient[c] \in Seq(ResponseCells(c))
          BY DEF CellsInv, ClientCells
        <4>2. buf'[c] \in Seq(ResponseCells(c)') /\ Len(buf'[c]) <= BufCells
              /\ toClient'[c] \in Seq(ResponseCells(c)')
          BY <1>1, <2>3, <4>1
        <4>3. toServer'[c] \in Seq(Sent("req", c)')
          BY <2>7 DEF Sent, Requests
        <4>4. calls'[c] + done'[c] <= MaxCalls[c]
          BY <1>1, <1>2, <1>5, <2>1
        <4>5. QED
          BY <4>2, <4>3, <4>4 DEF ClientCells
      <3>4. QED
        BY <3>1, <3>2, <3>3 DEF CellsInv
    <2>10. QED
      BY <1>3, <2>8, <2>9
  <1>6. QED
    <2>1. Call(c) =>
            \/ /\ done' = [done EXCEPT ![c] = @ + 1]
               /\ UNCHANGED <<cli, last, toServer, calls>>
            \/ /\ calls' = [calls EXCEPT ![c] = @ + 1]
               /\ last' = [last EXCEPT ![c] = calls'[c]]
               /\ \/ toServer' = toServer
                  \/ toServer' = [toServer EXCEPT ![c] = @ \o Message("req", calls'[c])]
               /\ cli' = cli \/ cli' = [cli EXCEPT ![c] = "killed"]
               /\ UNCHANGED done
      <3>1. [toServer EXCEPT ![c] = toServer[c]] = toServer
        BY <1>2
      <3>2. QED
        BY <3>1 DEF Call
    <2>2. QED
      BY <1>4, <1>5, <2>1

LEMMA UpdateStep ==
    ASSUME ServerInv, NEW c \in Client, Update(c)
    PROVE  ServerInv'
  <1> USE DEF ServerInv
  <1>1. /\ UNCHANGED <<srv, listen, conns, num_conns, ready, link, pending>>
        /\ UNCHANGED <<sock, last, toServer, calls, done>>
    BY DEF Update, server
  <1>2. FdIsSlot' /\ SlotsInv'
    BY <1>1, ClientKeepsSlots
  <1>3. /\ cli \in [Client -> Process] /\ calls \in [Client -> Nat]
        /\ buf \in [Client -> Seq(Cell)] /\ toClient \in [Client -> Seq(Cell)]
    BY DEF TypesInv
  <1>4. CASE cli' = [cli EXCEPT ![c] = "aborted"] /\ UNCHANGED <<buf, toClient>>
    <2>1. CellsInv'
      BY <1>1, <1>4, CellsKept
    <2>2. cli' \in [Client -> Process]
      BY <1>3, <1>4 DEF Process
    <2>3. TypesInv'
      BY <1>1, <1>4, <2>2 DEF TypesInv
    <2>4. QED
      BY <1>2, <2>1, <2>3
  <1>5. ASSUME NEW n \in Received(toClient[c], buf[c]),
               toClient' = [toClient EXCEPT ![c] = Rest(@, n)],
               buf' = [buf EXCEPT ![c] = @ \o Front(toClient[c], n)],
               UNCHANGED cli
        PROVE  ServerInv'
    <2>1. /\ buf[c] \in Seq(ResponseCells(c)) /\ Len(buf[c]) <= BufCells
          /\ toClient[c] \in Seq(ResponseCells(c)) /\ ResponseCells(c) \subseteq Cell
      <3>1. ResponseCells(c) \subseteq Cell
        BY <1>3, SentAreCells
      <3>2. QED
        BY <3>1 DEF CellsInv, ClientCells
    <2>2. n \in 0..Len(toClient[c]) /\ Len(buf[c]) + n <= BufCells
      BY <2>1, ReceivedBounds
    <2> DEFINE rest == Rest(toClient[c], n)
               b == buf[c] \o Front(toClient[c], n)
    <2>3. rest \in Seq(ResponseCells(c)) /\ Front(toClient[c], n) \in Seq(ResponseCells(c))
          /\ Len(Front(toClient[c], n)) = n
      BY <2>1, <2>2, RestCells
    <2>4. b \in Seq(ResponseCells(c)) /\ Len(b) <= BufCells
      <3>1. b \in Seq(ResponseCells(c)) /\ Len(b) = Len(buf[c]) + Len(Front(toClient[c], n))
        BY <2>1, <2>3, ConcatProperties
      <3> HIDE DEF b
      <3>2. QED
        BY <2>2, <2>3, <3>1
    <2>5. rest \in Seq(Cell) /\ b \in Seq(Cell)
      BY <2>1, <2>3, <2>4, SeqMonotonic
    <2>6. toClient' = [toClient EXCEPT ![c] = rest] /\ buf' = [buf EXCEPT ![c] = b]
      BY <1>5
    <2> HIDE DEF rest, b
    <2>7. /\ toClient' \in [Client -> Seq(Cell)] /\ buf' \in [Client -> Seq(Cell)]
          /\ toClient'[c] = rest /\ buf'[c] = b
          /\ \A d \in Client : d # c => toClient'[d] = toClient[d] /\ buf'[d] = buf[d]
      BY <1>3, <2>5, <2>6
    <2>8. TypesInv'
      BY <1>1, <1>5, <2>7 DEF TypesInv
    <2>9. CellsInv'
      <3>1. \A i \in Slot : SlotCells(i)'
        BY <1>1, <1>3, SlotCellsKept DEF CellsInv
      <3>2. ASSUME NEW d \in Client, d # c PROVE ClientCells(d)'
        BY <1>1, <2>7, <3>2, ClientCellsKept DEF CellsInv
      <3>3. ClientCells(c)'
        <4>1. ClientCells(c)
          BY DEF CellsInv
        <4>2. QED
          BY <1>1, <2>3, <2>4, <2>7, <4>1 DEF ClientCells, Sent, ResponseCells
      <3>4. QED
        BY <3>1, <3>2, <3>3 DEF CellsInv
    <2>10. QED
      BY <1>2, <2>8, <2>9
  <1>6. QED
    BY <1>4, <1>5 DEF Update

LEMMA ServerInvNext ==
    ASSUME ServerInv, [Next]_vars
    PROVE  ServerInv'
  <1>1. ASSUME NEW i \in Slot, HandleConnection(i) PROVE ServerInv'
    BY <1>1, HandleConnectionStep
  <1>2. ASSUME NEW c \in Client, Open(c) \/ Call(c) \/ Update(c) \/ Close(c)
        PROVE  ServerInv'
    BY <1>2, OpenStep, CallStep, UpdateStep, CloseStep
  <1>3. CASE Select
    BY <1>3, SelectStep
  <1>4. CASE UpdateClosedServer
    BY <1>4, UpdateClosedServerStep
  <1>5. CASE HandleNewConnection
    BY <1>5, HandleNewConnectionStep
  <1>6. CASE OpenServer
    BY <1>6, OpenServerStep
  <1>7. CASE CloseServer
    BY <1>7, CloseServerStep
  <1>8. CASE UNCHANGED vars
    BY <1>8, StutterStep
  <1>9. QED
    BY <1>1, <1>2, <1>3, <1>4, <1>5, <1>6, <1>7, <1>8 DEF Next, ServerUpdate

\* The inductive invariant of the socket transport: the cells of a client are
\* those of its own calls wherever they are, descriptors are slots, and slots,
\* links, the accept queue and num_conns agree.
THEOREM ServerInvariant == Spec => []ServerInv
  <1>1. Init => ServerInv
    BY ServerInvInit
  <1>2. ServerInv /\ [Next]_vars => ServerInv'
    BY ServerInvNext
  <1>3. QED
    BY <1>1, <1>2, PTL DEF Spec

-----------------------------------------------------------------------------
(* What the runs check. *)

\* No buffer of socket_server.c or socket_client.c is ever filled beyond its
\* end, and no connection ever carries a cell of a call that was not made.
THEOREM TypeCorrect == Spec => []TypeOK
  <1>1. ServerInv => TypeOK
    <2> SUFFICES ASSUME ServerInv PROVE TypeOK
      OBVIOUS
    <2>1. TypesInv /\ CellsInv /\ SlotsInv
      BY DEF ServerInv
    <2>2. num_conns \in 0..NumConns
      BY <2>1, InUseFinite DEF SlotsInv
    <2>3. ASSUME NEW c \in Client
          PROVE  /\ calls[c] \in Nat /\ done[c] \in Nat /\ MaxCalls[c] \in Nat
                 /\ calls[c] + done[c] <= MaxCalls[c] /\ calls[c] \in 0..MaxCalls[c]
      BY <2>1, Constants DEF TypesInv, CellsInv, ClientCells
    <2>4. ASSUME NEW c \in Client
          PROVE  /\ Sent("req", c) \subseteq Cells("req", c)
                 /\ ResponseCells(c) \subseteq Cells("res", c) \cup {Text[1]}
      <3>1. \A k \in 1..calls[c] : k \in 1..MaxCalls[c]
        BY <2>3
      <3>2. Sent("req", c) \subseteq Cells("req", c)
        BY <3>1 DEF Sent, Cells
      <3>3. Sent("res", c) \subseteq Cells("res", c)
        BY <3>1 DEF Sent, Cells
      <3>4. QED
        BY <3>2, <3>3 DEF ResponseCells
    <2>5. ASSUME NEW i \in Slot
          PROVE  /\ conns[i].peer \in Client \cup {NoClient}
                 /\ conns[i].fd \in 0..NumConns
                 /\ conns[i].buf \in Seq(UNION {Cells("req", c) : c \in Client})
                 /\ Len(conns[i].buf) <= BufCells
      <3>1. conns[i] \in [peer : Client \cup {NoClient}, fd : 0..NumConns, buf : Seq(Cell)]
            /\ SlotCells(i)
        BY <2>1 DEF TypesInv, CellsInv
      <3>2. conns[i].buf \in Seq(UNION {Cells("req", c) : c \in Client})
        <4>1. CASE conns[i].peer = NoClient
          <5>1. conns[i].buf = << >>
            BY <3>1, <4>1 DEF SlotCells
          <5>2. QED
            BY <5>1, EmptySeq
        <4>2. CASE conns[i].peer # NoClient
          <5>1. conns[i].peer \in Client
            BY <3>1, <4>2
          <5>2. Sent("req", conns[i].peer) \subseteq UNION {Cells("req", c) : c \in Client}
            BY <2>4, <5>1
          <5>3. conns[i].buf \in Seq(Sent("req", conns[i].peer))
            BY <3>1, <4>2 DEF SlotCells
          <5>4. QED
            BY <5>2, <5>3, SeqMonotonic
        <4>3. QED
          BY <4>1, <4>2
      <3>3. QED
        BY <3>1, <3>2 DEF SlotCells
    <2>6. ASSUME NEW c \in Client
          PROVE  /\ buf[c] \in Seq(Cells("res", c) \cup {Text[1]}) /\ Len(buf[c]) <= BufCells
                 /\ toServer[c] \in Seq(Cells("req", c))
                 /\ toClient[c] \in Seq(Cells("res", c) \cup {Text[1]})
      <3>1. /\ buf[c] \in Seq(ResponseCells(c)) /\ Len(buf[c]) <= BufCells
            /\ toServer[c] \in Seq(Sent("req", c)) /\ toClient[c] \in Seq(ResponseCells(c))
        BY <2>1 DEF CellsInv, ClientCells
      <3>2. QED
        BY <2>4, <3>1, SeqMonotonic
    <2>7. QED
      BY <2>1, <2>2, <2>3, <2>5, <2>6 DEF TypeOK, TypesInv
  <1>2. QED
    BY <1>1, ServerInvariant, PTL

\* handle_new_connection, close_connection and close keep one slot for each
\* accepted connection, and num_conns is their number.
THEOREM OneSlotEach == Spec => []SlotsAreConnections
  <1>1. ServerInv => SlotsAreConnections
    BY DEF ServerInv, SlotsInv, SlotsAreConnections
  <1>2. QED
    BY <1>1, ServerInvariant, PTL

\* update's highest descriptor, that of the last slot in use, is the highest
\* of all: select leaves out no connection.
THEOREM SelectIsTold == Spec => []SelectSeesAll
  <1>1. ServerInv => SelectSeesAll
    BY HighIsGreatest DEF ServerInv
  <1>2. QED
    BY <1>1, ServerInvariant, PTL

-----------------------------------------------------------------------------
(* The socket transport keeps the promise of RpcCall for the first call of *)
(* each client, however its request and its response are cut up on the way *)
(* and whenever a process ends or a connection is closed.                  *)

-----------------------------------------------------------------------------
(* Sequences of cells. *)

LEMMA EmptyByLength ==
    ASSUME NEW S, NEW q \in Seq(S)
    PROVE  (q = << >> <=> Len(q) = 0) /\ Len(q) \in Nat
  BY EmptySeq

LEMMA OneElement == \A x : << x >> # << >> /\ Append(<< >>, x) = << x >>
  <1>1. \A x : Len(<< x >>) = 1 /\ Len(<< >>) = 0
    OBVIOUS
  <1>2. \A x : Append(<< >>, x) = << x >>
    OBVIOUS
  <1>3. QED
    BY <1>1, <1>2

LEMMA TextIsNotParsed ==
    ASSUME NEW b \in Seq({Text[1]})
    PROVE  ~ParsesOK(b)
  <1> SUFFICES ASSUME ParsesOK(b) PROVE FALSE
    OBVIOUS
  <1>1. Len(b) \in Nat /\ Len(b) >= 1
    BY Constants DEF ParsesOK
  <1>2. b[1] = <<"text", 0, 1>>
    BY <1>1, ElementOfSeq DEF Text
  <1>3. QED
    BY <1>2 DEF ParsesOK

\* A buffer that holds cells of requests alone is parsed when it holds enough.
LEMMA RequestIsParsed ==
    ASSUME NEW c \in Client, NEW b \in Seq(Sent("req", c)), b # << >>
    PROVE  ParsesOK(b) <=> Len(b) >= MsgCells
  <1>1. Len(b) \in Nat /\ 1 \in 1..Len(b)
    BY EmptySeq
  <1>2. b[1] \in Sent("req", c)
    BY <1>1, ElementOfSeq
  <1>3. b[1][1] = "req"
    BY <1>2 DEF Sent
  <1>4. QED
    BY <1>3 DEF ParsesOK

LEMMA FirstResponseIsParsed ==
    ASSUME NEW b \in Seq(FirstResponse), b # << >>
    PROVE  (ParsesOK(b) <=> Len(b) >= MsgCells) /\ Parsed(b) = 1
  <1>1. Len(b) \in Nat /\ 1 \in 1..Len(b)
    BY EmptySeq
  <1>2. b[1] \in FirstResponse
    BY <1>1, ElementOfSeq
  <1>3. b[1][1] = "res" /\ b[1][2] = 1
    BY <1>2 DEF FirstResponse
  <1>4. QED
    BY <1>3 DEF ParsesOK, Parsed

\* What is taken for a response is the number of a call.
LEMMA ResponseNumber ==
    ASSUME NEW c \in Client, calls[c] \in Nat, NEW b \in Seq(ResponseCells(c)), ParsesOK(b)
    PROVE  Parsed(b) \in Nat
  <1>1. Len(b) \in Nat /\ Len(b) >= 1
    BY Constants DEF ParsesOK
  <1>2. b[1] \in ResponseCells(c) /\ b[1][1] # "text"
    BY <1>1, ElementOfSeq DEF ParsesOK
  <1>3. b[1] \in Sent("res", c)
    BY <1>2 DEF ResponseCells, Text
  <1>4. QED
    BY <1>3 DEF Sent, Parsed

-----------------------------------------------------------------------------
(* CallInv is inductive, given ServerInv. *)

\* What another step leaves of the first call of d.
LEMMA FirstCallKept ==
    ASSUME NEW d \in Client, FirstCall(d),
           calls'[d] = calls[d], handled'[d] = handled[d], answers'[d] = answers[d],
           buf'[d] = buf[d], toServer'[d] = toServer[d], toClient'[d] = toClient[d],
           \/ link'[d] = link[d] \/ link'[d] = "cut"
           \/ link[d] # "cut" /\ handled[d] = << >>,
           \A j \in Slot : conns'[j].peer = d =>
                              conns[j].peer = d /\ conns'[j].buf = conns[j].buf
    PROVE  FirstCall(d)'
  <1>1. Requested(d)'
    BY DEF FirstCall, Requested
  <1>2. \A j \in Slot : conns'[j].peer = d => Arrived(d, j)'
    BY DEF FirstCall, Arrived
  <1>3. handled[d] = << >> => Refused(d)'
    BY DEF FirstCall, Refused, Text
  <1>4. handled[d] = << 1 >> => Responded(d)'
    BY DEF FirstCall, Responded, FirstResponse
  <1>5. QED
    BY <1>1, <1>2, <1>3, <1>4 DEF FirstCall

LEMMA CallInvInit == Init => CallInv
  <1> SUFFICES ASSUME Init PROVE CallInv
    OBVIOUS
  <1>1. << >> \in Seq(Nat) /\ << >> \in Seq(Nat \X Nat) /\ << >> \in Seq({Text[1]})
        /\ Len(<< >>) = 0 /\ << >> # << 1 >>
    BY EmptySeq, OneElement
  <1>2. ASSUME NEW c \in Client PROVE FirstCall(c)
    <2>1. handled[c] = << >> /\ Requested(c)
      BY <1>1, Constants DEF Init, Requested
    <2>2. \A i \in Slot : conns[i].peer # c
      BY Constants DEF Init, Free
    <2>3. Refused(c)
      BY <1>1 DEF Init, Refused
    <2>4. QED
      BY <1>1, <2>1, <2>2, <2>3 DEF FirstCall
  <1>3. QED
    BY <1>1, <1>2 DEF CallInv, Init

\* A step that changes no request, no response and no cell of any client.
LEMMA CallInvKept ==
    ASSUME CallInv, UNCHANGED <<calls, handled, answers, buf, toServer, toClient>>,
           \A d \in Client : link'[d] = link[d] \/ link'[d] = "cut",
           \A d \in Client, j \in Slot : conns'[j].peer = d =>
                              conns[j].peer = d /\ conns'[j].buf = conns[j].buf
    PROVE  CallInv'
  <1>1. ASSUME NEW d \in Client, calls'[d] <= 1 PROVE FirstCall(d)'
    <2>1. FirstCall(d)
      BY <1>1 DEF CallInv
    <2>2. QED
      BY <2>1, FirstCallKept
  <1>2. QED
    BY <1>1 DEF CallInv

\* The steps in which no cell moves, and the end of the server.
LEMMA CallInvQuiet ==
    ASSUME ServerInv, CallInv,
           \/ Select \/ UpdateClosedServer \/ OpenServer \/ CloseServer \/ UNCHANGED vars
           \/ \E c \in Client : Close(c)
    PROVE  CallInv'
  <1>1. UNCHANGED <<calls, handled, answers, buf, toServer, toClient>>
    BY DEF Select, UpdateClosedServer, OpenServer, CloseServer, Close,
           vars, clients, network, history
  <1>2. link \in [Client -> {"none", "pending", "up", "cut"}]
    BY DEF ServerInv, TypesInv
  <1>3. link' = link \/ link' = [c \in Client |-> IF link[c] = "none" THEN "none" ELSE "cut"]
    BY DEF Select, UpdateClosedServer, ServerDies, OpenServer, CloseServer, Close, vars, network
  <1>4. \A d \in Client : link'[d] = link[d] \/ link'[d] = "cut"
    BY <1>2, <1>3
  <1>5. conns' = conns \/ conns' = [i \in Slot |-> Free]
    BY DEF Select, UpdateClosedServer, OpenServer, CloseServer, Close, vars, server
  <1>6. \A d \in Client, j \in Slot : conns'[j].peer = d =>
                              conns[j].peer = d /\ conns'[j].buf = conns[j].buf
    <2>1. CASE conns' = conns
      BY <2>1
    <2>2. CASE conns' = [i \in Slot |-> Free]
      BY <2>2, Constants DEF Free
    <2>3. QED
      BY <1>5, <2>1, <2>2
  <1>7. QED
    BY <1>1, <1>4, <1>6, CallInvKept

LEMMA CallInvOpen ==
    ASSUME ServerInv, CallInv, NEW c \in Client, Open(c)
    PROVE  CallInv'
  <1>1. UNCHANGED <<calls, handled, answers, buf, toServer, toClient, conns>>
    BY DEF Open, server, history
  <1>2. link[c] = "none" /\ link \in [Client -> {"none", "pending", "up", "cut"}]
    BY DEF Open, ServerInv, TypesInv, SlotsInv
  <1>3. link' = link \/ link' = [link EXCEPT ![c] = "pending"]
    BY DEF Open
  <1>4. \A d \in Client : d # c => link'[d] = link[d]
    BY <1>2, <1>3
  <1>5. ASSUME NEW d \in Client, calls'[d] <= 1 PROVE FirstCall(d)'
    <2>1. FirstCall(d)
      BY <1>1, <1>5 DEF CallInv
    <2>2. d = c => handled[d] = << >>
      BY <1>2, <2>1 DEF FirstCall, Requested
    <2>3. \/ link'[d] = link[d] \/ link'[d] = "cut"
          \/ link[d] # "cut" /\ handled[d] = << >>
      BY <1>2, <1>4, <2>2
    <2>4. QED
      BY <1>1, <2>1, <2>3, FirstCallKept
  <1>6. QED
    BY <1>1, <1>5 DEF CallInv

LEMMA CallInvAccept ==
    ASSUME ServerInv, CallInv, HandleNewConnection
    PROVE  CallInv'
  <1> USE DEF ServerInv
  <1> DEFINE c == Head(pending)
  <1>1. pending \in Seq(Client) /\ pending # << >> /\ srv = "running"
    BY DEF HandleNewConnection, TypesInv, SlotsInv
  <1>2. c \in Client /\ c = pending[1] /\ 1 \in DOMAIN pending
    BY <1>1, HeadTailProperties, EmptySeq, LenProperties
  <1>3. link[c] = "pending"
    BY <1>1, <1>2 DEF SlotsInv
  <1>4. UNCHANGED <<calls, handled, answers, buf, toServer>>
    BY DEF HandleNewConnection, clients, history
  <1>5. link \in [Client -> {"none", "pending", "up", "cut"}]
        /\ toClient \in [Client -> Seq(Cell)]
    BY DEF TypesInv
  <1>6. CASE /\ InUse # Slot
             /\ conns' = [conns EXCEPT ![FirstFree] =
                             [peer |-> c, fd |-> LowestFd, buf |-> << >>]]
             /\ link' = [link EXCEPT ![c] = "up"]
             /\ UNCHANGED toClient
    <2>1. /\ FirstFree \in Slot \ InUse
          /\ \A j \in Slot : j # FirstFree => conns'[j] = conns[j]
          /\ conns'[FirstFree] = [peer |-> c, fd |-> FirstFree, buf |-> << >>]
      BY <1>2, <1>6, SlotTaken
    <2>2. ASSUME NEW d \in Client, calls'[d] <= 1, d # c PROVE FirstCall(d)'
      <3>1. FirstCall(d)
        BY <1>4, <2>2 DEF CallInv
      <3>2. link'[d] = link[d]
        BY <1>5, <1>6, <2>2
      <3>3. toClient'[d] = toClient[d]
        BY <1>6
      <3>4. \A j \in Slot : conns'[j].peer = d =>
                              conns[j].peer = d /\ conns'[j].buf = conns[j].buf
        BY <2>1, <2>2
      <3>5. QED
        BY <1>4, <3>1, <3>2, <3>3, <3>4, FirstCallKept
    <2>3. ASSUME NEW d \in Client, calls'[d] <= 1, d = c PROVE FirstCall(d)'
      <3>1. FirstCall(d) /\ handled[d] = << >>
        BY <1>3, <1>4, <2>3 DEF CallInv, FirstCall, Requested
      <3>2. link'[d] = "up" /\ link[d] = "pending"
        BY <1>3, <1>5, <1>6, <2>3
      <3>3. Requested(d)' /\ Refused(d)' /\ handled'[d] # << 1 >>
        BY <1>4, <1>6, <3>1, <3>2, OneElement DEF FirstCall, Requested, Refused, Text
      <3>4. \A i \in InUse : conns[i].peer # c
        BY <1>1, <1>2, <1>3 DEF SlotsInv
      <3>5. \A j \in Slot : conns'[j].peer = c => j = FirstFree
        BY <1>2, <2>1, <3>4, Constants DEF InUse
      <3>6. ASSUME NEW j \in Slot, conns'[j].peer = d PROVE Arrived(d, j)'
        <4>1. conns'[j].buf = << >> /\ Len(<< >>) = 0
          BY <2>1, <2>3, <3>5, <3>6
        <4>2. Len(toServer[d]) \in Nat /\ Len(toServer[d]) <= MsgCells
          BY <3>1, EmptyByLength DEF FirstCall, Requested, TypesInv
        <4>3. QED
          BY <1>4, <4>1, <4>2, Constants DEF Arrived
      <3>7. QED
        BY <1>4, <3>1, <3>3, <3>6 DEF FirstCall
    <2>4. QED
      BY <1>4, <2>2, <2>3 DEF CallInv
  <1>7. CASE /\ toClient' = [toClient EXCEPT ![c] = @ \o Text]
             /\ link' = [link EXCEPT ![c] = "cut"]
             /\ UNCHANGED conns
    <2>1. ASSUME NEW d \in Client, calls'[d] <= 1, d # c PROVE FirstCall(d)'
      <3>1. FirstCall(d)
        BY <1>4, <2>1 DEF CallInv
      <3>2. link'[d] = link[d] /\ toClient'[d] = toClient[d] /\ conns' = conns
        BY <1>5, <1>7, <2>1
      <3>3. QED
        BY <1>4, <3>1, <3>2, FirstCallKept
    <2>2. ASSUME NEW d \in Client, calls'[d] <= 1, d = c PROVE FirstCall(d)'
      <3>1. FirstCall(d) /\ handled[d] = << >> /\ Refused(d)
        BY <1>3, <1>4, <2>2 DEF CallInv, FirstCall, Requested
      <3>2. link'[d] = "cut" /\ toClient'[d] = toClient[d] \o Text /\ conns' = conns
        BY <1>5, <1>7, <2>2
      <3>3. Text \in Seq({Text[1]})
        <4>1. Text = << Text[1] >>
          BY DEF Text
        <4>2. \A x : << x >> \in Seq({x})
          OBVIOUS
        <4>3. QED
          BY <4>1, <4>2
      <3>4. toClient'[d] \in Seq({Text[1]})
        BY <3>1, <3>2, <3>3, ConcatProperties DEF Refused
      <3>5. Refused(d)'
        BY <1>4, <3>1, <3>2, <3>4 DEF Refused, Text
      <3>6. Requested(d)'
        BY <1>4, <3>1, <3>2 DEF FirstCall, Requested
      <3>7. \A j \in Slot : conns'[j].peer = d => Arrived(d, j)'
        BY <1>4, <3>1, <3>2 DEF FirstCall, Arrived
      <3>8. QED
        BY <1>4, <3>1, <3>5, <3>6, <3>7, OneElement DEF FirstCall
    <2>3. QED
      BY <1>4, <2>1, <2>2 DEF CallInv
  <1>8. QED
    BY <1>6, <1>7 DEF HandleNewConnection

LEMMA CallInvHandle ==
    ASSUME ServerInv, CallInv, NEW i \in Slot, HandleConnection(i)
    PROVE  CallInv'
  <1> USE DEF ServerInv
  <1> DEFINE c == conns[i].peer
  <1>1. srv = "running" /\ i \in InUse
    BY DEF HandleConnection, SlotsInv
  <1>2. c \in Client /\ c # NoClient
    BY <1>1 DEF InUse, TypesInv
  <1>3. link \in [Client -> {"none", "pending", "up", "cut"}] /\ calls \in [Client -> Nat]
        /\ toServer \in [Client -> Seq(Cell)] /\ toClient \in [Client -> Seq(Cell)]
        /\ conns \in [Slot -> [peer : Client \cup {NoClient}, fd : 0..NumConns,
                               buf : Seq(Cell)]]
        /\ handled \in [Client -> Seq(Nat)] /\ answers \in [Client -> Seq(Nat \X Nat)]
    BY DEF TypesInv, CallInv
  <1>4. link[c] = "up"
    BY <1>1, <1>2 DEF SlotsInv
  <1>5. /\ conns[i].buf \in Seq(Sent("req", c)) /\ Len(conns[i].buf) <= BufCells
        /\ toServer[c] \in Seq(Sent("req", c))
    BY <1>2, SMTT(20) DEF CellsInv, SlotCells, ClientCells
  <1>6. PICK n \in Received(toServer[c], conns[i].buf) :
           LET b == conns[i].buf \o Front(toServer[c], n)
           IN  /\ toServer' = [toServer EXCEPT ![c] = Rest(@, n)]
               /\ \/ /\ n = 0
                     /\ CloseConnection(i)
                     /\ ready' = ready \ {i}
                     /\ UNCHANGED <<srv, pending, toClient, handled>>
                  \/ /\ n > 0
                     /\ conns' = [conns EXCEPT ![i].buf = b]
                     /\ UNCHANGED num_conns
                     /\ \/ /\ ~ParsesOK(b)
                           /\ ready' = ready \ {i}
                           /\ UNCHANGED <<srv, link, pending, toClient, handled>>
                        \/ /\ ParsesOK(b)
                           /\ handled' = [handled EXCEPT ![c] = Append(@, Parsed(b))]
                           /\ SendResponse(i, c, Parsed(b))
    BY DEF HandleConnection
  <1> DEFINE b == conns[i].buf \o Front(toServer[c], n)
             rest == Rest(toServer[c], n)
  <1>7. n \in 0..Len(toServer[c])
    BY <1>5, ReceivedBounds
  <1>8. /\ rest \in Seq(Sent("req", c)) /\ Len(rest) = Len(toServer[c]) - n
        /\ Front(toServer[c], n) \in Seq(Sent("req", c)) /\ Len(Front(toServer[c], n)) = n
    BY <1>5, <1>7, RestCells
  <1>9. b \in Seq(Sent("req", c)) /\ Len(b) = Len(conns[i].buf) + n
    <2>1. /\ b \in Seq(Sent("req", c))
          /\ Len(b) = Len(conns[i].buf) + Len(Front(toServer[c], n))
      BY <1>5, <1>8, ConcatProperties
    <2> HIDE DEF b
    <2>2. QED
      BY <1>8, <2>1
  <1>10. /\ Len(b) \in Nat /\ Len(rest) \in Nat /\ Len(toServer[c]) \in Nat
         /\ Len(conns[i].buf) \in Nat
         /\ (toServer[c] = << >> <=> Len(toServer[c]) = 0) /\ (rest = << >> <=> Len(rest) = 0)
         /\ (b = << >> <=> Len(b) = 0)
    BY <1>5, <1>8, <1>9, EmptyByLength
  <1>11. UNCHANGED <<buf, calls, answers>>
    BY DEF HandleConnection, clients
  <1>12. toServer' = [toServer EXCEPT ![c] = rest]
    BY <1>6
  <1> HIDE DEF b, rest
  <1>13. toServer'[c] = rest /\ \A d \in Client : d # c => toServer'[d] = toServer[d]
    BY <1>2, <1>3, <1>12
  \* The other clients.
  <1>14. ASSUME NEW d \in Client, calls'[d] <= 1, d # c,
                handled'[d] = handled[d], toClient'[d] = toClient[d],
                link'[d] = link[d] \/ link'[d] = "cut",
                \A j \in Slot : j # i => conns'[j] = conns[j],
                conns'[i].peer # d
         PROVE  FirstCall(d)'
    <2>1. FirstCall(d)
      BY <1>11, <1>14 DEF CallInv
    <2>2. \A j \in Slot : conns'[j].peer = d =>
                              conns[j].peer = d /\ conns'[j].buf = conns[j].buf
      BY <1>14
    <2>3. QED
      BY <1>11, <1>13, <1>14, <2>1, <2>2, FirstCallKept
  <1>15. CASE n = 0 /\ CloseConnection(i) /\ UNCHANGED <<toClient, handled>>
    <2>1. /\ \A j \in Slot : j # i => conns'[j] = conns[j]
          /\ conns'[i].peer = NoClient
      BY <1>1, <1>15, SlotCleared DEF CloseConnection, Free
    <2>2. \A d \in Client : (d # c => link'[d] = link[d]) /\ (d = c => link'[d] = "cut")
      BY <1>3, <1>15 DEF CloseConnection
    <2>3. ASSUME NEW d \in Client, calls'[d] <= 1, d # c PROVE FirstCall(d)'
      BY <1>14, <1>15, <2>1, <2>2, <2>3, Constants
    <2>4. ASSUME NEW d \in Client, calls'[d] <= 1, d = c PROVE FirstCall(d)'
      <3>1. FirstCall(d)
        BY <1>11, <2>4 DEF CallInv
      <3>2. Len(rest) = Len(toServer[c])
        BY <1>7, <1>8, <1>10, <1>15
      <3>3. Requested(d)'
        BY <1>10, <1>11, <1>13, <1>15, <2>2, <2>4, <3>1, <3>2 DEF FirstCall, Requested
      <3>4. \A j \in Slot : conns'[j].peer # d
        <4>1. \A j \in Slot : j # i => conns[j].peer # c
          BY <1>1, <1>2 DEF SlotsInv, InUse
        <4>2. QED
          BY <1>2, <2>1, <2>4, <4>1
      <3>5. handled[d] = << >> => Refused(d)'
        BY <1>11, <1>15, <2>2, <2>4, <3>1 DEF FirstCall, Refused, Text
      <3>6. handled[d] = << 1 >> => Responded(d)'
        BY <1>11, <1>15, <3>1 DEF FirstCall, Responded, FirstResponse
      <3>7. QED
        BY <1>15, <3>3, <3>4, <3>5, <3>6 DEF FirstCall
    <2>5. QED
      BY <1>3, <1>11, <1>15, <2>3, <2>4 DEF CallInv
  <1>16. ASSUME n > 0, conns' = [conns EXCEPT ![i].buf = b],
                NEW h, handled' = [handled EXCEPT ![c] = h], h \in Seq(Nat),
                NEW t, toClient' = [toClient EXCEPT ![c] = t],
                \A d \in Client : link'[d] = link[d] \/ link'[d] = "cut",
                link'[c] = "cut" => t = toClient[c],
                calls[c] = 1 =>
                    \/ Len(b) < MsgCells /\ h = << >> /\ t = toClient[c]
                    \/ Len(b) >= MsgCells /\ h = << 1 >> /\ t \in Seq(FirstResponse)
                       /\ Len(t) <= MsgCells
         PROVE  CallInv'
    <2>1. /\ \A j \in Slot : conns'[j].peer = conns[j].peer
          /\ \A j \in Slot : j # i => conns'[j] = conns[j]
          /\ conns'[i].buf = b
      BY <1>3, <1>16
    <2>2. /\ handled' \in [Client -> Seq(Nat)]
          /\ handled'[c] = h /\ toClient'[c] = t
          /\ \A d \in Client : d # c => handled'[d] = handled[d] /\ toClient'[d] = toClient[d]
      BY <1>2, <1>3, <1>16
    <2>3. ASSUME NEW d \in Client, calls'[d] <= 1, d # c PROVE FirstCall(d)'
      BY <1>14, <1>16, <2>1, <2>2, <2>3
    <2>4. ASSUME NEW d \in Client, calls'[d] <= 1, d = c PROVE FirstCall(d)'
      <3>1. FirstCall(d) /\ Requested(d) /\ Arrived(d, i)
        BY <1>11, <2>4 DEF CallInv, FirstCall
      <3>2. Len(toServer[c]) > 0 /\ toServer[c] # << >>
        BY <1>7, <1>10, <1>16
      <3>3. calls[c] = 1 /\ handled[c] = << >>
        BY <1>3, <1>11, <2>4, <3>1, <3>2 DEF Requested
      <3>4. /\ answers[c] = << >> /\ buf[c] = << >> /\ toClient[c] = << >>
        BY <1>4, <2>4, <3>1, <3>3 DEF FirstCall, Refused
      <3>5. Len(b) + Len(rest) <= MsgCells /\ Len(rest) <= MsgCells
        <4>1. Len(conns[i].buf) + Len(toServer[c]) <= MsgCells
          BY <2>4, <3>1 DEF Arrived
        <4>2. n \in Nat /\ MsgCells \in Nat
          BY <1>7, <1>10, Constants
        <4>3. Len(conns[i].buf) \in Nat /\ Len(toServer[c]) \in Nat
              /\ n <= Len(toServer[c])
          BY <1>7, <1>10
        <4>4. Len(b) = Len(conns[i].buf) + n /\ Len(rest) = Len(toServer[c]) - n
          BY <1>8, <1>9
        <4>5. \A j, k, l, m \in Nat : j + k <= m /\ l <= k =>
                                          (j + l) + (k - l) <= m /\ k - l <= m
          OBVIOUS
        <4>6. PICK j, k, l, o : /\ j = Len(conns[i].buf) /\ k = Len(toServer[c])
                                /\ l = n /\ o = MsgCells
          OBVIOUS
        <4>7. (j + l) + (k - l) <= o /\ k - l <= o
          BY <4>1, <4>2, <4>3, <4>5, <4>6
        <4>8. QED
          BY <4>4, <4>6, <4>7
      <3>6. \A j \in Slot : conns'[j].peer = d => j = i
        BY <1>1, <1>2, <2>1, <2>4 DEF SlotsInv, InUse
      <3>7. link'[c] = "up" \/ link'[c] = "cut"
        BY <1>2, <1>4, <1>16
      <3> DEFINE next == /\ calls'[d] = 1 /\ handled'[d] = h /\ answers'[d] = << >>
                         /\ buf'[d] = << >> /\ toServer'[d] = rest /\ toClient'[d] = t
                         /\ link'[d] \in {"up", "cut"}
      <3>11. next
        BY <1>11, <1>13, <2>2, <2>4, <3>3, <3>4, <3>7
      <3>12. ASSUME NEW j \in Slot, conns'[j].peer = d, h = << >> => Len(b) < MsgCells
             PROVE  Arrived(d, j)'
        <4>1. conns'[j].buf = b
          BY <2>1, <3>6, <3>12
        <4>2. QED
          BY <3>5, <3>11, <3>12, <4>1 DEF Arrived
      <3>13. /\ h = << >> => Requested(d)'
             /\ h = << 1 >> /\ rest = << >> => Requested(d)'
        <4>1. /\ calls'[d] # 0 /\ link'[d] \notin {"none", "pending"}
              /\ Len(toServer'[d]) <= MsgCells
          BY <3>5, <3>11
        <4>2. h = << >> => h # << 1 >>
          BY OneElement
        <4>3. handled'[d] = h /\ toServer'[d] = rest
          BY <3>11
        <4> HIDE DEF next
        <4>4. h = << >> => Requested(d)'
          BY <4>1, <4>2, <4>3 DEF Requested
        <4>5. h = << 1 >> /\ rest = << >> => Requested(d)'
          BY <4>1, <4>3 DEF Requested
        <4>6. QED
          BY <4>4, <4>5
      <3> HIDE DEF next
      <3>8. CASE Len(b) < MsgCells /\ h = << >> /\ t = toClient[c]
        <4>1. Requested(d)'
          BY <3>8, <3>13
        <4>2. \A j \in Slot : conns'[j].peer = d => Arrived(d, j)'
          BY <3>8, <3>12
        <4>3. << >> \in Seq({Text[1]})
          BY EmptySeq
        <4>4. Refused(d)'
          BY <1>11, <2>2, <2>4, <3>4, <3>8, <4>3 DEF Refused, Text
        <4>5. QED
          BY <2>2, <2>4, <3>8, <4>1, <4>2, <4>4, OneElement DEF FirstCall
      <3>9. CASE Len(b) >= MsgCells /\ h = << 1 >> /\ t \in Seq(FirstResponse)
                 /\ Len(t) <= MsgCells
        <4>1. Len(rest) = 0 /\ rest = << >> /\ Len(b) = MsgCells
          BY <1>10, <3>5, <3>9, Constants
        <4>2. Requested(d)'
          BY <3>9, <3>13, <4>1
        <4>3. \A j \in Slot : conns'[j].peer = d => Arrived(d, j)'
          BY <3>9, <3>12, OneElement
        <4>4. << >> \in Seq(FirstResponse) /\ Len(<< >>) = 0 /\ Len(t) \in Nat
          BY <3>9, EmptySeq, EmptyByLength
        <4>5. Responded(d)'
          BY <1>11, <2>2, <2>4, <3>4, <3>9, <4>4, Constants DEF Responded, FirstResponse
        <4>6. QED
          BY <2>2, <2>4, <3>9, <4>2, <4>3, <4>5, OneElement DEF FirstCall
      <3>10. QED
        BY <1>16, <3>3, <3>8, <3>9
    <2>5. QED
      BY <1>3, <1>11, <2>2, <2>3, <2>4 DEF CallInv
  <1>17. CASE n > 0
    <2>1. b # << >>
      BY <1>7, <1>9, <1>10, <1>17
    <2>2. ParsesOK(b) <=> Len(b) >= MsgCells
      BY <1>2, <1>9, <2>1, RequestIsParsed
    <2>3. [handled EXCEPT ![c] = handled[c]] = handled
          /\ [toClient EXCEPT ![c] = toClient[c]] = toClient
      BY <1>2, <1>3
    <2>4. calls[c] = 1 => handled[c] = << >>
      <3>1. Len(toServer[c]) > 0 /\ toServer[c] # << >>
        BY <1>7, <1>10, <1>17
      <3>2. calls[c] = 1 => Requested(c)
        BY <1>2 DEF CallInv, FirstCall
      <3>3. QED
        BY <3>1, <3>2 DEF Requested
    <2>5. handled[c] \in Seq(Nat) /\ Len(b) \in Nat /\ MsgCells \in Nat
      BY <1>2, <1>3, <1>10, Constants
    <2>6. CASE /\ conns' = [conns EXCEPT ![i].buf = b]
               /\ ~ParsesOK(b) /\ UNCHANGED <<link, toClient, handled>>
      <3>1. Len(b) < MsgCells
        BY <2>2, <2>5, <2>6
      <3>2. /\ handled' = [handled EXCEPT ![c] = handled[c]]
            /\ toClient' = [toClient EXCEPT ![c] = toClient[c]]
        BY <2>3, <2>6
      <3>3. \A d \in Client : link'[d] = link[d]
        BY <2>6
      <3>4. QED
        BY <1>16, <1>17, <2>4, <2>5, <2>6, <3>1, <3>2, <3>3
    <2>7. CASE /\ conns' = [conns EXCEPT ![i].buf = b]
               /\ ParsesOK(b) /\ handled' = [handled EXCEPT ![c] = Append(@, Parsed(b))]
               /\ SendResponse(i, c, Parsed(b))
      <3>1. Len(b) >= MsgCells /\ calls[c] \in Nat
        BY <1>2, <1>3, <2>2, <2>7
      <3>2. Parsed(b) \in 1..calls[c]
        BY <1>2, <1>9, <2>7, <3>1, ParsedIsSent
      <3>3. Append(handled[c], Parsed(b)) \in Seq(Nat)
        BY <2>5, <3>1, <3>2, AppendProperties
      <3>4. calls[c] = 1 => Parsed(b) = 1 /\ Append(handled[c], Parsed(b)) = << 1 >>
        <4>1. calls[c] = 1 => Parsed(b) = 1
          BY <3>2
        <4>2. Append(<< >>, 1) = << 1 >>
          BY OneElement
        <4>3. QED
          BY <2>4, <4>1, <4>2
      <3>5. handled' = [handled EXCEPT ![c] = Append(handled[c], Parsed(b))]
        BY <2>7
      <3>6. calls[c] = 1 => toClient[c] = << >>
        BY <1>2, <1>4, <2>4 DEF CallInv, FirstCall, Refused
      <3>7. << >> \in Seq(FirstResponse) /\ Len(<< >>) = 0
        BY EmptySeq
      <3>8. Message("res", 1) \in Seq(FirstResponse) /\ Len(Message("res", 1)) = MsgCells
        <4>1. Message("res", 1) \in [1..MsgCells -> FirstResponse]
          BY DEF Message, FirstResponse
        <4>2. QED
          BY <2>5, <4>1, SeqDef
      <3>9. calls[c] = 1 => toClient[c] \o Message("res", Parsed(b)) = Message("res", 1)
        BY <3>4, <3>6, <3>8, ConcatEmptySeq
      <3>10. CASE /\ toClient' = [toClient EXCEPT ![c] =
                        IF PeerGone(c) THEN @ ELSE @ \o Message("res", Parsed(b))]
                  /\ UNCHANGED link
        <4> DEFINE t == IF PeerGone(c) THEN toClient[c]
                                       ELSE toClient[c] \o Message("res", Parsed(b))
        <4>1. toClient' = [toClient EXCEPT ![c] = t]
          BY <3>10
        <4>2. calls[c] = 1 => t \in Seq(FirstResponse) /\ Len(t) <= MsgCells
          <5> SUFFICES ASSUME calls[c] = 1
                       PROVE  t \in Seq(FirstResponse) /\ Len(t) <= MsgCells
            OBVIOUS
          <5>1. t = << >> \/ t = Message("res", 1)
            BY <3>6, <3>9
          <5>2. 0 <= MsgCells /\ MsgCells <= MsgCells
            BY Constants
          <5> HIDE DEF t
          <5>3. QED
            BY <3>7, <3>8, <5>1, <5>2
        <4>3. (\A d \in Client : link'[d] = link[d]) /\ link'[c] # "cut"
          BY <1>4, <3>10
        <4> HIDE DEF t
        <4>4. conns' = [conns EXCEPT ![i].buf = b]
          BY <2>7
        <4>5. QED
          BY <1>16, <1>17, <3>1, <3>3, <3>4, <3>5, <4>1, <4>2, <4>3, <4>4
      <3>11. CASE ServerDies("killed") /\ UNCHANGED toClient
        <4>1. toClient' = [toClient EXCEPT ![c] = toClient[c]]
          BY <2>3, <3>11
        <4>2. \A d \in Client : link'[d] = link[d] \/ link'[d] = "cut"
          BY <1>3, <3>11 DEF ServerDies
        <4>3. calls[c] = 1 => toClient[c] \in Seq(FirstResponse) /\ Len(toClient[c]) <= MsgCells
          <5>1. 0 <= MsgCells
            BY Constants
          <5>2. Len(<< >>) <= MsgCells
            BY <3>7, <5>1
          <5>3. QED
            BY <3>6, <3>7, <5>2
        <4>4. conns' = [conns EXCEPT ![i].buf = b]
          BY <2>7
        <4>5. QED
          BY <1>16, <1>17, <3>1, <3>3, <3>4, <3>5, <4>1, <4>2, <4>3, <4>4
      <3>12. QED
        BY <2>7, <3>10, <3>11 DEF SendResponse
    <2>8. n # 0
      BY <1>17
    <2>9. QED
      BY <1>6, <2>6, <2>7, <2>8 DEF b
  <1>18. QED
    BY <1>6, <1>7, <1>10, <1>15, <1>17

LEMMA CallInvCall ==
    ASSUME ServerInv, CallInv, NEW c \in Client, Call(c)
    PROVE  CallInv'
  <1> USE DEF ServerInv
  <1>1. UNCHANGED <<conns, buf, link, toClient, handled, answers>>
    BY DEF Call, server
  <1>2. calls \in [Client -> Nat] /\ toServer \in [Client -> Seq(Cell)]
    BY DEF TypesInv
  <1>3. CASE UNCHANGED <<calls, toServer>>
    BY <1>1, <1>3, CallInvKept
  <1>4. ASSUME calls' = [calls EXCEPT ![c] = @ + 1],
               NEW q, toServer' = [toServer EXCEPT ![c] = q],
               q = toServer[c] \/ q = toServer[c] \o Message("req", calls'[c])
        PROVE  CallInv'
    <2>1. /\ calls'[c] = calls[c] + 1 /\ toServer'[c] = q
          /\ \A d \in Client : d # c => calls'[d] = calls[d] /\ toServer'[d] = toServer[d]
      BY <1>2, <1>4
    <2>2. ASSUME NEW d \in Client, calls'[d] <= 1, d # c PROVE FirstCall(d)'
      <3>1. FirstCall(d)
        BY <2>1, <2>2 DEF CallInv
      <3>2. QED
        BY <1>1, <2>1, <2>2, <3>1, FirstCallKept
    <2>3. ASSUME calls'[c] <= 1 PROVE FirstCall(c)'
      <3>1. calls[c] = 0 /\ calls'[c] = 1
        BY <1>2, <2>1, <2>3
      <3>2. FirstCall(c)
        BY <3>1 DEF CallInv
      <3>3. handled[c] = << >> /\ toServer[c] = << >> /\ handled[c] # << 1 >>
        BY <3>1, <3>2, OneElement DEF FirstCall, Requested
      <3>4. q = << >> \/ q = Message("req", 1)
        <4> DEFINE S == {<<"req", 1, i>> : i \in 1..MsgCells}
        <4>1. Message("req", 1) \in [1..MsgCells -> S]
          BY DEF Message
        <4> HIDE DEF S
        <4>2. Message("req", 1) \in Seq(S)
          BY <4>1, Constants, SeqDef
        <4>3. << >> \o Message("req", 1) = Message("req", 1)
          BY <4>2, ConcatEmptySeq
        <4>4. QED
          BY <1>4, <3>1, <3>3, <4>3
      <3>5. Len(q) <= MsgCells
        <4>1. Len(Message("req", 1)) = MsgCells
          BY Constants DEF Message
        <4>2. Len(<< >>) <= MsgCells /\ MsgCells <= MsgCells
          BY Constants, EmptySeq
        <4>3. QED
          BY <3>4, <4>1, <4>2
      <3>6. Requested(c)'
        BY <1>1, <2>1, <3>1, <3>3, <3>5 DEF Requested
      <3>7. ASSUME NEW j \in Slot, conns'[j].peer = c PROVE Arrived(c, j)'
        <4>1. conns[j].buf = << >> /\ conns' = conns
          BY <1>1, <3>1, <3>2, <3>7 DEF FirstCall, Arrived
        <4>2. Len(<< >>) = 0 /\ 0 < MsgCells /\ Len(q) \in Nat
          <5>1. Len(Message("req", 1)) = MsgCells
            BY Constants DEF Message
          <5>2. QED
            BY <3>4, <5>1, Constants, EmptySeq
        <4>3. Len(conns'[j].buf) + Len(toServer'[c]) <= MsgCells
          BY <2>1, <3>5, <4>1, <4>2
        <4>4. QED
          BY <4>1, <4>2, <4>3 DEF Arrived
      <3>8. Refused(c)'
        BY <1>1, <3>2, <3>3 DEF FirstCall, Refused, Text
      <3>9. QED
        BY <1>1, <3>3, <3>6, <3>7, <3>8 DEF FirstCall
    <2>4. \A d \in Client : calls'[d] <= 1 => FirstCall(d)'
      BY <2>2, <2>3
    <2>5. QED
      BY <1>1, <2>4 DEF CallInv
  <1>5. QED
    <2>1. [toServer EXCEPT ![c] = toServer[c]] = toServer
      BY <1>2
    <2>2. CASE UNCHANGED <<calls, toServer>>
      BY <1>3, <2>2
    <2>3. CASE /\ calls' = [calls EXCEPT ![c] = @ + 1]
               /\ \E up \in BOOLEAN :
                     toServer' = [toServer EXCEPT ![c] =
                                    IF up THEN @ \o Message("req", calls'[c]) ELSE @]
      <3>1. PICK up \in BOOLEAN :
                toServer' = [toServer EXCEPT ![c] =
                               IF up THEN @ \o Message("req", calls'[c]) ELSE @]
        BY <2>3
      <3>2. \/ toServer' = [toServer EXCEPT ![c] = toServer[c]]
            \/ toServer' = [toServer EXCEPT ![c] = toServer[c] \o Message("req", calls'[c])]
        BY <3>1
      <3>3. QED
        BY <1>4, <2>3, <3>2
    <2>4. QED
      BY <2>2, <2>3 DEF Call

LEMMA CallInvUpdate ==
    ASSUME ServerInv, CallInv, NEW c \in Client, Update(c)
    PROVE  CallInv'
  <1> USE DEF ServerInv
  <1>1. UNCHANGED <<conns, link, toServer, calls, last, handled>>
    BY DEF Update, server
  <1>2. /\ calls \in [Client -> Nat] /\ last = calls
        /\ buf \in [Client -> Seq(Cell)] /\ toClient \in [Client -> Seq(Cell)]
        /\ answers \in [Client -> Seq(Nat \X Nat)]
    BY DEF TypesInv, CallInv
  <1>3. CASE UNCHANGED <<buf, toClient, answers>>
    BY <1>1, <1>3, CallInvKept
  <1>4. ASSUME NEW n \in Received(toClient[c], buf[c]) \ {0}, toClient[c] # << >>,
               toClient' = [toClient EXCEPT ![c] = Rest(@, n)],
               buf' = [buf EXCEPT ![c] = @ \o Front(toClient[c], n)],
               HandleResponse(c, buf'[c])
        PROVE  CallInv'
    <2>1. /\ buf[c] \in Seq(ResponseCells(c)) /\ Len(buf[c]) <= BufCells
          /\ toClient[c] \in Seq(ResponseCells(c))
      BY DEF CellsInv, ClientCells
    <2>2. n \in 0..Len(toClient[c]) /\ n # 0
      BY <1>4, <2>1, ReceivedBounds
    <2> DEFINE rest == Rest(toClient[c], n)
               b == buf[c] \o Front(toClient[c], n)
    <2>3. \A S : buf[c] \in Seq(S) /\ toClient[c] \in Seq(S) =>
                    /\ rest \in Seq(S) /\ Len(rest) = Len(toClient[c]) - n
                    /\ b \in Seq(S) /\ Len(b) = Len(buf[c]) + n
      <3>1. ASSUME NEW S, buf[c] \in Seq(S), toClient[c] \in Seq(S)
            PROVE  /\ rest \in Seq(S) /\ Len(rest) = Len(toClient[c]) - n
                   /\ b \in Seq(S) /\ Len(b) = Len(buf[c]) + n
        <4>1. /\ Rest(toClient[c], n) \in Seq(S)
              /\ Len(Rest(toClient[c], n)) = Len(toClient[c]) - n
              /\ Front(toClient[c], n) \in Seq(S) /\ Len(Front(toClient[c], n)) = n
          BY <2>2, <3>1, RestCells
        <4>2. QED
          BY <3>1, <4>1, ConcatProperties
      <3>2. QED
        BY <3>1
    <2>4. toClient' = [toClient EXCEPT ![c] = rest] /\ buf' = [buf EXCEPT ![c] = b]
      BY <1>4
    <2> HIDE DEF rest, b
    <2>5. /\ toClient'[c] = rest /\ buf'[c] = b
          /\ \A d \in Client : d # c => toClient'[d] = toClient[d] /\ buf'[d] = buf[d]
      BY <1>2, <2>4
    <2>6. answers' = IF ParsesOK(b) THEN [answers EXCEPT ![c] = Append(@, <<last[c], Parsed(b)>>)]
                                    ELSE answers
      <3>1. answers' = IF ParsesOK(buf'[c])
                       THEN [answers EXCEPT ![c] = Append(@, <<last[c], Parsed(buf'[c])>>)]
                       ELSE answers
        BY <1>4 DEF HandleResponse
      <3>2. buf'[c] = b
        BY <2>5
      <3>3. QED
        BY <3>1, <3>2
    <2>7. b \in Seq(ResponseCells(c)) /\ ResponseCells(c) \subseteq Cell
      BY <1>2, <2>1, <2>3, SentAreCells
    <2>8. /\ answers' \in [Client -> Seq(Nat \X Nat)]
          /\ answers'[c] = IF ParsesOK(b) THEN Append(answers[c], <<last[c], Parsed(b)>>)
                                          ELSE answers[c]
          /\ \A d \in Client : d # c => answers'[d] = answers[d]
      <3>1. CASE ParsesOK(b)
        <4>1. <<last[c], Parsed(b)>> \in Nat \X Nat
          BY <1>2, <2>7, <3>1, ResponseNumber
        <4>2. Append(answers[c], <<last[c], Parsed(b)>>) \in Seq(Nat \X Nat)
          BY <1>2, <4>1, AppendProperties
        <4>3. QED
          BY <1>2, <2>6, <3>1, <4>2
      <3>2. CASE ~ParsesOK(b)
        BY <1>2, <2>6, <3>2
      <3>3. QED
        BY <3>1, <3>2
    <2>9. ASSUME NEW d \in Client, calls'[d] <= 1, d # c PROVE FirstCall(d)'
      <3>1. FirstCall(d)
        BY <1>1, <2>9 DEF CallInv
      <3>2. QED
        BY <1>1, <2>5, <2>8, <2>9, <3>1, FirstCallKept
    <2>10. ASSUME calls'[c] <= 1 PROVE FirstCall(c)'
      <3>1. FirstCall(c)
        BY <1>1, <2>10 DEF CallInv
      <3>2. Requested(c)'
        BY <1>1, <3>1 DEF FirstCall, Requested
      <3>3. \A j \in Slot : conns'[j].peer = c => Arrived(c, j)'
        BY <1>1, <3>1 DEF FirstCall, Arrived
      <3>4. CASE handled[c] = << >>
        <4>1. Refused(c) /\ link[c] = "cut"
          BY <1>4, <3>1, <3>4 DEF FirstCall, Refused
        <4>2. rest \in Seq({Text[1]}) /\ b \in Seq({Text[1]})
          BY <2>3, <4>1 DEF Refused
        <4>3. ~ParsesOK(b)
          BY <4>2, TextIsNotParsed
        <4>4. Refused(c)'
          BY <1>1, <2>5, <2>8, <4>1, <4>2, <4>3 DEF Refused, Text
        <4>5. QED
          BY <1>1, <3>2, <3>3, <3>4, <4>4, OneElement DEF FirstCall
      <3>5. CASE handled[c] = << 1 >>
        <4>1. Responded(c) /\ calls[c] = 1
          <5>1. Responded(c) /\ calls[c] # 0
            BY <3>1, <3>5, OneElement DEF FirstCall, Requested
          <5>2. calls[c] \in Nat /\ calls[c] <= 1
            BY <1>1, <1>2, <2>10
          <5>3. QED
            BY <5>1, <5>2
        <4>2. /\ rest \in Seq(FirstResponse) /\ Len(rest) = Len(toClient[c]) - n
              /\ b \in Seq(FirstResponse) /\ Len(b) = Len(buf[c]) + n
          BY <2>3, <4>1 DEF Responded
        <4>3. /\ Len(buf[c]) \in Nat /\ Len(toClient[c]) \in Nat /\ n \in Nat /\ n > 0
              /\ Len(buf[c]) + Len(toClient[c]) <= MsgCells
              /\ n <= Len(toClient[c])
          <5>1. Len(buf[c]) \in Nat /\ Len(toClient[c]) \in Nat
            BY <2>1, EmptyByLength
          <5>2. n \in Nat /\ n > 0 /\ n <= Len(toClient[c])
            BY <2>2, <5>1
          <5>3. Len(buf[c]) + Len(toClient[c]) <= MsgCells
            BY <4>1 DEF Responded
          <5>4. QED
            BY <5>1, <5>2, <5>3
        <4>4. /\ Len(b) + Len(rest) <= MsgCells /\ b # << >>
              /\ Len(b) \in Nat /\ Len(rest) \in Nat
          <5>1. \A j, k, l, m \in Nat : j + k <= m /\ l <= k => (j + l) + (k - l) <= m
            OBVIOUS
          <5>2. Len(b) \in Nat /\ Len(b) > 0 /\ Len(rest) \in Nat
            BY <4>2, <4>3
          <5>3. Len(b) + Len(rest) <= MsgCells
            BY <4>2, <4>3, <5>1, Constants
          <5>4. b # << >>
            BY <4>2, <5>2, EmptyByLength
          <5>5. QED
            BY <5>2, <5>3, <5>4
        <4>5. (ParsesOK(b) <=> Len(b) >= MsgCells) /\ Parsed(b) = 1
          BY <4>2, <4>4, FirstResponseIsParsed
        <4>6. answers[c] = << >>
          BY <1>4, <4>1 DEF Responded
        <4>7. CASE ParsesOK(b)
          <5>1. Len(rest) = 0 /\ rest = << >>
            <6>1. Len(rest) = 0
              BY <4>4, <4>5, <4>7, Constants
            <6>2. QED
              BY <4>2, <6>1, EmptyByLength
          <5>2. answers'[c] = << <<1, 1>> >>
            <6>1. answers'[c] = Append(<< >>, <<1, 1>>)
              BY <1>2, <2>8, <4>1, <4>5, <4>6, <4>7
            <6>2. QED
              BY <6>1, OneElement
          <5>3. << <<1, 1>> >> # << >>
            BY OneElement
          <5>4. Responded(c)'
            BY <2>5, <4>2, <4>4, <5>1, <5>2, <5>3 DEF Responded, FirstResponse
          <5>5. QED
            BY <1>1, <3>2, <3>3, <3>5, <5>4, OneElement DEF FirstCall
        <4>8. CASE ~ParsesOK(b)
          <5>1. Len(b) < MsgCells /\ answers'[c] = << >>
            BY <2>8, <4>4, <4>5, <4>6, <4>8, Constants
          <5>2. Responded(c)'
            BY <2>5, <4>2, <4>4, <5>1 DEF Responded, FirstResponse
          <5>3. QED
            BY <1>1, <3>2, <3>3, <3>5, <5>2, OneElement DEF FirstCall
        <4>9. QED
          BY <4>7, <4>8
      <3>6. QED
        BY <3>1, <3>4, <3>5 DEF FirstCall, Requested
    <2>11. \A d \in Client : calls'[d] <= 1 => FirstCall(d)'
      BY <2>9, <2>10
    <2>12. QED
      BY <1>1, <2>8, <2>11 DEF CallInv
  <1>5. QED
    BY <1>3, <1>4 DEF Update

LEMMA CallInvNext ==
    ASSUME ServerInv, CallInv, [Next]_vars
    PROVE  CallInv'
  <1>1. ASSUME NEW i \in Slot, HandleConnection(i) PROVE CallInv'
    BY <1>1, CallInvHandle
  <1>2. ASSUME NEW c \in Client, Open(c) \/ Call(c) \/ Update(c) PROVE CallInv'
    BY <1>2, CallInvOpen, CallInvCall, CallInvUpdate
  <1>3. CASE HandleNewConnection
    BY <1>3, CallInvAccept
  <1>4. QED
    BY <1>1, <1>2, <1>3, CallInvQuiet DEF Next, ServerUpdate

-----------------------------------------------------------------------------
(* The promise of RpcCall. *)

Phases == [c \in Client |-> Phase(c)]

\* How far a first call has got is how much has been done for it.
InPhase(c) ==
    /\ calls[c] > 1 => Phase(c) = "over"
    /\ calls[c] = 0 => handled[c] = << >> /\ answers[c] = << >> /\ Phase(c) = "idle"
    /\ calls[c] = 1 =>
          \/ handled[c] = << >> /\ answers[c] = << >> /\ Phase(c) = "asked"
          \/ handled[c] = << 1 >> /\ answers[c] = << >> /\ Phase(c) = "executed"
          \/ handled[c] = << 1 >> /\ answers[c] = << <<1, 1>> >> /\ Phase(c) = "answered"

LEMMA PhaseIs == ServerInv /\ CallInv => \A c \in Client : InPhase(c)
  <1> SUFFICES ASSUME ServerInv, CallInv, NEW c \in Client PROVE InPhase(c)
    OBVIOUS
  <1>1. calls[c] \in Nat
    BY DEF ServerInv, TypesInv
  <1>2. << 1 >> # << >> /\ << <<1, 1>> >> # << >>
    BY OneElement
  <1>3. CASE calls[c] > 1
    BY <1>1, <1>3 DEF Phase, InPhase
  <1>4. CASE calls[c] <= 1
    <2>1. FirstCall(c)
      BY <1>4 DEF CallInv
    <2>2. CASE calls[c] = 0
      <3>1. handled[c] = << >> /\ answers[c] = << >>
        BY <2>1, <2>2 DEF FirstCall, Requested, Refused
      <3>2. QED
        BY <2>2, <3>1 DEF Phase, InPhase
    <2>3. CASE calls[c] = 1 /\ handled[c] = << >>
      <3>1. answers[c] = << >>
        BY <2>1, <2>3 DEF FirstCall, Refused
      <3>2. QED
        BY <2>3, <3>1 DEF Phase, InPhase
    <2>4. CASE calls[c] = 1 /\ handled[c] = << 1 >>
      <3>1. answers[c] \in {<< >>, << <<1, 1>> >>}
        BY <2>1, <2>4 DEF FirstCall, Responded
      <3>2. CASE answers[c] = << >>
        BY <1>2, <2>4, <3>2 DEF Phase, InPhase
      <3>3. CASE answers[c] = << <<1, 1>> >>
        BY <1>2, <2>4, <3>3 DEF Phase, InPhase
      <3>4. QED
        BY <3>1, <3>2, <3>3
    <2>5. handled[c] \in {<< >>, << 1 >>}
      BY <2>1 DEF FirstCall, Requested
    <2>6. QED
      BY <1>1, <1>4, <2>2, <2>3, <2>4, <2>5
  <1>5. QED
    BY <1>1, <1>3, <1>4

LEMMA PhaseIsNext == ServerInv' /\ CallInv' => (\A c \in Client : InPhase(c))'
  BY PhaseIs, PTL

LEMMA NoProgress ==
    ASSUME UNCHANGED <<calls, handled, answers>>
    PROVE  Phases' = Phases
  <1>1. \A c \in Client : Phase(c)' = Phase(c)
    BY DEF Phase
  <1>2. QED
    BY <1>1 DEF Phases

\* A step that does one thing for one client.
LEMMA Progress ==
    ASSUME ServerInv, CallInv, ServerInv', CallInv', NEW c \in Client,
           \A d \in Client : d # c => /\ calls'[d] = calls[d] /\ handled'[d] = handled[d]
                                      /\ answers'[d] = answers[d],
           \/ /\ calls'[c] = calls[c] + 1
              /\ handled'[c] = handled[c] /\ answers'[c] = answers[c]
           \/ /\ calls'[c] = calls[c] /\ handled'[c] # << >> /\ answers'[c] = answers[c]
           \/ /\ calls'[c] = calls[c] /\ handled'[c] = handled[c] /\ answers'[c] # << >>
    PROVE  Promise!RNext \/ Phases' = Phases
  <1>1. \A d \in Client : d # c => Phase(d)' = Phase(d)
    BY DEF Phase
  <1>2. InPhase(c) /\ InPhase(c)' /\ calls[c] \in Nat /\ calls'[c] \in Nat
    BY PhaseIs, PhaseIsNext DEF ServerInv, TypesInv
  <1>3. << 1 >> # << >> /\ << <<1, 1>> >> # << >>
    BY OneElement
  <1>4. CASE /\ calls'[c] = calls[c] + 1
             /\ handled'[c] = handled[c] /\ answers'[c] = answers[c]
    <2>1. CASE calls[c] = 0
      <3>1. Phase(c) = "idle" /\ handled[c] = << >>
        BY <1>2, <2>1 DEF InPhase
      <3>2. calls'[c] = 1 /\ handled'[c] = << >>
        BY <1>4, <2>1, <3>1
      <3>3. Phase(c)' = "asked"
        BY <1>2, <1>3, <3>2 DEF InPhase
      <3>4. Promise!Ask(c)
        BY <1>1, <3>1, <3>3 DEF Promise!Ask, Promise!Becomes
      <3>5. QED
        BY <3>4 DEF Promise!RNext
    <2>2. CASE calls[c] = 1
      <3>1. Phase(c) # "idle"
        BY <1>2, <2>2 DEF InPhase
      <3>2. calls'[c] > 1
        BY <1>4, <2>2
      <3>3. Phase(c)' = "over"
        BY <1>2, <3>2 DEF InPhase
      <3>4. Promise!GiveUp(c)
        BY <1>1, <3>1, <3>3 DEF Promise!GiveUp, Promise!Becomes
      <3>5. QED
        BY <3>4 DEF Promise!RNext
    <2>3. CASE calls[c] > 1
      <3>1. calls'[c] > 1
        BY <1>2, <1>4, <2>3
      <3>2. Phase(c) = "over" /\ Phase(c)' = "over"
        BY <1>2, <2>3, <3>1 DEF InPhase
      <3>3. QED
        BY <1>1, <3>2 DEF Phases
    <2>4. QED
      BY <1>2, <2>1, <2>2, <2>3
  <1>5. CASE calls'[c] = calls[c] /\ handled'[c] # << >> /\ answers'[c] = answers[c]
    <2>1. \/ Phase(c)' = Phase(c)
          \/ Phase(c) = "asked" /\ Phase(c)' = "executed"
      <3>1. CASE calls[c] > 1
        BY <1>2, <1>5, <3>1 DEF InPhase
      <3>2. CASE calls[c] = 0
        BY <1>2, <1>5, <3>2 DEF InPhase
      <3>3. CASE calls[c] = 1
        <4>1. calls'[c] = 1
          BY <1>5, <3>3
        <4>2. \/ answers'[c] = << >> /\ Phase(c)' = "executed"
              \/ answers'[c] = << <<1, 1>> >> /\ Phase(c)' = "answered"
          BY <1>2, <1>5, <4>1 DEF InPhase
        <4>3. \/ answers[c] = << >> /\ Phase(c) \in {"asked", "executed"}
              \/ answers[c] = << <<1, 1>> >> /\ Phase(c) = "answered"
          BY <1>2, <3>3 DEF InPhase
        <4>4. QED
          BY <1>3, <1>5, <4>2, <4>3
      <3>4. QED
        BY <1>2, <3>1, <3>2, <3>3
    <2>2. Promise!Execute(c) \/ Phases' = Phases
      BY <1>1, <2>1 DEF Promise!Execute, Promise!Becomes, Phases
    <2>3. QED
      BY <2>2 DEF Promise!RNext
  <1>6. CASE calls'[c] = calls[c] /\ handled'[c] = handled[c] /\ answers'[c] # << >>
    <2>1. \/ Phase(c)' = Phase(c)
          \/ Phase(c) = "executed" /\ Phase(c)' = "answered"
      <3>1. CASE calls[c] > 1
        BY <1>2, <1>6, <3>1 DEF InPhase
      <3>2. CASE calls[c] = 0
        BY <1>2, <1>6, <3>2 DEF InPhase
      <3>3. CASE calls[c] = 1
        <4>1. calls'[c] = 1
          BY <1>6, <3>3
        <4>2. handled'[c] = << 1 >> /\ Phase(c)' = "answered"
          BY <1>2, <1>6, <4>1 DEF InPhase
        <4>3. \/ handled[c] = << >>
              \/ handled[c] = << 1 >> /\ Phase(c) \in {"executed", "answered"}
          BY <1>2, <3>3 DEF InPhase
        <4>4. QED
          BY <1>3, <1>6, <4>2, <4>3
      <3>4. QED
        BY <1>2, <3>1, <3>2, <3>3
    <2>2. Promise!Answer(c) \/ Phases' = Phases
      BY <1>1, <2>1 DEF Promise!Answer, Promise!Becomes, Phases
    <2>3. QED
      BY <2>2 DEF Promise!RNext
  <1>7. QED
    BY <1>4, <1>5, <1>6

LEMMA AppendIsNotEmpty ==
    ASSUME NEW S, NEW s \in Seq(S), NEW x
    PROVE  Append(s, x) # << >>
  <1>1. s \in Seq(S \cup {x}) /\ x \in S \cup {x}
    BY SeqMonotonic
  <1>2. QED
    BY <1>1, AppendProperties

LEMMA PhasesStep ==
    ASSUME ServerInv, CallInv, ServerInv', CallInv', [Next]_vars
    PROVE  Promise!RNext \/ Phases' = Phases
  <1>1. /\ calls \in [Client -> Nat] /\ handled \in [Client -> Seq(Nat)]
        /\ answers \in [Client -> Seq(Nat \X Nat)]
    BY DEF ServerInv, TypesInv, CallInv
  <1>2. CASE UNCHANGED <<calls, handled, answers>>
    BY <1>2, NoProgress
  <1>3. ASSUME NEW i \in Slot, HandleConnection(i)
        PROVE  Promise!RNext \/ Phases' = Phases
    <2> DEFINE c == conns[i].peer
    <2>1. UNCHANGED <<calls, answers>>
          /\ (handled' = handled \/ \E k : handled' = [handled EXCEPT ![c] = Append(@, k)])
      BY <1>3 DEF HandleConnection
    <2>2. c \in Client
      BY <1>3 DEF HandleConnection, ServerInv, SlotsInv, TypesInv, InUse
    <2>3. CASE handled' = handled
      BY <1>2, <2>1, <2>3
    <2>4. ASSUME NEW k, handled' = [handled EXCEPT ![c] = Append(@, k)]
          PROVE  Promise!RNext \/ Phases' = Phases
      <3>1. Append(handled[c], k) # << >>
        BY <1>1, <2>2, AppendIsNotEmpty
      <3>2. handled'[c] # << >> /\ \A d \in Client : d # c => handled'[d] = handled[d]
        BY <1>1, <2>2, <2>4, <3>1
      <3>3. QED
        BY <2>1, <2>2, <3>2, Progress
    <2>5. QED
      BY <2>1, <2>3, <2>4
  <1>4. ASSUME NEW c \in Client, Call(c)
        PROVE  Promise!RNext \/ Phases' = Phases
    <2>1. UNCHANGED <<handled, answers>>
          /\ (calls' = calls \/ calls' = [calls EXCEPT ![c] = @ + 1])
      BY <1>4 DEF Call
    <2>2. CASE calls' = [calls EXCEPT ![c] = @ + 1]
      <3>1. calls'[c] = calls[c] + 1 /\ \A d \in Client : d # c => calls'[d] = calls[d]
        BY <1>1, <2>2
      <3>2. QED
        BY <2>1, <3>1, Progress
    <2>3. QED
      BY <1>2, <2>1, <2>2
  <1>5. ASSUME NEW c \in Client, Update(c)
        PROVE  Promise!RNext \/ Phases' = Phases
    <2>1. UNCHANGED <<calls, handled>>
          /\ (answers' = answers \/ \E x : answers' = [answers EXCEPT ![c] = Append(@, x)])
      BY <1>5 DEF Update, HandleResponse
    <2>2. CASE answers' = answers
      BY <1>2, <2>1, <2>2
    <2>3. ASSUME NEW x, answers' = [answers EXCEPT ![c] = Append(@, x)]
          PROVE  Promise!RNext \/ Phases' = Phases
      <3>1. Append(answers[c], x) # << >>
        BY <1>1, AppendIsNotEmpty
      <3>2. answers'[c] # << >> /\ \A d \in Client : d # c => answers'[d] = answers[d]
        BY <1>1, <2>3, <3>1
      <3>3. QED
        BY <2>1, <3>2, Progress
    <2>4. QED
      BY <2>1, <2>2, <2>3
  <1>6. ASSUME \/ Select \/ UpdateClosedServer \/ HandleNewConnection \/ OpenServer
               \/ CloseServer \/ UNCHANGED vars \/ \E c \in Client : Open(c) \/ Close(c)
        PROVE  UNCHANGED <<calls, handled, answers>>
    BY <1>6 DEF Select, UpdateClosedServer, HandleNewConnection, OpenServer, CloseServer,
                Open, Close, vars, history
  <1>7. QED
    BY <1>2, <1>3, <1>4, <1>5, <1>6 DEF Next, ServerUpdate

\* The first call on a connection is handled at most once and answered at most
\* once, in this order and with its own response: through every interleaving of
\* the two event loops, however short recv's reads are, and whichever process
\* is killed or connection closed on the way.
THEOREM SocketImplementsCall == Spec => ImplementsCall
  <1>1. Init => Promise!RInit
    <2> SUFFICES ASSUME Init PROVE Promise!RInit
      OBVIOUS
    <2>1. ASSUME NEW c \in Client PROVE Phase(c) = "idle"
      <3>1. calls[c] = 0 /\ handled[c] = << >> /\ answers[c] = << >>
        BY DEF Init
      <3>2. QED
        BY <3>1 DEF Phase
    <2>2. QED
      BY <2>1 DEF Promise!RInit
  <1>2. ServerInv /\ CallInv /\ [Next]_vars => ServerInv' /\ CallInv'
    BY ServerInvNext, CallInvNext
  <1>3. ServerInv /\ CallInv /\ ServerInv' /\ CallInv' /\ [Next]_vars
            => [Promise!RNext]_[c \in Client |-> Phase(c)]
    BY PhasesStep DEF Phases
  <1>4. QED
    BY <1>1, <1>2, <1>3, ServerInvInit, CallInvInit,
       PTL DEF Spec, ImplementsCall, Promise!RSpec
=============================================================================
