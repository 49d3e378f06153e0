-------------------------------- MODULE OssNet --------------------------------
(***************************************************************************)
(* The sessions of util/oss_net.c: a UDP socket, and the TCP clients of a  *)
(* table that NetRecvMsg accepts into and receives from.  A call receives  *)
(* one message, of the sockets it selected when it began: a client that is *)
(* accepted during a call waits for the next.  It looks for a datagram     *)
(* first, and then through the table from its first slot.  The units use   *)
(* the UDP part; MobileRouteNetConnectInit also starts the TCP part.       *)
(*                                                                         *)
(* A client that hung up stays readable and in the table, until the        *)
(* program closes it, which nothing does.                                  *)
(***************************************************************************)
EXTENDS Naturals

CONSTANTS
  Clients,        \* the clients that may connect
  NoClient,       \* an empty slot (INVALID_SOCKET)
  ConnSlots,      \* slots of the table (MAX_CLIENT_CONN, 500)
  MaxUnread       \* messages a socket holds for the program: a peer's next one waits, or is lost

ASSUME ClientsAssumption == NoClient \notin Clients
ASSUME ConnSlotsAssumption == ConnSlots \in Nat \ {0}
ASSUME MaxUnreadAssumption == MaxUnread \in Nat \ {0}

VARIABLES
  gatClientConn,
  socket,         \* of each client: idle, waiting (in the backlog), open, refused, closed
  hungup,         \* the clients that closed their end
  unread,         \* of each client: messages that arrived and are not received
  datagrams,      \* the same of the UDP socket
  selecting,      \* a call is under way
  read_all        \* the clients it selects among

netvars == <<gatClientConn, socket, hungup, unread, datagrams, selecting, read_all>>

Conns == 0 .. ConnSlots - 1
InTable == {gatClientConn[i] : i \in Conns} \ {NoClient}
Waiters == {c \in Clients : socket[c] = "waiting"}
Lowest(S) == CHOOSE i \in S : \A j \in S : i <= j

-----------------------------------------------------------------------------
(* The peers *)

Connect(c) ==
  /\ socket[c] = "idle"
  /\ socket' = [socket EXCEPT ![c] = "waiting"]
  /\ UNCHANGED <<gatClientConn, unread, datagrams, selecting, read_all, hungup>>

ClientSend(c) ==
  /\ socket[c] \in {"waiting", "open"} /\ c \notin hungup /\ unread[c] < MaxUnread
  /\ unread' = [unread EXCEPT ![c] = @ + 1]
  /\ UNCHANGED <<gatClientConn, socket, hungup, datagrams, selecting, read_all>>

HangUp(c) ==
  /\ socket[c] = "open"
  /\ hungup' = hungup \cup {c}
  /\ UNCHANGED <<gatClientConn, socket, unread, datagrams, selecting, read_all>>

Datagram ==
  /\ datagrams < MaxUnread
  /\ datagrams' = datagrams + 1
  /\ UNCHANGED <<gatClientConn, socket, hungup, unread, selecting, read_all>>

-----------------------------------------------------------------------------
(* NetRecvMsg *)

Selected == InTable

NetSetSocketQueue ==
  /\ ~selecting
  /\ selecting' = TRUE /\ read_all' = Selected
  /\ UNCHANGED <<gatClientConn, socket, unread, datagrams, hungup>>

\* A select returns: a message, the end of a session, or a client to accept.
Readable == {c \in read_all : unread[c] > 0 \/ c \in hungup}
Ready == datagrams > 0 \/ Readable # {} \/ Waiters # {}

\* Client c is accepted into the first slot that is free.
Into(i) == gatClientConn[i] = NoClient /\ i = Lowest({j \in Conns : gatClientConn[j] = NoClient})

\* NetConnectNewClientConn, one turn of its loop: the accept that a call goes through all of before
\* it receives.
Accept(c) ==
  /\ selecting /\ c \in Waiters
  /\ \E i \in Conns :
       /\ Into(i)
       /\ gatClientConn' = [gatClientConn EXCEPT ![i] = c]
  /\ socket' = [socket EXCEPT ![c] = "open"]
  /\ UNCHANGED <<unread, datagrams, selecting, read_all, hungup>>

\* A full table closes the client, and goes on to receive.
Refuse(c) ==
  /\ selecting /\ c \in Waiters
  /\ \A i \in Conns : gatClientConn[i] # NoClient
  /\ socket' = [socket EXCEPT ![c] = "refused"]
  /\ unread' = [unread EXCEPT ![c] = 0]
  /\ UNCHANGED <<gatClientConn, datagrams, selecting, read_all, hungup>>

RecvDatagram ==
  /\ selecting /\ Waiters = {}
  /\ datagrams > 0
  /\ datagrams' = datagrams - 1
  /\ selecting' = FALSE
  /\ UNCHANGED <<gatClientConn, socket, unread, read_all, hungup>>

\* Mutant: only the client of the first slot is received from.
Served_First(i) == i = 0

\* The client received from is that of the first slot that has a message.
Served(i) ==
  i = Lowest({j \in Conns : gatClientConn[j] \in read_all /\ unread[gatClientConn[j]] > 0})

RecvClient ==
  /\ selecting /\ Waiters = {} /\ datagrams = 0
  /\ \E i \in Conns :
       /\ gatClientConn[i] \in read_all /\ unread[gatClientConn[i]] > 0 /\ Served(i)
       /\ unread' = [unread EXCEPT ![gatClientConn[i]] = @ - 1]
  /\ selecting' = FALSE
  /\ UNCHANGED <<gatClientConn, socket, datagrams, read_all, hungup>>

\* Nothing came in 10 ms: the call returns 0.
SelectTimeout ==
  /\ selecting /\ ~Ready
  /\ selecting' = FALSE
  /\ UNCHANGED <<gatClientConn, socket, unread, datagrams, read_all, hungup>>

Freed(i) == NoClient

\* NetConnectCloseClientConn, between two calls.
CloseClientConn(c) ==
  /\ ~selecting /\ c \in InTable
  /\ LET i == Lowest({j \in Conns : gatClientConn[j] = c})
     IN  gatClientConn' = [gatClientConn EXCEPT ![i] = Freed(i)]
  /\ socket' = [socket EXCEPT ![c] = "closed"]
  /\ unread' = [unread EXCEPT ![c] = 0]
  /\ UNCHANGED <<datagrams, selecting, read_all, hungup>>

NetInit ==
  /\ gatClientConn = [i \in Conns |-> NoClient]
  /\ socket = [c \in Clients |-> "idle"] /\ hungup = {}
  /\ unread = [c \in Clients |-> 0] /\ datagrams = 0
  /\ selecting = FALSE /\ read_all = {}

NetRecvMsg ==
  \/ NetSetSocketQueue \/ RecvDatagram \/ RecvClient \/ SelectTimeout
  \/ \E c \in Clients : Accept(c) \/ Refuse(c)

NetNext ==
  \/ NetRecvMsg \/ Datagram
  \/ \E c \in Clients : Connect(c) \/ ClientSend(c) \/ HangUp(c) \/ CloseClientConn(c)

NetSpec == NetInit /\ [][NetNext]_netvars

-----------------------------------------------------------------------------
(* Properties *)

\* Every variable has a value the code can give it.
NetTypeOK ==
  /\ gatClientConn \in [Conns -> Clients \cup {NoClient}]
  /\ socket \in [Clients -> {"idle", "waiting", "open", "refused", "closed"}]
  /\ hungup \subseteq Clients /\ read_all \subseteq Clients
  /\ unread \in [Clients -> 0 .. MaxUnread] /\ datagrams \in 0 .. MaxUnread
  /\ selecting \in BOOLEAN

\* The clients of the table are those accepted and not closed, each in one slot: no session is
\* dropped or read after its close (oss_net.c:845, 869).
SessionsListed ==
  /\ InTable = {c \in Clients : socket[c] = "open"}
  /\ \A i, j \in Conns : gatClientConn[i] = gatClientConn[j] /\ gatClientConn[i] # NoClient => i = j

\* What a call may receive before a message of client c: a datagram, or a message of an earlier slot.
Ahead(c) ==
  \/ datagrams > 0
  \/ \E i, j \in Conns : /\ i < j /\ gatClientConn[j] = c
                         /\ gatClientConn[i] # NoClient /\ unread[gatClientConn[i]] > 0

\* As long as no client hangs up, calls return and receive: datagrams always, and what a session in the
\* table has sent from the time on that nothing comes ahead of it.  A call receives one message: datagrams
\* that keep coming, or the client of an earlier slot, may hold up the others for ever (oss_net.c:504, 531).
Received ==
  /\ []<>(datagrams = 0) \/ []<><<datagrams' < datagrams>>_netvars
  /\ \A c \in Clients :
       <>[](socket[c] = "open" /\ hungup = {} /\ ~Ahead(c))
         => []<>(unread[c] = 0) \/ []<><<unread'[c] < unread[c]>>_netvars
=============================================================================
