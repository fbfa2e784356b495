----------------------------- MODULE OrderServer -----------------------------
(***************************************************************************)
(* The order gateway: Exchange::OrderServer with its FIFOSequencer         *)
(* (src/exchange/order_server/) on top of Common::TCPServer and TCPSocket  *)
(* (src/common/).  One thread loops for ever: poll() asks epoll for events *)
(* and may accept connections, sendAndRecv() visits the sockets in turn    *)
(* (read, recvCallback for every request read, flush),                     *)
(* recvFinishedCallback() publishes what was accepted to the matching      *)
(* engine, and then the responses of the engine are numbered and put in    *)
(* the outbound buffer of their client's socket.                           *)
(*                                                                         *)
(* The accept loop is inside the loop over the events, which an event of   *)
(* the listener leaves with `continue': only an event of another socket    *)
(* that is reported after it gets as far as accept().  The program starts  *)
(* with no socket but the listener, so it never accepts any.  What the     *)
(* rest of the gateway does is said of a server to which the sockets in    *)
(* Registered have been given already (receive_sockets_ is public);        *)
(* Registered = <<>> is the program as it is.                              *)
(*                                                                         *)
(* Around it: peers that connect, send numbered requests, send some of     *)
(* them again and go away; the kernel, which keeps unread data, stamps it  *)
(* with an arrival time and takes as many bytes of a send as it has room   *)
(* for; and the matching engine, which answers a request to its client     *)
(* and, if it trades, to the client whose order it met.  The two queues    *)
(* between the threads are FIFO (LFQueue).  A part of a request is not     *)
(* there yet.  A response may be cut by a send, which ends what its client *)
(* can read.                                                               *)
(***************************************************************************)
EXTENDS Integers, Sequences

CONSTANTS Client,        \* the ClientIds in use
          Conn,          \* connections, each the TCPSocket made for it
          NoSocket,      \* nullptr
          Listener,      \* &listener_socket_
          Registered,    \* receive_sockets_ to begin with, each known to epoll
          MaxRequests,   \* bound on the requests the peers send
          MaxSeq,        \* bound on the sequence number of a request
          MaxTrades,     \* bound: of the first MaxTrades + 1 requests, which may trade
          MaxPending     \* ME_MAX_PENDING_REQUESTS

ASSUME NoSocketAssumption == NoSocket \notin Conn /\ Listener \notin Conn
ASSUME RegisteredAssumption == Registered \in Seq(Conn)
ASSUME BoundAssumption == MaxRequests \in Nat /\ MaxSeq \in Nat /\ MaxTrades \in Nat
                          /\ MaxPending \in Nat

VARIABLES
    \* the peers and the kernel
    peer,             \* "none", "open" or "gone": the peer's end of a connection
    wire,             \* requests that arrived on it and are not read
    clock,            \* time of the last arrival
    arrivals,         \* number of requests sent
    backlog,          \* connections that wait for accept()
    ready,            \* what epoll has an event of since the last epoll_wait()
    delivered,        \* history: responses the peer can read, by connection
    cut,              \* history: the kernel took a part of a response, by connection
    \* TCPServer and TCPSocket
    fd_open,          \* socket_fd_ # -1
    receive_sockets,  \* receive_sockets_
    outbound,         \* outbound_data_ up to next_send_valid_index_
    inbound,          \* inbound_data_ of the socket being read
    rx_time,          \* kernel time of that read
    todo,             \* the sockets sendAndRecv() has still to visit
    recv,             \* its flag: some socket had data
    \* OrderServer and FIFOSequencer
    pc,               \* where the thread is in run()
    cid_tcp_socket,   \* cid_tcp_socket_
    next_exp_seq_num, \* cid_next_exp_seq_num_
    next_out_seq_num, \* cid_next_outgoing_seq_num_
    pending,          \* pending_client_requests_ up to pending_size_
    status,           \* "running", or what ended the process
    \* the matching engine and the queues to and from it
    published,        \* history: every request pushed to client_requests
    handled,          \* how many of them the engine has taken
    answers,          \* clients the engine has still to answer for the last one
    made,             \* history: number of responses the engine made, by client
    responses         \* client_responses

peerVars   == <<peer, wire, clock, arrivals, backlog, ready>>
socketVars == <<fd_open, receive_sockets, inbound, rx_time, todo, recv>>
streamVars == <<delivered, cut>>
sessionVars == <<cid_tcp_socket, next_exp_seq_num, pending>>
engineVars == <<published, handled, answers, made>>
vars == <<peerVars, socketVars, sessionVars, engineVars, streamVars, outbound,
          pc, next_out_seq_num, status, responses>>

Place == {"poll", "receive", "callback", "flush", "publish", "respond"}
Status == {"running", "too_many_pending", "no_socket"}

\* An OMClientRequest; conn is where it was sent, a history.
Request == [client : Client, seq : 1 .. MaxSeq, time : Nat, conn : Conn]

\* An MEClientResponse with the number it is sent under; rank is a history:
\* the response is the rank-th the engine made for the client.
Numbered == [client : Client, num : Nat, rank : Nat]

\* An MEClientResponse in the queue.
Response == [client : Client, rank : Nat]

Drop(f, k) == [f EXCEPT ![k] = <<>>]
Put(f, k, x) == [f EXCEPT ![k] = Append(@, x)]

----------------------------------------------------------------------------

IsRegistered(k) == \E i \in 1 .. Len(Registered) : Registered[i] = k

Init == /\ peer = [k \in Conn |-> IF IsRegistered(k) THEN "open" ELSE "none"]
        /\ wire = [k \in Conn |-> <<>>]
        /\ clock = 0 /\ arrivals = 0 /\ backlog = <<>> /\ ready = {}
        /\ delivered = [k \in Conn |-> <<>>] /\ cut = [k \in Conn |-> FALSE]
        /\ outbound = [k \in Conn |-> <<>>]
        /\ fd_open = [k \in Conn |-> IsRegistered(k)]
        /\ receive_sockets = Registered /\ inbound = <<>> /\ rx_time = 0
        /\ todo = <<>> /\ recv = FALSE
        /\ pc = "poll" /\ status = "running"
        /\ cid_tcp_socket = [c \in Client |-> NoSocket]
        /\ next_exp_seq_num = [c \in Client |-> 1]
        /\ next_out_seq_num = [c \in Client |-> 1]
        /\ pending = <<>> /\ published = <<>> /\ handled = 0
        /\ answers = <<>> /\ made = [c \in Client |-> 0] /\ responses = <<>>

----------------------------------------------------------------------------
(***************************************************************************)
(* The peers.  What they do is an event of a socket that epoll watches:    *)
(* of the listener, or of an accepted socket that is not closed.           *)
(***************************************************************************)

Notify(k) == IF fd_open[k] THEN ready \cup {k} ELSE ready

Connect(k) == /\ peer[k] = "none"
              /\ peer' = [peer EXCEPT ![k] = "open"]
              /\ backlog' = Append(backlog, k)
              /\ ready' = ready \cup {Listener}
              /\ UNCHANGED <<wire, clock, arrivals>>

\* Two arrivals may have the same time: the stamp counts microseconds.
SendRequest(k) ==
    /\ peer[k] = "open" /\ arrivals < MaxRequests
    /\ arrivals' = arrivals + 1
    /\ clock' \in {clock, clock + 1}
    /\ \E c \in Client, n \in 1 .. MaxSeq :
           wire' = Put(wire, k, [client |-> c, seq |-> n, time |-> clock', conn |-> k])
    /\ ready' = Notify(k)
    /\ UNCHANGED <<peer, backlog>>

\* A close leaves what was sent to be read, a reset discards it.
Leave(k) == /\ peer[k] = "open"
            /\ peer' = [peer EXCEPT ![k] = "gone"]
            /\ wire' \in {wire, Drop(wire, k)}
            /\ ready' = Notify(k)
            /\ UNCHANGED <<clock, arrivals, backlog>>

Peers == /\ \E k \in Conn : Connect(k) \/ SendRequest(k) \/ Leave(k)
         /\ UNCHANGED <<socketVars, sessionVars, engineVars, streamVars, outbound,
                        pc, next_out_seq_num, status, responses>>

----------------------------------------------------------------------------
(***************************************************************************)
(* The order server's thread.                                              *)
(***************************************************************************)

\* The erase(remove_if(...)) of dead sockets: s without its closed ones, in
\* the same order.
EraseDead(s) ==
    LET kept[i \in 0 .. Len(s)] ==
            IF i = 0 THEN <<>>
            ELSE IF fd_open[s[i]] THEN Append(kept[i - 1], s[i]) ELSE kept[i - 1]
    IN  kept[Len(s)]

\* An accepted socket has data or has been closed by its peer.
Readable(k) == wire[k] # <<>> \/ peer[k] = "gone"

\* The sockets epoll_wait() reports: the events are edge triggered and each is
\* looked at again before it is reported, a closed socket is not watched, and
\* max_events has room for all.  (The listener's event stays true: only
\* poll() empties the backlog.)
Reported == {x \in ready : x = Listener \/ (fd_open[x] /\ Readable(x))}

\* What poll() accepts.  The listener's event leaves the round of the loop
\* before the accept loop, so it takes an event of another socket after it,
\* and nothing orders the events of one epoll_wait(); that one accepts all.
Takes == IF Listener \in Reported /\ Reported # {Listener} THEN {<<>>, backlog} ELSE {<<>>}

\* poll(), then sendAndRecv() up to its loop: it erases the dead sockets.  Each
\* socket that epoll watches is in receive_sockets_ from its accept() on, and
\* none asks for EPOLLOUT: the other events change neither list of sockets.
Poll ==
    /\ pc = "poll"
    /\ \E new \in Takes :
          LET accepted == {new[i] : i \in 1 .. Len(new)}
          IN  /\ fd_open' = [k \in Conn |-> fd_open[k] \/ k \in accepted]
              /\ receive_sockets' = EraseDead(receive_sockets) \o new
              /\ backlog' = IF new = <<>> THEN backlog ELSE <<>>
              /\ ready' = {k \in accepted : Readable(k)}
    /\ todo' = receive_sockets'
    /\ recv' = FALSE
    /\ pc' = "receive"
    /\ UNCHANGED <<peer, wire, clock, arrivals, inbound, rx_time, sessionVars,
                   engineVars, streamVars, outbound, next_out_seq_num, status,
                   responses>>

\* What recvmsg() does on a socket: data and the arrival time of the last of
\* it; nothing for now; or the end of the connection, and the socket closes.
ReadData(k) == /\ wire[k] # <<>>
               /\ inbound' = wire[k] /\ rx_time' = wire[k][Len(wire[k])].time
               /\ wire' = Drop(wire, k)
               /\ recv' = TRUE
               /\ pc' = "callback"
               /\ UNCHANGED <<fd_open, todo, cid_tcp_socket>>

\* ReadNothing with `recv = ' for `recv |= '.
ReadNothingResets(k) == /\ wire[k] = <<>> /\ peer[k] = "open"
                        /\ recv' = FALSE
                        /\ pc' = "flush"
                        /\ UNCHANGED <<wire, inbound, rx_time, fd_open, todo,
                                       cid_tcp_socket>>

ReadNothing(k) == /\ wire[k] = <<>> /\ peer[k] = "open"
                  /\ pc' = "flush"
                  /\ UNCHANGED <<wire, inbound, rx_time, recv, fd_open, todo,
                                 cid_tcp_socket>>

\* ReadEnd that goes on to the send.
ReadEndGoesOn(k) == /\ wire[k] = <<>> /\ peer[k] = "gone"
                    /\ fd_open' = [fd_open EXCEPT ![k] = FALSE]
                    /\ todo' = Tail(todo)
                    /\ pc' = "flush"
                    /\ UNCHANGED <<wire, inbound, rx_time, recv, cid_tcp_socket>>

\* ReadEnd that takes the socket from its client.
ReadEndForgets(k) == /\ wire[k] = <<>> /\ peer[k] = "gone"
                     /\ fd_open' = [fd_open EXCEPT ![k] = FALSE]
                     /\ todo' = Tail(todo)
                     /\ cid_tcp_socket' = [c \in Client |-> IF cid_tcp_socket[c] = k THEN NoSocket
                                                            ELSE cid_tcp_socket[c]]
                     /\ UNCHANGED <<wire, inbound, rx_time, recv, pc>>

ReadEnd(k) == /\ wire[k] = <<>> /\ peer[k] = "gone"
              /\ fd_open' = [fd_open EXCEPT ![k] = FALSE]
              /\ todo' = Tail(todo)
              /\ UNCHANGED <<wire, inbound, rx_time, recv, pc, cid_tcp_socket>>

Receive ==
    /\ pc = "receive" /\ todo # <<>>
    /\ ReadData(Head(todo)) \/ ReadNothing(Head(todo)) \/ ReadEnd(Head(todo))
    /\ UNCHANGED <<peer, clock, arrivals, backlog, ready, receive_sockets, next_exp_seq_num,
                   pending, engineVars, streamVars, outbound, next_out_seq_num, status,
                   responses>>

\* The finished callback is only called when data was read.
AfterSockets == IF recv THEN "publish" ELSE "respond"

EndReceive ==
    /\ pc = "receive" /\ todo = <<>>
    /\ pc' = AfterSockets
    /\ UNCHANGED <<peerVars, socketVars, sessionVars, engineVars, streamVars, outbound,
                   next_out_seq_num, status, responses>>

\* IsExpected without the test of the number.
IsExpectedAny(r) == TRUE

IsExpected(r) == r.seq = next_exp_seq_num[r.client]

\* The socket of a client is the one of its first request.
SocketOf(c, k) == IF cid_tcp_socket[c] = NoSocket THEN k ELSE cid_tcp_socket[c]

\* RightSocket that serves a client wherever it comes from.
RightSocketAny(c, k) == TRUE

\* The test for a wrong socket.
RightSocket(c, k) == SocketOf(c, k) = k

\* One round of recvCallback's loop, addClientRequest included.
HandleRequest ==
    LET r == Head(inbound)  k == Head(todo)
    IN  /\ pc = "callback" /\ inbound # <<>> /\ status = "running"
        /\ inbound' = Tail(inbound)
        /\ cid_tcp_socket' = [cid_tcp_socket EXCEPT ![r.client] = SocketOf(r.client, k)]
        /\ IF RightSocket(r.client, k) /\ IsExpected(r)
           THEN /\ next_exp_seq_num' = [next_exp_seq_num EXCEPT ![r.client] = r.seq + 1]
                /\ IF Len(pending) >= MaxPending
                   THEN status' = "too_many_pending" /\ UNCHANGED pending
                   ELSE /\ pending' = Append(pending, [r EXCEPT !.time = rx_time])
                        /\ UNCHANGED status
           ELSE UNCHANGED <<next_exp_seq_num, pending, status>>
        /\ UNCHANGED <<peerVars, fd_open, receive_sockets, rx_time, todo, recv,
                       engineVars, streamVars, outbound, pc, next_out_seq_num, responses>>

EndCallback ==
    /\ pc = "callback" /\ inbound = <<>>
    /\ pc' = "flush"
    /\ UNCHANGED <<peerVars, socketVars, sessionVars, engineVars, streamVars, outbound,
                   next_out_seq_num, status, responses>>

\* AfterSend that keeps what was sent.
AfterSendKeeps(k) == outbound

\* next_send_valid_index_ = 0, however much the kernel took.
AfterSend(k) == Drop(outbound, k)

\* How many of the first n responses in the buffer the peer can read.
Legible(k, n) == IF cut[k] THEN 0 ELSE n

\* The rest of TCPSocket::sendAndRecv(): one ::send of the outbound buffer, of
\* which the kernel takes some whole responses and perhaps a part of the next.
\* What is sent behind such a part the peer cannot tell apart any more.
Flush ==
    LET k == Head(todo)
    IN  /\ pc = "flush"
        /\ \E n \in 0 .. Len(outbound[k]), part \in BOOLEAN :
               /\ part => n < Len(outbound[k])
               /\ cut' = [cut EXCEPT ![k] = @ \/ part]
               /\ delivered' = [delivered EXCEPT ![k] = @ \o SubSeq(outbound[k], 1, Legible(k, n))]
        /\ outbound' = AfterSend(k)
        /\ todo' = Tail(todo)
        /\ pc' = "receive"
        /\ UNCHANGED <<peerVars, fd_open, receive_sockets, inbound, rx_time, recv,
                       sessionVars, engineVars, next_out_seq_num, status, responses>>

\* RecvTimeClientRequest::operator<.
Before(a, b) == a.time < b.time

\* sequenceAndPublish(): the array is sorted by time (std::sort: equal times
\* in any order), the first element is pushed, and the reset of pending_size_
\* inside the loop ends the loop.
SequenceAndPublish ==
    /\ pc = "publish"
    /\ IF pending = <<>>
       THEN UNCHANGED <<pending, published>>
       ELSE /\ \E i \in 1 .. Len(pending) :
                   /\ \A j \in 1 .. Len(pending) : ~Before(pending[j], pending[i])
                   /\ published' = Append(published, pending[i])
            /\ pending' = <<>>
    /\ pc' = "respond"
    /\ UNCHANGED <<peerVars, socketVars, cid_tcp_socket, next_exp_seq_num, handled,
                   answers, made, streamVars, outbound, next_out_seq_num, status,
                   responses>>

\* ++next_outgoing_seq_num.
NextNumber(c) == [next_out_seq_num EXCEPT ![c] = @ + 1]

\* One round of the loop over outgoing_responses_ in run().
Respond ==
    LET m == Head(responses)  k == cid_tcp_socket[m.client]
    IN  /\ pc = "respond" /\ responses # <<>> /\ status = "running"
        /\ IF k = NoSocket
           THEN status' = "no_socket" /\ UNCHANGED <<outbound, responses, next_out_seq_num>>
           ELSE /\ outbound' = Put(outbound, k, [client |-> m.client, rank |-> m.rank,
                                                 num |-> next_out_seq_num[m.client]])
                /\ responses' = Tail(responses)
                /\ next_out_seq_num' = NextNumber(m.client)
                /\ UNCHANGED status
        /\ UNCHANGED <<peerVars, socketVars, sessionVars, engineVars, streamVars, pc>>

EndRespond ==
    /\ pc = "respond" /\ responses = <<>>
    /\ pc' = "poll"
    /\ UNCHANGED <<peerVars, socketVars, sessionVars, engineVars, streamVars, outbound,
                   next_out_seq_num, status, responses>>

Server == /\ status = "running"
          /\ \/ Poll \/ Receive \/ EndReceive \/ HandleRequest \/ EndCallback \/ Flush
             \/ SequenceAndPublish \/ Respond \/ EndRespond

----------------------------------------------------------------------------
(***************************************************************************)
(* The matching engine, as far as the gateway sees it: a request is        *)
(* answered to its client, and a trade to both sides; the resting order it *)
(* meets came with an earlier request (at most one trade per request).     *)
(***************************************************************************)

TakeRequest ==
    LET c == published[handled + 1].client
        resting == {published[i].client : i \in {j \in 1 .. handled : handled <= MaxTrades}}
    IN  /\ answers = <<>> /\ handled < Len(published)
        /\ handled' = handled + 1
        /\ answers' \in {<<c>>} \cup {<<c, c, d>> : d \in resting}
        /\ UNCHANGED <<made, responses>>

SendClientResponse ==
    LET c == Head(answers)
    IN  /\ answers # <<>>
        /\ answers' = Tail(answers)
        /\ made' = [made EXCEPT ![c] = @ + 1]
        /\ responses' = Append(responses, [client |-> c, rank |-> made[c] + 1])
        /\ UNCHANGED handled

Engine == /\ status = "running"
          /\ TakeRequest \/ SendClientResponse
          /\ UNCHANGED <<peerVars, socketVars, sessionVars, published, streamVars,
                         outbound, pc, next_out_seq_num, status>>

Next == Peers \/ Server \/ Engine

Spec == Init /\ [][Next]_vars

\* The server's loop and the engine's never block.
FairSpec == Spec /\ WF_vars(Server) /\ WF_vars(Engine)

----------------------------------------------------------------------------
(***************************************************************************)
(* Properties.                                                             *)
(***************************************************************************)

\* The variables have their types; the socket being visited is the first of
\* those still to visit.
TypeOK ==
    /\ peer \in [Conn -> {"none", "open", "gone"}]
    /\ wire \in [Conn -> Seq(Request)]
    /\ clock \in Nat /\ arrivals \in Nat
    /\ ready \subseteq Conn \cup {Listener}
    /\ backlog \in Seq(Conn) /\ receive_sockets \in Seq(Conn) /\ todo \in Seq(Conn)
    /\ delivered \in [Conn -> Seq(Numbered)] /\ outbound \in [Conn -> Seq(Numbered)]
    /\ fd_open \in [Conn -> BOOLEAN] /\ cut \in [Conn -> BOOLEAN]
    /\ inbound \in Seq(Request) /\ rx_time \in Nat /\ recv \in BOOLEAN
    /\ pc \in Place /\ status \in Status
    /\ pc \in {"callback", "flush"} => todo # <<>>
    /\ cid_tcp_socket \in [Client -> Conn \cup {NoSocket}]
    /\ next_exp_seq_num \in [Client -> Nat] /\ next_out_seq_num \in [Client -> Nat]
    /\ pending \in Seq(Request) /\ published \in Seq(Request)
    /\ handled \in 0 .. Len(published)
    /\ answers \in Seq(Client) /\ made \in [Client -> Nat]
    /\ responses \in Seq(Response)

\* The engine gets the requests of a client in the order of their numbers and
\* none of them twice, whatever is sent again and on whatever connection.  (Of
\* one pass only one request is published, so the sequencer's unstable sort
\* chooses which one it is, but cannot swap two.)
PublishedInSeqOrder ==
    \A i, j \in 1 .. Len(published) :
        i < j /\ published[i].client = published[j].client
            => published[i].seq < published[j].seq

\* A session is one connection: all requests of a client that reach the engine
\* came in on one connection, and every response to that client goes out on it
\* and on no other.
SessionBinding ==
    /\ \A i, j \in 1 .. Len(published) :
           published[i].client = published[j].client => published[i].conn = published[j].conn
    /\ \A k \in Conn : \A m \in 1 .. Len(delivered[k]) : \A i \in 1 .. Len(published) :
           published[i].client = delivered[k][m].client => published[i].conn = k

\* recvFinishedCallback is not missed: when the thread polls again nothing is
\* left in the pending array, so its limit is only met by what one pass reads.
NothingPendingAcrossPasses == pc = "poll" => pending = <<>>

\* The ASSERT of run() does not fail: the engine never has a response for a
\* client whose socket is not known, though it may come long after the
\* request, and after the client went away.
ResponseHasSocket == status # "no_socket"

\* What a client can read on its connection, which is all up to the first
\* response that a send cut, and what waits in the buffer behind it, is
\* numbered upwards without a repetition, and the number is the rank of the
\* response among all the engine made for it.
RepliesInOrder ==
    \A k \in Conn :
        LET all == delivered[k] \o outbound[k]
        IN  /\ \A i \in 1 .. Len(all) : all[i].num = all[i].rank
            /\ \A i, j \in 1 .. Len(all) :
                   i < j /\ all[i].client = all[j].client => all[i].num < all[j].num

\* A connection is accepted, unless the peer goes away or the process ends:
\* poll() "keeps calling accept until it returns -1" (tcp_server.cpp:106).
\* The code does not get to that loop.
EveryConnectionIsAccepted ==
    \A k \in Conn : peer[k] = "open" ~> (fd_open[k] \/ peer[k] = "gone" \/ status # "running")

\* Every request the server accepted (and counted in next_exp_seq_num) has
\* been forwarded to the engine when the pass is over: "now from the sorted
\* pending_requests array, client_requests lock free queue is populated"
\* (workflow.txt:38).  The code drops all but the first.
AcceptedArePublished ==
    pc = "poll" => \A c \in Client : \A n \in 1 .. next_exp_seq_num[c] - 1 :
                       \E i \in 1 .. Len(published) :
                           published[i].client = c /\ published[i].seq = n

=============================================================================
