-------------------------- MODULE OrderServerProofs --------------------------
(***************************************************************************)
(* Proofs about OrderServer, for every number of clients, connections and  *)
(* requests: the typing, the order in which the engine gets the requests   *)
(* of a client, the binding of a client to one connection, the ASSERT of   *)
(* the response loop, and the numbers of the responses.                    *)
(***************************************************************************)
EXTENDS OrderServer, TLAPS, WellFoundedInduction, SequenceTheorems

(***************************************************************************)
(* Induction over Nat through the least element of a set of numbers.       *)
(***************************************************************************)

\* A set of natural numbers that is not empty has a least element.
LEMMA LeastElement ==
    ASSUME NEW T, T \subseteq Nat, T # {}
    PROVE  \E m \in T : \A n \in T : m <= n
<1> DEFINE R == OpToRel(<, Nat)
<1>1. \A n, m \in Nat : n < m => <<n, m>> \in R
  BY Z3 DEF OpToRel
<1>2. PICK m \in T : \A n \in T : <<n, m>> \notin R
  BY NatLessThanWellFounded, WFMin, Zenon
<1> HIDE DEF R
<1>3. ASSUME NEW n \in T PROVE m <= n
  <2>1. m \in Nat /\ n \in Nat
    OBVIOUS
  <2>2. ~(n < m)
    BY <1>1, <1>2, <2>1, Zenon
  <2> QED
    BY <2>1, <2>2
<1> QED
  BY <1>3

\* Erasing the dead sockets of a sequence of sockets leaves one.
LEMMA EraseDeadType ==
    ASSUME NEW s \in Seq(Conn)
    PROVE  EraseDead(s) \in Seq(Conn)
<1> DEFINE n == Len(s)
           Body(g, i) == IF i = 0 THEN <<>>
                         ELSE IF fd_open[s[i]] THEN Append(g[i - 1], s[i]) ELSE g[i - 1]
           IsKept(g, m) == g = [i \in 0 .. m |-> Body(g, i)]
<1>1. EraseDead(s) = (CHOOSE g : IsKept(g, n))[n]
  BY DEF EraseDead
<1>2. n \in Nat
  OBVIOUS
<1>3. \E g : IsKept(g, n)
  <2> DEFINE T == {m \in 0 .. n : ~\E g : IsKept(g, m)}
  <2>0. n \in 0 .. n
    BY <1>2
  <2>1. SUFFICES ASSUME T # {} PROVE FALSE
    <3> HIDE DEF n, IsKept
    <3> QED
      BY <2>0
  <2>2. T \subseteq Nat
    BY <1>2
  <2>3. PICK m \in T : \A i \in T : m <= i
    <3> HIDE DEF T
    <3> QED
      BY <2>1, <2>2, LeastElement
  <2>4. m \in 0 .. n /\ m \in Nat
    BY <2>2
  <2>5. CASE m = 0
    <3>1. IsKept([i \in 0 .. 0 |-> <<>>], 0)
      OBVIOUS
    <3> QED
      BY <3>1, <2>3, <2>5
  <2>6. CASE m # 0
    <3>1. m - 1 \in 0 .. n /\ m - 1 \notin T
      <4> HIDE DEF T
      <4> QED
        BY <2>3, <2>4, <2>6, <1>2
    <3>2. PICK g : IsKept(g, m - 1)
      BY <3>1
    <3> DEFINE h == [i \in 0 .. m |-> IF i = m THEN Body(g, m) ELSE g[i]]
    <3>3. \A i \in 0 .. m - 1 : g[i] = Body(g, i)
      BY <3>2, <2>4
    <3>4. \A i \in 0 .. m : h[i] = Body(h, i)
      <4>1. \A i \in 0 .. m - 1 : h[i] = g[i]
        BY <2>4
      <4>2. \A i \in 1 .. m : h[i - 1] = g[i - 1]
        BY <2>4
      <4>3. h[m] = Body(g, m)
        BY <2>4
      <4> HIDE DEF h
      <4> QED
        BY <4>1, <4>2, <4>3, <3>3, <2>4
    <3>5. h = [i \in 0 .. m |-> h[i]]
      OBVIOUS
    <3>6. IsKept(h, m)
      <4> HIDE DEF h
      <4> QED
        BY <3>4, <3>5, Zenon
    <3> QED
      BY <3>6, <2>3
  <2> QED
    BY <2>5, <2>6
<1>4. PICK kept : IsKept(kept, n) /\ EraseDead(s) = kept[n]
  BY <1>1, <1>3
<1>5. \A i \in 0 .. n : kept[i] = Body(kept, i)
  BY <1>4, <1>2
<1> DEFINE S == Seq(Conn)
<1>6. /\ <<>> \in S
      /\ \A q \in S, k \in Conn : Append(q, k) \in S
  OBVIOUS
<1>7. \A i \in 1 .. n : s[i] \in Conn
  OBVIOUS
<1> HIDE DEF S, n
<1>8. \A i \in 0 .. n : kept[i] \in S
  <2> DEFINE T == {m \in 0 .. n : kept[m] \notin S}
  <2>1. SUFFICES ASSUME T # {} PROVE FALSE
    OBVIOUS
  <2>2. T \subseteq Nat
    BY <1>2
  <2>3. PICK m \in T : \A i \in T : m <= i
    <3> HIDE DEF T
    <3> QED
      BY <2>1, <2>2, LeastElement
  <2>4. m \in 0 .. n /\ m \in Nat /\ kept[m] \notin S
    BY <2>2
  <2>5. m # 0
    BY <2>4, <1>5, <1>6, <1>2
  <2>6. m - 1 \in 0 .. n /\ m - 1 \notin T
    <3> HIDE DEF T
    <3> QED
      BY <2>3, <2>4, <2>5, <1>2
  <2>7. kept[m - 1] \in S
    BY <2>6
  <2>8. kept[m] = IF fd_open[s[m]] THEN Append(kept[m - 1], s[m]) ELSE kept[m - 1]
    BY <1>5, <2>4, <2>5
  <2>9. s[m] \in Conn
    BY <2>4, <2>5, <1>2, <1>7
  <2> QED
    BY <2>4, <2>7, <2>8, <2>9, <1>6
<1> QED
  BY <1>4, <1>8, <1>2 DEF S, n

----------------------------------------------------------------------------
(***************************************************************************)
(* The inductive invariant.                                                *)
(***************************************************************************)

\* Numbers of the same client rise through a and from a to b.
RisesThrough(a) == \A i, j \in 1 .. Len(a) :
                       i < j /\ a[i].client = a[j].client => a[i].seq < a[j].seq
RisesFromTo(a, b) == \A i \in 1 .. Len(a), j \in 1 .. Len(b) :
                         a[i].client = b[j].client => a[i].seq < b[j].seq

\* What was accepted rises, and is below the number expected next.
OrderInv == /\ RisesThrough(published) /\ RisesThrough(pending)
            /\ RisesFromTo(published, pending)
            /\ \A i \in 1 .. Len(published) :
                   published[i].seq < next_exp_seq_num[published[i].client]
            /\ \A i \in 1 .. Len(pending) :
                   pending[i].seq < next_exp_seq_num[pending[i].client]

\* What was accepted came in on the client's socket, and what is read is on
\* the connection it is read from.
BoundIn == /\ \A k \in Conn : \A i \in 1 .. Len(wire[k]) : wire[k][i].conn = k
           /\ \A i \in 1 .. Len(inbound) : inbound[i].conn = Head(todo)
           /\ pc # "callback" => inbound = <<>>
           /\ \A i \in 1 .. Len(pending) : cid_tcp_socket[pending[i].client] = pending[i].conn
           /\ \A i \in 1 .. Len(published) :
                  cid_tcp_socket[published[i].client] = published[i].conn

\* What goes out, or went out, is on the client's socket.
BoundOut == \A k \in Conn :
                /\ \A i \in 1 .. Len(outbound[k]) : cid_tcp_socket[outbound[k][i].client] = k
                /\ \A i \in 1 .. Len(delivered[k]) : cid_tcp_socket[delivered[k][i].client] = k

\* The engine has something to say only to clients with a socket.
KnownInv == /\ status # "no_socket"
            /\ \A i \in 1 .. Len(answers) : cid_tcp_socket[answers[i]] # NoSocket
            /\ \A i \in 1 .. Len(responses) : cid_tcp_socket[responses[i].client] # NoSocket

\* Something is pending only between a read and the publication.
PassInv == /\ pending # <<>> => recv /\ pc \in {"receive", "callback", "flush", "publish"}
           /\ pc = "callback" => recv

IInv == TypeOK /\ OrderInv /\ BoundIn /\ BoundOut /\ KnownInv /\ PassInv

----------------------------------------------------------------------------

\* The initial states satisfy it.
LEMMA InitInvariant == Init => IInv
<1> SUFFICES ASSUME Init PROVE IInv
  OBVIOUS
<1>1. \A S : <<>> \in Seq(S)
  OBVIOUS
<1>0. handled \in 0 .. Len(published)
  BY DEF Init
<1>2. /\ clock \in Nat /\ arrivals \in Nat
      /\ fd_open \in [Conn -> BOOLEAN] /\ recv \in BOOLEAN /\ rx_time \in Nat
      /\ cid_tcp_socket \in [Client -> Conn \cup {NoSocket}]
      /\ next_exp_seq_num \in [Client -> Nat] /\ next_out_seq_num \in [Client -> Nat]
      /\ made \in [Client -> Nat] /\ cut \in [Conn -> BOOLEAN]
      /\ pc \in Place /\ status \in Status
  BY DEF Init, IsRegistered, Place, Status
<1>3. /\ wire \in [Conn -> Seq(Request)]
      /\ delivered \in [Conn -> Seq(Numbered)] /\ outbound \in [Conn -> Seq(Numbered)]
      /\ peer \in [Conn -> {"none", "open", "gone"}]
  BY <1>1 DEF Init
<1>4. TypeOK
  BY <1>0, <1>1, <1>2, <1>3, RegisteredAssumption DEF Init, TypeOK
<1>5. OrderInv /\ PassInv
  BY DEF Init, OrderInv, PassInv, RisesThrough, RisesFromTo
<1>6. BoundIn /\ BoundOut /\ KnownInv
  BY DEF Init, BoundIn, BoundOut, KnownInv
<1> QED
  BY <1>4, <1>5, <1>6 DEF IInv

(***************************************************************************)
(* Typing.                                                                 *)
(***************************************************************************)

\* The steps of the network keep the types.
LEMMA PeersType == TypeOK /\ Peers => TypeOK'
<1> SUFFICES ASSUME TypeOK, NEW k \in Conn, Connect(k) \/ SendRequest(k) \/ Leave(k),
                    UNCHANGED <<socketVars, sessionVars, engineVars, streamVars, outbound,
                                pc, next_out_seq_num, status, responses>>
             PROVE  TypeOK'
  BY DEF Peers
<1> USE BoundAssumption
<1>1. CASE Connect(k)
  <2>1. backlog' \in Seq(Conn) /\ ready' \subseteq Conn \cup {Listener}
    BY <1>1 DEF Connect, TypeOK
  <2>2. peer' \in [Conn -> {"none", "open", "gone"}]
    BY <1>1 DEF Connect, TypeOK
  <2> QED
    BY <1>1, <2>1, <2>2 DEF Connect, TypeOK, socketVars, sessionVars, engineVars, streamVars
<1>0. Notify(k) \subseteq Conn \cup {Listener}
  BY DEF Notify, TypeOK
<1>2. CASE SendRequest(k)
  <2>1. PICK c \in Client, n \in 1 .. MaxSeq :
            wire' = Put(wire, k, [client |-> c, seq |-> n, time |-> clock', conn |-> k])
    BY <1>2 DEF SendRequest
  <2>2. clock' \in Nat /\ arrivals' \in Nat
    <3>1. clock' \in {clock, clock + 1} /\ arrivals' = arrivals + 1
      BY <1>2 DEF SendRequest
    <3>2. clock \in Nat /\ arrivals \in Nat
      BY DEF TypeOK
    <3> QED
      BY <3>1, <3>2
  <2>3. [client |-> c, seq |-> n, time |-> clock', conn |-> k] \in Request
    BY <2>2 DEF Request
  <2>4. wire' \in [Conn -> Seq(Request)]
    <3> HIDE DEF Request
    <3> QED
      BY <2>1, <2>3 DEF TypeOK, Put
  <2> QED
    BY <1>0, <1>2, <2>2, <2>4 DEF SendRequest, TypeOK, socketVars, sessionVars, engineVars, streamVars
<1>3. CASE Leave(k)
  <2>1. wire' \in [Conn -> Seq(Request)]
    <3>1. <<>> \in Seq(Request) /\ wire \in [Conn -> Seq(Request)]
      BY DEF TypeOK
    <3>2. Drop(wire, k) \in [Conn -> Seq(Request)]
      BY <3>1 DEF Drop
    <3> QED
      BY <1>3, <3>1, <3>2 DEF Leave
  <2>2. peer' \in [Conn -> {"none", "open", "gone"}]
    BY <1>3 DEF Leave, TypeOK
  <2> QED
    BY <1>0, <1>3, <2>1, <2>2 DEF Leave, TypeOK, socketVars, sessionVars, engineVars, streamVars
<1> QED
  BY <1>1, <1>2, <1>3

\* poll() keeps the types.
LEMMA PollType == TypeOK /\ Poll => TypeOK'
<1> SUFFICES ASSUME TypeOK, Poll PROVE TypeOK'
  OBVIOUS
<1>1. EraseDead(receive_sockets) \in Seq(Conn)
  BY EraseDeadType DEF TypeOK
<1>2. PICK new \in Takes :
          /\ fd_open' = [k \in Conn |-> fd_open[k] \/ k \in {new[i] : i \in 1 .. Len(new)}]
          /\ receive_sockets' = EraseDead(receive_sockets) \o new
          /\ backlog' = IF new = <<>> THEN backlog ELSE <<>>
          /\ ready' = {k \in {new[i] : i \in 1 .. Len(new)} : Readable(k)}
  BY DEF Poll
<1>3. new \in Seq(Conn)
  <2>1. new = <<>> \/ new = backlog
    BY <1>2 DEF Takes
  <2>2. <<>> \in Seq(Conn)
    OBVIOUS
  <2>3. backlog \in Seq(Conn)
    BY DEF TypeOK
  <2> QED
    BY <2>1, <2>2, <2>3
<1>4. receive_sockets' \in Seq(Conn) /\ todo' \in Seq(Conn) /\ backlog' \in Seq(Conn)
  BY <1>1, <1>2, <1>3 DEF Poll, TypeOK
<1>5. fd_open' \in [Conn -> BOOLEAN] /\ recv' \in BOOLEAN /\ pc' = "receive"
  BY <1>2 DEF Poll, TypeOK
<1>6. ready' \subseteq Conn \cup {Listener}
  BY <1>2, <1>3
<1> QED
  BY <1>4, <1>5, <1>6 DEF Poll, TypeOK, sessionVars, engineVars, streamVars, Place

\* Reading the sockets keeps the types.
LEMMA ReceiveType == TypeOK /\ Receive => TypeOK'
<1> SUFFICES ASSUME TypeOK, Receive PROVE TypeOK'
  OBVIOUS
<1> DEFINE k == Head(todo)
<1>1. k \in Conn /\ Tail(todo) \in Seq(Conn)
  BY DEF Receive, TypeOK
<1> HIDE DEF k
<1>2. ReadData(k) \/ ReadNothing(k) \/ ReadEnd(k)
  BY DEF Receive, k
<1>3. CASE ReadData(k)
  <2>1. inbound' \in Seq(Request) /\ rx_time' \in Nat
    <3>1. wire[k] \in Seq(Request) /\ wire[k] # <<>>
      BY <1>1, <1>3 DEF ReadData, TypeOK
    <3>2. wire[k][Len(wire[k])] \in Request
      BY <3>1
    <3> QED
      BY <1>3, <3>1, <3>2 DEF ReadData, Request
  <2>2. wire' \in [Conn -> Seq(Request)]
    BY <1>1, <1>3 DEF ReadData, TypeOK, Drop
  <2> QED
    BY <1>3, <2>1, <2>2 DEF ReadData, Receive, TypeOK, engineVars, streamVars, Place
<1>4. CASE ReadNothing(k)
  BY <1>4 DEF ReadNothing, Receive, TypeOK, engineVars, streamVars, Place
<1>5. CASE ReadEnd(k)
  BY <1>1, <1>5 DEF ReadEnd, Receive, TypeOK, engineVars, streamVars, Place, k
<1> QED
  BY <1>2, <1>3, <1>4, <1>5

\* recvCallback keeps the types.
LEMMA HandleRequestType == TypeOK /\ HandleRequest => TypeOK'
<1> SUFFICES ASSUME TypeOK, HandleRequest PROVE TypeOK'
  OBVIOUS
<1> DEFINE r == Head(inbound)  k == Head(todo)
<1>1. k \in Conn /\ r \in Request /\ Tail(inbound) \in Seq(Request)
  BY SMTT(30) DEF HandleRequest, TypeOK
<1>2. r.client \in Client /\ r.seq \in Nat /\ [r EXCEPT !.time = rx_time] \in Request
  <2>1. rx_time \in Nat
    BY DEF TypeOK
  <2> HIDE DEF r
  <2>2. r.client \in Client /\ r.seq \in Nat
    BY <1>1, BoundAssumption DEF Request
  <2>3. [r EXCEPT !.time = rx_time] \in Request
    BY <1>1, <2>1 DEF Request
  <2> QED
    BY <2>2, <2>3
<1> HIDE DEF r, k
<1>3. cid_tcp_socket' \in [Client -> Conn \cup {NoSocket}]
  BY <1>1, <1>2 DEF HandleRequest, TypeOK, SocketOf, r, k
<1>4. next_exp_seq_num' \in [Client -> Nat]
  <2>1. next_exp_seq_num' = [next_exp_seq_num EXCEPT ![r.client] = r.seq + 1]
           \/ next_exp_seq_num' = next_exp_seq_num
    BY DEF HandleRequest, r
  <2>2. next_exp_seq_num \in [Client -> Nat]
    BY DEF TypeOK
  <2>3. r.seq + 1 \in Nat
    BY <1>2
  <2> QED
    BY <2>1, <2>2, <2>3, <1>2
<1>5. pending' \in Seq(Request)
  <2>1. pending' = pending \/ pending' = Append(pending, [r EXCEPT !.time = rx_time])
    BY DEF HandleRequest, r
  <2> DEFINE x == [r EXCEPT !.time = rx_time]
  <2>2. pending \in Seq(Request) /\ x \in Request
    BY <1>2 DEF TypeOK
  <2>3. pending' = pending \/ pending' = Append(pending, x)
    BY <2>1
  <2> HIDE DEF x
  <2> QED
    BY <2>2, <2>3
<1>6. status' \in Status /\ inbound' \in Seq(Request)
  BY <1>1 DEF HandleRequest, TypeOK, Status, r
<1> QED
  BY <1>3, <1>4, <1>5, <1>6 DEF HandleRequest, TypeOK, peerVars, engineVars, streamVars

\* What the peer can read grows by the first responses of the buffer, or by none.
LEMMA FlushSends ==
    ASSUME TypeOK, Flush
    PROVE  \E n \in 0 .. Len(outbound[Head(todo)]) :
               delivered' = [delivered EXCEPT ![Head(todo)] =
                                                  @ \o SubSeq(outbound[Head(todo)], 1, n)]
<1> DEFINE k == Head(todo)
<1>1. Len(outbound[k]) \in Nat
  <2>1. k \in Conn
    BY DEF Flush, TypeOK
  <2> QED
    BY <2>1 DEF TypeOK
<1>2. PICK n \in 0 .. Len(outbound[k]) :
          delivered' = [delivered EXCEPT ![k] = @ \o SubSeq(outbound[k], 1, Legible(k, n))]
  BY DEF Flush
<1>3. Legible(k, n) \in 0 .. Len(outbound[k])
  BY <1>1 DEF Legible
<1> HIDE DEF k
<1>4. \E m \in 0 .. Len(outbound[k]) :
          delivered' = [delivered EXCEPT ![k] = @ \o SubSeq(outbound[k], 1, m)]
  BY <1>2, <1>3, Zenon
<1> QED
  BY <1>4 DEF k

\* The sending half of sendAndRecv() keeps the types.
LEMMA FlushType == TypeOK /\ Flush => TypeOK'
<1> SUFFICES ASSUME TypeOK, Flush PROVE TypeOK'
  OBVIOUS
<1> DEFINE k == Head(todo)
<1>1. k \in Conn /\ Tail(todo) \in Seq(Conn)
  BY DEF Flush, TypeOK
<1>2. PICK n \in 0 .. Len(outbound[k]) :
          delivered' = [delivered EXCEPT ![k] = @ \o SubSeq(outbound[k], 1, n)]
  BY FlushSends
<1>3. delivered' \in [Conn -> Seq(Numbered)]
  <2>1. SubSeq(outbound[k], 1, n) \in Seq(Numbered)
    BY <1>1, SMTT(30) DEF TypeOK
  <2>2. delivered[k] \o SubSeq(outbound[k], 1, n) \in Seq(Numbered)
    BY <1>1, <2>1 DEF TypeOK
  <2> QED
    BY <1>2, <2>2 DEF TypeOK
<1>4. outbound' \in [Conn -> Seq(Numbered)]
  BY <1>1 DEF Flush, TypeOK, AfterSend, Drop
<1>5. cut' \in [Conn -> BOOLEAN]
  <2>1. PICK part \in BOOLEAN : cut' = [cut EXCEPT ![k] = @ \/ part]
    BY DEF Flush
  <2> QED
    BY <2>1, <1>1, Zenon DEF TypeOK
<1> QED
  BY <1>1, <1>3, <1>4, <1>5 DEF Flush, TypeOK, peerVars, sessionVars, engineVars, streamVars, Place

\* sequenceAndPublish() keeps the types.
LEMMA SequenceAndPublishType == TypeOK /\ SequenceAndPublish => TypeOK'
<1> SUFFICES ASSUME TypeOK, SequenceAndPublish PROVE TypeOK'
  OBVIOUS
<1>1. /\ published' \in Seq(Request) /\ pending' \in Seq(Request)
      /\ handled \in 0 .. Len(published')
  <2>1. CASE pending = <<>>
    BY <2>1 DEF SequenceAndPublish, TypeOK
  <2>2. CASE pending # <<>>
    <3>1. PICK i \in 1 .. Len(pending) : published' = Append(published, pending[i])
      BY <2>2 DEF SequenceAndPublish
    <3>2. pending[i] \in Request /\ published \in Seq(Request)
      BY DEF TypeOK
    <3>3. published' \in Seq(Request) /\ Len(published') = Len(published) + 1
      BY <3>1, <3>2
    <3>4. Len(published) \in Nat
      BY <3>2
    <3> QED
      BY <2>2, <3>3, <3>4 DEF SequenceAndPublish, TypeOK
  <2> QED
    BY <2>1, <2>2
<1> QED
  BY <1>1 DEF SequenceAndPublish, TypeOK, peerVars, socketVars, streamVars, Place

\* The loop over the responses keeps the types.
LEMMA RespondType == TypeOK /\ Respond => TypeOK'
<1> SUFFICES ASSUME TypeOK, Respond PROVE TypeOK'
  OBVIOUS
<1> DEFINE m == Head(responses)  k == cid_tcp_socket[m.client]
<1>1. m.client \in Client /\ m.rank \in Nat /\ Tail(responses) \in Seq(Response)
  <2>1. responses \in Seq(Response) /\ responses # <<>>
    BY DEF Respond, TypeOK
  <2>2. m \in Response /\ Tail(responses) \in Seq(Response)
    BY <2>1
  <2> QED
    BY <2>2 DEF Response
<1>2. CASE k = NoSocket
  BY <1>2 DEF Respond, TypeOK, peerVars, socketVars, sessionVars, engineVars, streamVars, Status
<1>3. CASE k # NoSocket
  <2>1. k \in Conn
    BY <1>1, <1>3 DEF TypeOK
  <2> DEFINE x == [client |-> m.client, rank |-> m.rank, num |-> next_out_seq_num[m.client]]
  <2>2. x \in Numbered
    BY <1>1 DEF TypeOK, Numbered
  <2>3. outbound' = Put(outbound, k, x)
    BY <1>3 DEF Respond
  <2>4. outbound' \in [Conn -> Seq(Numbered)]
    <3> HIDE DEF x
    <3> QED
      BY <2>1, <2>2, <2>3 DEF TypeOK, Put
  <2>5. responses' \in Seq(Response)
    BY <1>1, <1>3 DEF Respond
  <2>6. next_out_seq_num' \in [Client -> Nat]
    <3>1. next_out_seq_num' = NextNumber(m.client) /\ next_out_seq_num \in [Client -> Nat]
      BY <1>3 DEF Respond, TypeOK
    <3> HIDE DEF m
    <3> QED
      BY <3>1, <1>1 DEF NextNumber
  <2> QED
    BY <1>3, <2>4, <2>5, <2>6
       DEF Respond, TypeOK, peerVars, socketVars, sessionVars, engineVars, streamVars
<1> QED
  BY <1>2, <1>3

\* The steps of the engine keep the types.
LEMMA EngineType == TypeOK /\ Engine => TypeOK'
<1> SUFFICES ASSUME TypeOK, Engine PROVE TypeOK'
  OBVIOUS
<1>1. CASE TakeRequest
  <2>1. handled + 1 \in 1 .. Len(published) /\ handled' = handled + 1
    BY <1>1 DEF TakeRequest, TypeOK
  <2>2. \A i \in 1 .. Len(published) : published[i].client \in Client
    <3>1. \A i \in 1 .. Len(published) : published[i] \in Request
      BY DEF TypeOK
    <3> QED
      BY <3>1 DEF Request
  <2>3. answers' \in Seq(Client)
    <3> DEFINE c == published[handled + 1].client
               resting == {published[i].client : i \in {j \in 1 .. handled : handled <= MaxTrades}}
    <3>1. c \in Client
      BY <2>1, <2>2
    <3>2. \A d \in resting : d \in Client
      BY <2>1, <2>2, SMTT(30) DEF TypeOK
    <3>3. answers' = <<c>> \/ \E d \in resting : answers' = <<c, c, d>>
      BY <1>1 DEF TakeRequest
    <3> HIDE DEF c, resting
    <3>4. CASE answers' = <<c>>
      BY <3>1, <3>4
    <3>5. ASSUME NEW d \in resting, answers' = <<c, c, d>> PROVE answers' \in Seq(Client)
      BY <3>1, <3>2, <3>5
    <3> QED
      BY <3>3, <3>4, <3>5
  <2>4. handled' \in 0 .. Len(published)
    BY <2>1 DEF TypeOK
  <2> QED
    BY <1>1, <2>3, <2>4 DEF TakeRequest, Engine, TypeOK, peerVars, socketVars, streamVars, sessionVars
<1>2. CASE SendClientResponse
  <2> DEFINE c == Head(answers)
  <2>1. c \in Client /\ answers' \in Seq(Client)
    BY <1>2 DEF SendClientResponse, TypeOK
  <2> HIDE DEF c
  <2>2. made \in [Client -> Nat] /\ made[c] + 1 \in Nat
    BY <2>1, SMTT(30) DEF TypeOK
  <2>3. [client |-> c, rank |-> made[c] + 1] \in Response
    BY <2>1, <2>2 DEF Response
  <2>4. made' \in [Client -> Nat]
    BY <1>2, <2>1, <2>2 DEF SendClientResponse, c
  <2>5. responses' \in Seq(Response)
    <3> DEFINE x == [client |-> c, rank |-> made[c] + 1]
    <3>1. responses' = Append(responses, x) /\ responses \in Seq(Response) /\ x \in Response
      BY <1>2, <2>3 DEF SendClientResponse, TypeOK, c
    <3> HIDE DEF x
    <3> QED
      BY <3>1
  <2> QED
    BY <1>2, <2>1, <2>4, <2>5
       DEF SendClientResponse, Engine, TypeOK, peerVars, socketVars, streamVars, sessionVars
<1> QED
  BY <1>1, <1>2 DEF Engine

\* The steps of the gateway's thread keep the types.
LEMMA ServerType == TypeOK /\ Server => TypeOK'
<1> SUFFICES ASSUME TypeOK, Server PROVE TypeOK'
  OBVIOUS
<1>1. CASE EndReceive
  BY <1>1 DEF EndReceive, AfterSockets, TypeOK, peerVars, socketVars, sessionVars,
              engineVars, streamVars, Place
<1>2. CASE EndCallback
  BY <1>2 DEF EndCallback, TypeOK, peerVars, socketVars, sessionVars, engineVars, streamVars, Place
<1>3. CASE EndRespond
  BY <1>3 DEF EndRespond, TypeOK, peerVars, socketVars, sessionVars, engineVars, streamVars, Place
<1> QED
  BY <1>1, <1>2, <1>3, PollType, ReceiveType, HandleRequestType, FlushType,
     SequenceAndPublishType, RespondType DEF Server

\* Every step keeps the types.
LEMMA TypeStep == TypeOK /\ [Next]_vars => TypeOK'
<1>1. ASSUME TypeOK, UNCHANGED vars PROVE TypeOK'
  BY <1>1 DEF TypeOK, vars, peerVars, socketVars, sessionVars, engineVars, streamVars
<1> QED
  BY <1>1, PeersType, ServerType, EngineType DEF Next

----------------------------------------------------------------------------
(***************************************************************************)
(* What HandleRequest does to the request at the front.                    *)
(***************************************************************************)

\* Either the request is skipped, or it had the number expected of its client
\* and came in on its socket; in both cases a client keeps its socket.
LEMMA Handled ==
    ASSUME TypeOK, BoundIn, HandleRequest
    PROVE  LET r == Head(inbound)  x == [r EXCEPT !.time = rx_time]
           IN  /\ r \in Request /\ x \in Request
               /\ x.client = r.client /\ x.seq = r.seq /\ x.conn = r.conn
               /\ r.client \in Client
               /\ cid_tcp_socket' = [cid_tcp_socket EXCEPT ![r.client] =
                                         SocketOf(r.client, Head(todo))]
               /\ \/ pending' = pending /\ next_exp_seq_num' = next_exp_seq_num
                  \/ /\ r.seq = next_exp_seq_num[r.client]
                     /\ next_exp_seq_num' = [next_exp_seq_num EXCEPT ![r.client] = r.seq + 1]
                     /\ cid_tcp_socket'[r.client] = r.conn
                     /\ pending' = pending \/ pending' = Append(pending, x)
<1> DEFINE r == Head(inbound)  k == Head(todo)  x == [r EXCEPT !.time = rx_time]
<1>1. r \in Request /\ k \in Conn /\ r = inbound[1] /\ 1 \in 1 .. Len(inbound)
  BY SMTT(30) DEF HandleRequest, TypeOK
<1>2. r.conn = k
  BY <1>1 DEF BoundIn
<1>3. rx_time \in Nat /\ cid_tcp_socket \in [Client -> Conn \cup {NoSocket}]
  BY DEF TypeOK
<1>4. cid_tcp_socket' = [cid_tcp_socket EXCEPT ![r.client] = SocketOf(r.client, k)]
  BY DEF HandleRequest
<1>5. \/ pending' = pending /\ next_exp_seq_num' = next_exp_seq_num
      \/ /\ RightSocket(r.client, k) /\ r.seq = next_exp_seq_num[r.client]
         /\ next_exp_seq_num' = [next_exp_seq_num EXCEPT ![r.client] = r.seq + 1]
         /\ pending' = pending \/ pending' = Append(pending, x)
  BY DEF HandleRequest, IsExpected
<1> HIDE DEF r, k
<1>6. /\ x \in Request /\ r.client \in Client
      /\ x.client = r.client /\ x.seq = r.seq /\ x.conn = r.conn
  BY <1>1, <1>3 DEF Request
<1>7. RightSocket(r.client, k) => cid_tcp_socket'[r.client] = r.conn
  BY <1>2, <1>3, <1>4, <1>6 DEF RightSocket
<1> HIDE DEF x
<1> QED
  BY <1>1, <1>4, <1>5, <1>6, <1>7 DEF r, k, x

\* No step takes a client's socket away.
LEMMA SocketKept ==
    ASSUME TypeOK, BoundIn, [Next]_vars, NEW c \in Client, cid_tcp_socket[c] # NoSocket
    PROVE  cid_tcp_socket'[c] = cid_tcp_socket[c]
<1>1. CASE HandleRequest
  <2>1. PICK d \in Client : cid_tcp_socket' = [cid_tcp_socket EXCEPT ![d] =
                                                   SocketOf(d, Head(todo))]
    BY <1>1, Handled
  <2> QED
    BY <2>1 DEF TypeOK, SocketOf
<1>2. CASE ~HandleRequest
  BY <1>2 DEF Next, vars, Peers, Server, Engine, streamVars, sessionVars, Poll, Receive, ReadData,
              ReadNothing, ReadEnd, EndReceive, EndCallback, Flush, SequenceAndPublish, Respond, EndRespond
<1> QED
  BY <1>1, <1>2

----------------------------------------------------------------------------
(***************************************************************************)
(* The order of requests.                                                  *)
(***************************************************************************)

\* Every step preserves the order of the numbers.
LEMMA OrderStep == TypeOK /\ OrderInv /\ BoundIn /\ [Next]_vars => OrderInv'
<1> SUFFICES ASSUME TypeOK, OrderInv, BoundIn, [Next]_vars PROVE OrderInv'
  OBVIOUS
<1>0. /\ pending \in Seq(Request) /\ published \in Seq(Request)
      /\ next_exp_seq_num \in [Client -> Nat]
      /\ \A i \in 1 .. Len(pending) : pending[i] \in Request
      /\ \A i \in 1 .. Len(published) : published[i] \in Request
  BY DEF TypeOK
<1>T. \A q \in Request : q.client \in Client /\ q.seq \in Nat
  BY BoundAssumption DEF Request
<1>1. CASE HandleRequest
  <2> DEFINE r == Head(inbound)  x == [r EXCEPT !.time = rx_time]
  <2>1. /\ r \in Request /\ x \in Request /\ x.client = r.client /\ x.seq = r.seq
        /\ \/ pending' = pending /\ next_exp_seq_num' = next_exp_seq_num
           \/ /\ r.seq = next_exp_seq_num[r.client]
              /\ next_exp_seq_num' = [next_exp_seq_num EXCEPT ![r.client] = r.seq + 1]
              /\ pending' = pending \/ pending' = Append(pending, x)
    BY <1>1, Handled
  <2> HIDE DEF r, x
  <2>2. published' = published
    BY <1>1 DEF HandleRequest, engineVars, streamVars
  <2>3. CASE pending' = pending /\ next_exp_seq_num' = next_exp_seq_num
    BY <2>2, <2>3 DEF OrderInv, RisesThrough, RisesFromTo
  <2>4. CASE /\ r.seq = next_exp_seq_num[r.client]
             /\ next_exp_seq_num' = [next_exp_seq_num EXCEPT ![r.client] = r.seq + 1]
    <3>1. ASSUME NEW q \in Request, q.seq < next_exp_seq_num[q.client]
          PROVE  q.seq < next_exp_seq_num'[q.client]
      BY <3>1, <2>4, <2>1, <1>0, <1>T
    <3>2. CASE pending' = pending
      BY <3>1, <3>2, <2>2, <1>0 DEF OrderInv, RisesThrough, RisesFromTo
    <3>3. CASE pending' = Append(pending, x)
      <4>1. /\ Len(pending') = Len(pending) + 1 /\ Len(pending) \in Nat
            /\ \A i \in 1 .. Len(pending) : pending'[i] = pending[i]
            /\ pending'[Len(pending) + 1] = x
        BY <3>3, <2>1, <1>0, AppendProperties
      <4>2. x.seq < next_exp_seq_num'[x.client]
        BY <2>4, <2>1, <1>0, <1>T
      <4>3. \A i \in 1 .. Len(pending) : pending[i].client = x.client => pending[i].seq < x.seq
        BY <2>4, <2>1 DEF OrderInv
      <4>4. \A i \in 1 .. Len(published) :
                published[i].client = x.client => published[i].seq < x.seq
        BY <2>4, <2>1 DEF OrderInv
      <4>5. RisesThrough(pending)'
        BY <4>1, <4>3 DEF OrderInv, RisesThrough
      <4>6. RisesFromTo(published, pending)'
        BY <4>1, <4>4, <2>2 DEF OrderInv, RisesFromTo
      <4>7. \A i \in 1 .. Len(pending') :
                pending'[i].seq < next_exp_seq_num'[pending'[i].client]
        BY <4>1, <4>2, <3>1, <1>0 DEF OrderInv
      <4>8. \A i \in 1 .. Len(published') :
                published'[i].seq < next_exp_seq_num'[published'[i].client]
        BY <3>1, <2>2, <1>0 DEF OrderInv
      <4>9. RisesThrough(published)'
        BY <2>2 DEF OrderInv, RisesThrough
      <4> QED
        BY <4>5, <4>6, <4>7, <4>8, <4>9 DEF OrderInv
    <3> QED
      BY <3>2, <3>3, <2>1, <2>4
  <2> QED
    BY <2>1, <2>3, <2>4
<1>2. CASE SequenceAndPublish
  <2>1. next_exp_seq_num' = next_exp_seq_num
    BY <1>2 DEF SequenceAndPublish
  <2>2. CASE pending = <<>>
    BY <1>2, <2>1, <2>2 DEF SequenceAndPublish, OrderInv, RisesThrough, RisesFromTo
  <2>3. CASE pending # <<>>
    <3>1. PICK n \in 1 .. Len(pending) : published' = Append(published, pending[n])
      BY <1>2, <2>3 DEF SequenceAndPublish
    <3>2. pending' = <<>>
      BY <1>2, <2>3 DEF SequenceAndPublish
    <3>3. /\ Len(published') = Len(published) + 1 /\ Len(published) \in Nat
          /\ \A i \in 1 .. Len(published) : published'[i] = published[i]
          /\ published'[Len(published) + 1] = pending[n]
      BY <3>1, <1>0, AppendProperties
    <3>4. RisesThrough(published)'
      BY <3>3 DEF OrderInv, RisesThrough, RisesFromTo
    <3>5. \A i \in 1 .. Len(published') :
              published'[i].seq < next_exp_seq_num'[published'[i].client]
      BY <3>3, <2>1 DEF OrderInv
    <3> QED
      BY <3>2, <3>4, <3>5 DEF OrderInv, RisesThrough, RisesFromTo
  <2> QED
    BY <2>2, <2>3
<1>3. CASE ~HandleRequest /\ ~SequenceAndPublish
  <2>1. UNCHANGED <<pending, published, next_exp_seq_num>>
    BY <1>3 DEF Next, vars, Peers, Server, Engine, streamVars, sessionVars, engineVars, streamVars, Poll, Receive,
                EndReceive, EndCallback, Flush, Respond, EndRespond
  <2> QED
    BY <2>1 DEF OrderInv, RisesThrough, RisesFromTo
<1> QED
  BY <1>1, <1>2, <1>3

----------------------------------------------------------------------------
(***************************************************************************)
(* The connection of a client.                                             *)
(***************************************************************************)

\* Every step keeps what came in on the socket of its client.
LEMMA BoundInStep == TypeOK /\ BoundIn /\ [Next]_vars => BoundIn'
<1> SUFFICES ASSUME TypeOK, BoundIn, [Next]_vars PROVE BoundIn'
  OBVIOUS
<1>0. /\ pending \in Seq(Request) /\ published \in Seq(Request) /\ inbound \in Seq(Request)
      /\ wire \in [Conn -> Seq(Request)] /\ todo \in Seq(Conn)
      /\ \A i \in 1 .. Len(pending) : pending[i] \in Request
      /\ \A i \in 1 .. Len(published) : published[i] \in Request
  BY SMTT(30) DEF TypeOK
<1>T. \A q \in Request : q.client \in Client /\ q.conn \in Conn /\ q.conn # NoSocket
  BY NoSocketAssumption DEF Request
\* What was bound stays bound.
<1>B. \A q \in Request : cid_tcp_socket[q.client] = q.conn
                             => cid_tcp_socket'[q.client] = q.conn
  BY SocketKept, <1>T
<1>P. /\ \A i \in 1 .. Len(pending) : cid_tcp_socket'[pending[i].client] = pending[i].conn
      /\ \A i \in 1 .. Len(published) : cid_tcp_socket'[published[i].client] = published[i].conn
  BY <1>B, <1>0 DEF BoundIn
<1>1. ASSUME NEW k \in Conn, Peers, SendRequest(k) PROVE BoundIn'
  <2>1. PICK q \in Request : wire' = Put(wire, k, q) /\ q.conn = k
    <3>1. clock' \in Nat
      BY <1>1, SMTT(30) DEF SendRequest, TypeOK
    <3> QED
      BY <1>1, <3>1 DEF SendRequest, Request
  <2>2. \A j \in Conn : \A i \in 1 .. Len(wire'[j]) : wire'[j][i].conn = j
    BY <2>1, <1>0, AppendProperties DEF Put, BoundIn
  <2> QED
    BY <1>1, <2>2 DEF Peers, socketVars, sessionVars, engineVars, streamVars, BoundIn
<1>2. ASSUME Peers, NEW k \in Conn, Connect(k) \/ Leave(k) PROVE BoundIn'
  <2>1. wire' = wire \/ wire' = Drop(wire, k)
    BY <1>2 DEF Connect, Leave
  <2>2. \A j \in Conn : \A i \in 1 .. Len(wire'[j]) : wire'[j][i].conn = j
    <3>1. CASE wire' = wire
      BY <3>1 DEF BoundIn
    <3>2. CASE wire' = Drop(wire, k)
      BY <3>2, <1>0 DEF Drop, BoundIn
    <3> QED
      BY <2>1, <3>1, <3>2
  <2> QED
    BY <1>2, <2>2 DEF Peers, socketVars, sessionVars, engineVars, streamVars, BoundIn
<1>3. CASE Poll
  <2>1. /\ UNCHANGED <<wire, inbound, pending, published, cid_tcp_socket>>
        /\ inbound = <<>> /\ pc' = "receive"
    BY <1>3 DEF Poll, BoundIn, sessionVars, engineVars
  <2> QED
    BY <2>1 DEF BoundIn
<1>4. CASE Receive
  <2> DEFINE k == Head(todo)
  <2>1. k \in Conn
    BY <1>4, <1>0 DEF Receive
  <2>2. UNCHANGED <<pending, published, cid_tcp_socket>> /\ inbound = <<>>
    BY <1>4 DEF Receive, ReadData, ReadNothing, ReadEnd, engineVars, streamVars, BoundIn
  <2>3. CASE ReadData(k)
    <3>1. inbound' = wire[k] /\ todo' = todo /\ pc' = "callback" /\ wire' = Drop(wire, k)
      BY <2>3 DEF ReadData
    <3>2. \A i \in 1 .. Len(inbound') : inbound'[i].conn = Head(todo')
      BY <3>1, <2>1 DEF BoundIn
    <3>3. \A j \in Conn : \A i \in 1 .. Len(wire'[j]) : wire'[j][i].conn = j
      BY <3>1, <1>0 DEF Drop, BoundIn
    <3> QED
      BY <3>1, <3>2, <3>3, <2>2 DEF BoundIn
  <2>4. CASE ReadNothing(k) \/ ReadEnd(k)
    BY <2>2, <2>4 DEF ReadNothing, ReadEnd, BoundIn
  <2> QED
    BY <1>4, <2>3, <2>4 DEF Receive
<1>5. CASE HandleRequest
  <2> DEFINE r == Head(inbound)  x == [r EXCEPT !.time = rx_time]
  <2>1. /\ x \in Request /\ x.client = r.client /\ x.conn = r.conn
        /\ \/ pending' = pending
           \/ /\ cid_tcp_socket'[r.client] = r.conn
              /\ pending' = pending \/ pending' = Append(pending, x)
    BY <1>5, Handled
  <2>2. /\ published' = published /\ todo' = todo /\ pc' = "callback" /\ wire' = wire
        /\ inbound' = Tail(inbound) /\ inbound # <<>>
    BY <1>5 DEF HandleRequest, engineVars, streamVars, peerVars
  <2>3. \A i \in 1 .. Len(inbound') : inbound'[i].conn = Head(todo')
    <3>1. /\ Len(inbound') = Len(inbound) - 1 /\ Len(inbound) \in Nat
          /\ \A i \in 1 .. Len(inbound') : inbound'[i] = inbound[i + 1]
      BY <2>2, <1>0, HeadTailProperties
    <3> QED
      BY <3>1, <2>2 DEF BoundIn
  <2> HIDE DEF r, x
  <2>4. \A i \in 1 .. Len(pending') : cid_tcp_socket'[pending'[i].client] = pending'[i].conn
    <3>1. CASE pending' = pending
      BY <3>1, <1>P
    <3>2. CASE cid_tcp_socket'[r.client] = r.conn /\ pending' = Append(pending, x)
      <4>1. /\ Len(pending') = Len(pending) + 1 /\ Len(pending) \in Nat
            /\ \A i \in 1 .. Len(pending) : pending'[i] = pending[i]
            /\ pending'[Len(pending) + 1] = x
        BY <3>2, <2>1, <1>0, AppendProperties
      <4> QED
        BY <4>1, <3>2, <2>1, <1>P
    <3> QED
      BY <2>1, <3>1, <3>2
  <2> QED
    BY <2>2, <2>3, <2>4, <1>P DEF BoundIn
<1>6. CASE Flush
  BY <1>6 DEF Flush, BoundIn, peerVars, sessionVars, engineVars, streamVars
<1>7. CASE SequenceAndPublish
  <2>1. UNCHANGED <<wire, inbound, todo, cid_tcp_socket>> /\ inbound = <<>>
    BY <1>7 DEF SequenceAndPublish, peerVars, socketVars, BoundIn
  <2>2. CASE pending = <<>>
    BY <1>7, <2>1, <2>2 DEF SequenceAndPublish, BoundIn
  <2>3. CASE pending # <<>>
    <3>1. PICK n \in 1 .. Len(pending) : published' = Append(published, pending[n])
      BY <1>7, <2>3 DEF SequenceAndPublish
    <3>2. /\ Len(published') = Len(published) + 1 /\ Len(published) \in Nat
          /\ \A i \in 1 .. Len(published) : published'[i] = published[i]
          /\ published'[Len(published) + 1] = pending[n]
      BY <3>1, <1>0, AppendProperties
    <3>3. \A i \in 1 .. Len(published') :
              cid_tcp_socket'[published'[i].client] = published'[i].conn
      BY <3>2, <1>P
    <3>4. pending' = <<>>
      BY <1>7, <2>3 DEF SequenceAndPublish
    <3> QED
      BY <2>1, <3>3, <3>4 DEF BoundIn
  <2> QED
    BY <2>2, <2>3
<1>8. CASE EndReceive \/ EndCallback \/ EndRespond \/ Respond \/ Engine \/ UNCHANGED vars
  BY <1>8 DEF EndReceive, EndCallback, EndRespond, Respond, Engine, vars, BoundIn, peerVars,
              socketVars, sessionVars, engineVars, streamVars, AfterSockets
<1> QED
  BY <1>1, <1>2, <1>3, <1>4, <1>5, <1>6, <1>7, <1>8 DEF Next, Server, Peers

\* Every step keeps what goes out on the socket of its client.
LEMMA BoundOutStep == TypeOK /\ BoundIn /\ BoundOut /\ [Next]_vars => BoundOut'
<1> SUFFICES ASSUME TypeOK, BoundIn, BoundOut, [Next]_vars PROVE BoundOut'
  OBVIOUS
<1>0. /\ outbound \in [Conn -> Seq(Numbered)] /\ delivered \in [Conn -> Seq(Numbered)]
      /\ todo \in Seq(Conn)
      /\ cid_tcp_socket \in [Client -> Conn \cup {NoSocket}]
  BY DEF TypeOK
<1>T. \A x \in Numbered : x.client \in Client
  BY DEF Numbered
<1>B. \A x \in Numbered, k \in Conn : cid_tcp_socket[x.client] = k => cid_tcp_socket'[x.client] = k
  BY SocketKept, <1>T, NoSocketAssumption
\* What was bound stays bound.
<1>K. \A k \in Conn :
          /\ \A i \in 1 .. Len(outbound[k]) : /\ outbound[k][i] \in Numbered
                                              /\ cid_tcp_socket'[outbound[k][i].client] = k
          /\ \A i \in 1 .. Len(delivered[k]) : /\ delivered[k][i] \in Numbered
                                               /\ cid_tcp_socket'[delivered[k][i].client] = k
  <2> SUFFICES ASSUME NEW k \in Conn
               PROVE  /\ \A i \in 1 .. Len(outbound[k]) :
                             /\ outbound[k][i] \in Numbered
                             /\ cid_tcp_socket'[outbound[k][i].client] = k
                      /\ \A i \in 1 .. Len(delivered[k]) :
                             /\ delivered[k][i] \in Numbered
                             /\ cid_tcp_socket'[delivered[k][i].client] = k
    OBVIOUS
  <2>1. outbound[k] \in Seq(Numbered) /\ delivered[k] \in Seq(Numbered)
    BY <1>0
  <2> QED
    BY <2>1, <1>B, SMTT(30) DEF BoundOut
<1>1. CASE Flush
  <2> DEFINE h == Head(todo)
  <2>1. h \in Conn
    BY <1>1, <1>0 DEF Flush, TypeOK
  <2>2. PICK n \in 0 .. Len(outbound[h]) :
            delivered' = [delivered EXCEPT ![h] = @ \o SubSeq(outbound[h], 1, n)]
    BY <1>1, FlushSends
  <2>3. outbound' = Drop(outbound, h)
    BY <1>1 DEF Flush, AfterSend
  <2> HIDE DEF h
  <2> DEFINE part == SubSeq(outbound[h], 1, n)
  <2>4. /\ part \in Seq(Numbered) /\ Len(part) = n /\ n \in Nat
        /\ \A i \in 1 .. Len(part) : part[i] = outbound[h][i]
    <3>1. outbound[h] \in Seq(Numbered) /\ n \in 0 .. Len(outbound[h])
      BY <1>0, <2>1
    <3> QED
      BY <3>1
  <2>5. \A k \in Conn : \A i \in 1 .. Len(delivered'[k]) :
            cid_tcp_socket'[delivered'[k][i].client] = k
    <3> SUFFICES ASSUME NEW k \in Conn, NEW i \in 1 .. Len(delivered'[k])
                 PROVE  cid_tcp_socket'[delivered'[k][i].client] = k
      OBVIOUS
    <3>1. CASE k # h
      BY <3>1, <2>2, <1>0, <1>K
    <3>2. CASE k = h
      <4>1. delivered'[h] = delivered[h] \o part /\ delivered[h] \in Seq(Numbered)
        BY <2>1, <2>2, <1>0
      <4> HIDE DEF part
      <4>0. Len(delivered[h]) \in Nat /\ Len(part) \in Nat
        BY <4>1, <2>4
      <4>2. /\ Len(delivered'[h]) = Len(delivered[h]) + Len(part)
            /\ \A j \in 1 .. Len(delivered[h]) + Len(part) :
                   delivered'[h][j] = IF j <= Len(delivered[h]) THEN delivered[h][j]
                                      ELSE part[j - Len(delivered[h])]
        <5>1. part \in Seq(Numbered)
          BY <2>4
        <5> QED
          BY <5>1, <4>1, ConcatProperties
      <4>3. CASE i <= Len(delivered[h])
        BY <4>0, <4>2, <4>3, <3>2, <2>1, <1>K, SMTT(30)
      <4>4. CASE i > Len(delivered[h])
        <5>1. i - Len(delivered[h]) \in 1 .. n /\ i \in 1 .. Len(delivered[h]) + Len(part)
          BY <4>0, <4>2, <4>4, <3>2, <2>4
        <5>2. delivered'[h][i] = outbound[h][i - Len(delivered[h])]
          BY <4>0, <5>1, <4>2, <4>4, <2>4
        <5>3. i - Len(delivered[h]) \in 1 .. Len(outbound[h])
          BY <5>1, <2>1, <1>0
        <5> QED
          BY <5>2, <5>3, <3>2, <2>1, <1>K
      <4> QED
        BY <4>0, <4>2, <4>3, <4>4, <3>2
    <3> QED
      BY <3>1, <3>2
  <2>6. \A k \in Conn : \A i \in 1 .. Len(outbound'[k]) :
            cid_tcp_socket'[outbound'[k][i].client] = k
    BY <2>3, <1>0, <1>K DEF Drop
  <2> QED
    BY <2>5, <2>6 DEF BoundOut
<1>2. CASE Respond
  <2> DEFINE m == Head(responses)  h == cid_tcp_socket[m.client]
             x == [client |-> m.client, rank |-> m.rank, num |-> next_out_seq_num[m.client]]
  <2>1. delivered' = delivered /\ cid_tcp_socket' = cid_tcp_socket
    BY <1>2 DEF Respond, sessionVars, streamVars
  <2>2. m \in Response
    BY <1>2 DEF Respond, TypeOK
  <2>3. CASE h = NoSocket
    BY <1>2, <2>1, <2>3 DEF Respond, BoundOut
  <2>4. CASE h # NoSocket
    <3>1. outbound' = Put(outbound, h, x)
      BY <1>2, <2>4 DEF Respond
    <3>2. h \in Conn /\ cid_tcp_socket'[x.client] = h
      BY <2>1, <2>2, <2>4, <1>0 DEF Response
    <3>3. x \in Numbered
      BY <2>2 DEF Numbered, Response, TypeOK
    <3> HIDE DEF x, h
    <3>4. outbound'[h] = Append(outbound[h], x) /\ \A k \in Conn \ {h} : outbound'[k] = outbound[k]
      BY <3>1, <3>2, <1>0 DEF Put
    <3>5. /\ Len(outbound'[h]) = Len(outbound[h]) + 1 /\ Len(outbound[h]) \in Nat
          /\ \A i \in 1 .. Len(outbound[h]) : outbound'[h][i] = outbound[h][i]
          /\ outbound'[h][Len(outbound[h]) + 1] = x
      <4>1. outbound[h] \in Seq(Numbered)
        BY <3>2, <1>0
      <4> QED
        BY <4>1, <3>3, <3>4, AppendProperties
    <3>6. \A k \in Conn : \A i \in 1 .. Len(outbound'[k]) :
              cid_tcp_socket'[outbound'[k][i].client] = k
      <4> SUFFICES ASSUME NEW k \in Conn, NEW i \in 1 .. Len(outbound'[k])
                   PROVE  cid_tcp_socket'[outbound'[k][i].client] = k
        OBVIOUS
      <4>1. CASE k # h
        BY <4>1, <3>4, <1>K
      <4>2. CASE k = h /\ i = Len(outbound[h]) + 1
        BY <4>2, <3>2, <3>5
      <4>3. CASE k = h /\ i # Len(outbound[h]) + 1
        <5>1. i \in 1 .. Len(outbound[h])
          BY <4>3, <3>5
        <5> QED
          BY <5>1, <4>3, <3>2, <3>5, <1>K
      <4> QED
        BY <4>1, <4>2, <4>3
    <3> QED
      BY <3>6, <2>1, <1>K DEF BoundOut
  <2> QED
    BY <2>3, <2>4
<1>3. CASE ~Flush /\ ~Respond
  <2>1. outbound' = outbound /\ delivered' = delivered
    BY <1>3 DEF Next, vars, Peers, Server, Engine, streamVars, Poll, Receive, EndReceive, HandleRequest,
                EndCallback, SequenceAndPublish, EndRespond
  <2> QED
    BY <2>1, <1>K DEF BoundOut
<1> QED
  BY <1>1, <1>2, <1>3

\* Every client with a request on its way keeps its socket.
LEMMA KnownStep == TypeOK /\ BoundIn /\ KnownInv /\ [Next]_vars => KnownInv'
<1> SUFFICES ASSUME TypeOK, BoundIn, KnownInv, [Next]_vars PROVE KnownInv'
  OBVIOUS
<1>0. /\ answers \in Seq(Client) /\ responses \in Seq(Response)
      /\ \A i \in 1 .. Len(answers) : answers[i] \in Client
      /\ \A i \in 1 .. Len(responses) : responses[i] \in Response
  BY SMTT(30) DEF TypeOK
<1>T. \A m \in Response : m.client \in Client
  BY DEF Response
\* A client with a socket keeps it.
<1>K. /\ \A i \in 1 .. Len(answers) : cid_tcp_socket'[answers[i]] # NoSocket
      /\ \A i \in 1 .. Len(responses) : cid_tcp_socket'[responses[i].client] # NoSocket
  BY SocketKept, <1>0, <1>T DEF KnownInv
<1>1. CASE Engine
  <2>1. cid_tcp_socket' = cid_tcp_socket /\ status' = status
    BY <1>1 DEF Engine, sessionVars
  <2>2. CASE TakeRequest
    <3>1. \A i \in 1 .. Len(published) : cid_tcp_socket[published[i].client] # NoSocket
      <4>1. \A i \in 1 .. Len(published) : published[i].conn \in Conn
        <5>1. \A i \in 1 .. Len(published) : published[i] \in Request
          BY DEF TypeOK
        <5> QED
          BY <5>1 DEF Request
      <4> QED
        BY <4>1, NoSocketAssumption DEF BoundIn
    <3> DEFINE c == published[handled + 1].client
               resting == {published[i].client : i \in {j \in 1 .. handled : handled <= MaxTrades}}
    <3>2. cid_tcp_socket[c] # NoSocket /\ \A d \in resting : cid_tcp_socket[d] # NoSocket
      BY <2>2, <3>1, SMTT(30) DEF TakeRequest, TypeOK
    <3>3. answers' = <<c>> \/ \E d \in resting : answers' = <<c, c, d>>
      BY <2>2 DEF TakeRequest
    <3>4. responses' = responses
      BY <2>2 DEF TakeRequest
    <3> HIDE DEF c, resting
    <3>5. \A i \in 1 .. Len(answers') : cid_tcp_socket[answers'[i]] # NoSocket
      BY <3>2, <3>3
    <3> QED
      BY <3>4, <3>5, <2>1 DEF KnownInv
  <2>3. CASE SendClientResponse
    <3> DEFINE c == Head(answers)  x == [client |-> c, rank |-> made[c] + 1]
    <3>1. answers # <<>> /\ answers' = Tail(answers) /\ responses' = Append(responses, x)
      BY <2>3 DEF SendClientResponse
    <3>2. cid_tcp_socket[c] # NoSocket /\ c \in Client
      BY <3>1, <1>0 DEF KnownInv
    <3>3. x \in Response /\ x.client = c
      <4>1. made \in [Client -> Nat]
        BY DEF TypeOK
      <4> HIDE DEF c
      <4> QED
        BY <4>1, <3>2 DEF Response
    <3> HIDE DEF c, x
    <3>4. \A i \in 1 .. Len(answers') : cid_tcp_socket[answers'[i]] # NoSocket
      <4>1. /\ Len(answers') = Len(answers) - 1 /\ Len(answers) \in Nat
            /\ \A i \in 1 .. Len(answers') : answers'[i] = answers[i + 1]
        BY <3>1, <1>0, HeadTailProperties
      <4> QED
        BY <4>1 DEF KnownInv
    <3>5. \A i \in 1 .. Len(responses') : cid_tcp_socket[responses'[i].client] # NoSocket
      <4>1. /\ Len(responses') = Len(responses) + 1 /\ Len(responses) \in Nat
            /\ \A i \in 1 .. Len(responses) : responses'[i] = responses[i]
            /\ responses'[Len(responses) + 1] = x
        BY <3>1, <3>3, <1>0, AppendProperties
      <4> QED
        BY <4>1, <3>2, <3>3 DEF KnownInv
    <3> QED
      BY <3>4, <3>5, <2>1 DEF KnownInv
  <2> QED
    BY <1>1, <2>2, <2>3 DEF Engine
<1>2. CASE Respond
  <2>1. answers' = answers /\ responses # <<>>
    BY <1>2 DEF Respond, engineVars, streamVars
  <2>2. cid_tcp_socket[Head(responses).client] # NoSocket
    BY <2>1, <1>0 DEF KnownInv
  <2>3. responses' = Tail(responses) /\ status' = status
    BY <1>2, <2>2 DEF Respond
  <2>4. /\ Len(responses') = Len(responses) - 1 /\ Len(responses) \in Nat
        /\ \A i \in 1 .. Len(responses') : responses'[i] = responses[i + 1]
    BY <2>1, <2>3, <1>0, HeadTailProperties
  <2> QED
    BY <2>1, <2>3, <2>4, <1>K DEF KnownInv
<1>3. CASE ~Engine /\ ~Respond
  <2>1. answers' = answers /\ responses' = responses /\ status' # "no_socket"
    BY <1>3 DEF KnownInv, Next, vars, Peers, Server, engineVars, streamVars, Poll, Receive, EndReceive,
                HandleRequest, EndCallback, Flush, SequenceAndPublish, EndRespond
  <2> QED
    BY <2>1, <1>K DEF KnownInv
<1> QED
  BY <1>1, <1>2, <1>3

\* Every step keeps the pending array empty outside the callbacks.
LEMMA PassStep == PassInv /\ TypeOK /\ [Next]_vars => PassInv'
<1> SUFFICES ASSUME PassInv, TypeOK, [Next]_vars PROVE PassInv'
  OBVIOUS
<1>1. CASE HandleRequest
  BY <1>1 DEF HandleRequest, PassInv
<1>2. CASE Receive
  <2>1. pending' = pending /\ pc = "receive"
    BY <1>2 DEF Receive, sessionVars
  <2>2. \/ recv' = TRUE /\ pc' = "callback"
        \/ recv' = recv /\ pc' \in {"receive", "flush"}
    BY <1>2, <2>1 DEF Receive, ReadData, ReadNothing, ReadEnd
  <2> QED
    BY <2>1, <2>2 DEF PassInv
<1>3. CASE ~HandleRequest /\ ~Receive
  BY <1>3 DEF PassInv, Next, vars, Peers, Server, Engine, streamVars, sessionVars, socketVars, Poll,
              EndReceive, AfterSockets, EndCallback, Flush, SequenceAndPublish, Respond,
              EndRespond
<1> QED
  BY <1>1, <1>2, <1>3

----------------------------------------------------------------------------
(***************************************************************************)
(* The theorems.                                                           *)
(***************************************************************************)

\* The invariant is inductive.
THEOREM GatewayInvariant == Spec => []IInv
<1>1. IInv /\ [Next]_vars => IInv'
  BY TypeStep, OrderStep, BoundInStep, BoundOutStep, KnownStep, PassStep DEF IInv
<1> QED
  BY InitInvariant, <1>1, PTL DEF Spec

\* The variables of the gateway have their types in every reachable state.
THEOREM TypeCorrect == Spec => []TypeOK
<1>1. IInv => TypeOK
  BY DEF IInv
<1> QED
  BY <1>1, GatewayInvariant, PTL

\* The engine gets the requests of a client in the order of their numbers and
\* none of them twice (recvCallback, sequenceAndPublish).
THEOREM RequestsInOrder == Spec => []PublishedInSeqOrder
<1>1. IInv => PublishedInSeqOrder
  BY DEF IInv, OrderInv, RisesThrough, PublishedInSeqOrder
<1> QED
  BY <1>1, GatewayInvariant, PTL

\* The requests of a client that reach the engine, and the responses to it,
\* use one connection (recvCallback's tests of cid_tcp_socket_, run()).
THEOREM SessionsAreBound == Spec => []SessionBinding
<1>1. IInv => SessionBinding
  BY DEF IInv, BoundIn, BoundOut, SessionBinding
<1> QED
  BY <1>1, GatewayInvariant, PTL

\* When the thread polls again, everything it accepted has left the pending
\* array (sendAndRecv's flag and the finished callback).
THEOREM PassesAreClosed == Spec => []NothingPendingAcrossPasses
<1>1. IInv => NothingPendingAcrossPasses
  BY DEF IInv, PassInv, NothingPendingAcrossPasses
<1> QED
  BY <1>1, GatewayInvariant, PTL

\* The ASSERT of the response loop never fails.
THEOREM SocketIsKnown == Spec => []ResponseHasSocket
<1>1. IInv => ResponseHasSocket
  BY DEF IInv, KnownInv, ResponseHasSocket
<1> QED
  BY <1>1, GatewayInvariant, PTL

----------------------------------------------------------------------------
(***************************************************************************)
(* The numbers of the responses.                                           *)
(***************************************************************************)

\* Numbers of the same client rise through a, and from a to b.
NumbersRise(a) == \A i, j \in 1 .. Len(a) :
                      i < j /\ a[i].client = a[j].client => a[i].num < a[j].num
NumbersRiseTo(a, b) == \A i \in 1 .. Len(a), j \in 1 .. Len(b) :
                           a[i].client = b[j].client => a[i].num < b[j].num

\* A response that went out has its rank as its number, below the next one.
Sent(x, next) == x.num = x.rank /\ x.num < next[x.client]

SentInv == \A k \in Conn :
              /\ \A i \in 1 .. Len(outbound[k]) : Sent(outbound[k][i], next_out_seq_num)
              /\ \A i \in 1 .. Len(delivered[k]) : Sent(delivered[k][i], next_out_seq_num)
              /\ NumbersRise(outbound[k]) /\ NumbersRise(delivered[k])
              /\ NumbersRiseTo(delivered[k], outbound[k])

\* The responses of a client that wait are those from the next number to the
\* last one the engine made, in this order.
RanksRise(a) == \A i, j \in 1 .. Len(a) :
                    i < j /\ a[i].client = a[j].client => a[i].rank < a[j].rank
RanksWithin(a, from, to) == \A i \in 1 .. Len(a) :
                                from[a[i].client] <= a[i].rank /\ a[i].rank <= to[a[i].client]
RanksAll(a, from, to) == \A c \in Client : \A n \in from[c] .. to[c] :
                             \E i \in 1 .. Len(a) : a[i].client = c /\ a[i].rank = n

WaitingInv == /\ RanksRise(responses)
              /\ RanksWithin(responses, next_out_seq_num, made)
              /\ RanksAll(responses, next_out_seq_num, made)
              /\ \A c \in Client : next_out_seq_num[c] <= made[c] + 1

\* p is o, or the first elements of it.
Starts(p, o) == Len(p) <= Len(o) /\ \A i \in 1 .. Len(p) : p[i] = o[i]

\* e is d with some of o behind it.
IsJoined(d, o, e) ==
    /\ Len(d) \in Nat /\ Len(e) \in Nat
    /\ \A i \in 1 .. Len(e) : IF i <= Len(d) THEN i \in 1 .. Len(d) /\ e[i] = d[i]
                              ELSE i - Len(d) \in 1 .. Len(o) /\ e[i] = o[i - Len(d)]

\* A sequence with the start of another one behind it.
LEMMA Joined ==
    ASSUME NEW S, NEW d \in Seq(S), NEW o \in Seq(S), NEW p \in Seq(S), Starts(p, o),
           NEW e, e = d \o p
    PROVE  IsJoined(d, o, e)
<1>1. Len(d) \in Nat /\ Len(o) \in Nat /\ Len(p) \in Nat
  OBVIOUS
<1>2. /\ Len(e) = Len(d) + Len(p)
      /\ \A i \in 1 .. Len(d) + Len(p) :
            e[i] = IF i <= Len(d) THEN d[i] ELSE p[i - Len(d)]
  BY ConcatProperties
<1>3. Len(p) <= Len(o) /\ \A i \in 1 .. Len(p) : p[i] = o[i]
  BY DEF Starts
<1>4. ASSUME NEW i \in 1 .. Len(e)
      PROVE  IF i <= Len(d) THEN i \in 1 .. Len(d) /\ e[i] = d[i]
             ELSE i - Len(d) \in 1 .. Len(o) /\ e[i] = o[i - Len(d)]
  <2>1. i \in 1 .. Len(d) + Len(p)
    BY <1>2
  <2>2. CASE i <= Len(d)
    BY <1>1, <1>2, <2>1, <2>2
  <2>3. CASE ~(i <= Len(d))
    <3>1. i - Len(d) \in 1 .. Len(p)
      BY <1>1, <2>1, <2>3
    <3>2. i - Len(d) \in 1 .. Len(o)
      BY <1>1, <1>3, <3>1
    <3> QED BY <1>2, <1>3, <2>1, <2>3, <3>1, <3>2
  <2> QED BY <2>2, <2>3
<1>5. Len(e) \in Nat
  BY <1>1, <1>2
<1> QED
  BY <1>1, <1>4, <1>5 DEF IsJoined

\* Joining keeps the numbers in order.
LEMMA JoinedRise ==
    ASSUME NEW S, NEW d \in Seq(S), NEW o \in Seq(S), NEW p \in Seq(S), Starts(p, o),
           NEW e, e = d \o p, NumbersRise(d), NumbersRise(o), NumbersRiseTo(d, o)
    PROVE  NumbersRise(e)
<1>0. IsJoined(d, o, e)
  BY Joined
<1>1. /\ Len(d) \in Nat /\ Len(e) \in Nat
      /\ \A i \in 1 .. Len(e) :
            IF i <= Len(d) THEN i \in 1 .. Len(d) /\ e[i] = d[i]
            ELSE i - Len(d) \in 1 .. Len(o) /\ e[i] = o[i - Len(d)]
  BY <1>0 DEF IsJoined
<1> SUFFICES ASSUME NEW i \in 1 .. Len(e), NEW j \in 1 .. Len(e), i < j, e[i].client = e[j].client
             PROVE  e[i].num < e[j].num
  BY DEF NumbersRise
<1>2. i \in Int /\ j \in Int
  BY <1>1
<1>3. CASE j <= Len(d)
  <2>1. i <= Len(d)
    BY <1>1, <1>2, <1>3
  <2> QED
    BY <1>1, <1>3, <2>1 DEF NumbersRise
<1>4. CASE i <= Len(d) /\ ~(j <= Len(d))
  BY <1>1, <1>4 DEF NumbersRiseTo
<1>5. CASE ~(i <= Len(d))
  <2>1. ~(j <= Len(d)) /\ i - Len(d) < j - Len(d)
    BY <1>1, <1>2, <1>5
  <2> QED
    BY <1>1, <1>5, <2>1 DEF NumbersRise
<1> QED
  BY <1>3, <1>4, <1>5

\* The first response that waits has the next number of its client.
LEMMA NextIsFirst ==
    ASSUME TypeOK, WaitingInv, responses # <<>>, NEW m, m = responses[1]
    PROVE  m \in Response /\ m.rank = next_out_seq_num[m.client]
<1>1. responses \in Seq(Response) /\ Len(responses) \in Nat /\ 1 \in 1 .. Len(responses)
  BY DEF TypeOK
<1>2. m \in Response /\ m.client \in Client /\ m.rank \in Nat
  <2>1. m \in Response
    BY <1>1
  <2> QED
    BY <2>1 DEF Response
<1>3. next_out_seq_num[m.client] \in Nat /\ made[m.client] \in Nat
  BY <1>2 DEF TypeOK
<1>4. next_out_seq_num[m.client] <= m.rank /\ m.rank <= made[m.client]
  BY <1>1 DEF WaitingInv, RanksWithin
<1>5. PICK i \in 1 .. Len(responses) :
          responses[i].client = m.client /\ responses[i].rank = next_out_seq_num[m.client]
  <2>1. next_out_seq_num[m.client] \in next_out_seq_num[m.client] .. made[m.client]
    BY <1>2, <1>3, <1>4
  <2> QED
    BY <1>2, <2>1 DEF WaitingInv, RanksAll
<1>6. i # 1 => m.rank < responses[i].rank
  BY <1>1, <1>5 DEF WaitingInv, RanksRise
<1> QED
  BY <1>2, <1>3, <1>4, <1>5, <1>6

\* Every step keeps what waits in the queue of responses.
LEMMA WaitingStep == TypeOK /\ WaitingInv /\ [Next]_vars => WaitingInv'
<1> SUFFICES ASSUME TypeOK, WaitingInv, [Next]_vars PROVE WaitingInv'
  OBVIOUS
<1>0. /\ responses \in Seq(Response) /\ Len(responses) \in Nat
      /\ next_out_seq_num \in [Client -> Nat] /\ made \in [Client -> Nat]
      /\ \A i \in 1 .. Len(responses) : responses[i] \in Response
  BY SMTT(30) DEF TypeOK
<1>T. \A r \in Response : r.client \in Client /\ r.rank \in Nat
  BY DEF Response
<1>1. CASE Respond /\ cid_tcp_socket[Head(responses).client] # NoSocket
  <2>1. PICK m : m = responses[1]
    OBVIOUS
  <2>2. responses # <<>> /\ responses' = Tail(responses) /\ made' = made /\ Head(responses) = m
    BY <1>0, <1>1, <2>1 DEF Respond, engineVars, streamVars
  <2>3. m \in Response /\ m.rank = next_out_seq_num[m.client] /\ m.client \in Client
    BY <2>1, <2>2, <1>T, NextIsFirst
  <2>4. next_out_seq_num' = [next_out_seq_num EXCEPT ![m.client] = @ + 1]
    BY <1>1, <2>2 DEF Respond, NextNumber
  <2>5. /\ Len(responses') = Len(responses) - 1
        /\ \A i \in 1 .. Len(responses') : i + 1 \in 1 .. Len(responses)
                                           /\ responses'[i] = responses[i + 1]
    <3>1. /\ Len(responses') = Len(responses) - 1
          /\ \A i \in 1 .. Len(responses') : responses'[i] = responses[i + 1]
      BY <2>2, <1>0, HeadTailProperties
    <3> QED
      BY <3>1, <1>0
  <2>6. RanksRise(responses')
    <3> SUFFICES ASSUME NEW i \in 1 .. Len(responses'), NEW j \in 1 .. Len(responses'), i < j,
                        responses'[i].client = responses'[j].client
                 PROVE  responses'[i].rank < responses'[j].rank
      BY DEF RanksRise
    <3>1. i + 1 \in 1 .. Len(responses) /\ j + 1 \in 1 .. Len(responses) /\ i + 1 < j + 1
      BY <2>5, <1>0
    <3>2. responses'[i] = responses[i + 1] /\ responses'[j] = responses[j + 1]
      BY <2>5
    <3> QED
      BY <3>1, <3>2 DEF WaitingInv, RanksRise
  <2>7. RanksWithin(responses', next_out_seq_num', made')
    <3> SUFFICES ASSUME NEW i \in 1 .. Len(responses'), NEW r, r = responses'[i]
                 PROVE  next_out_seq_num'[r.client] <= r.rank /\ r.rank <= made[r.client]
      BY <2>2 DEF RanksWithin
    <3>1. i + 1 \in 1 .. Len(responses) /\ r = responses[i + 1] /\ i + 1 > 1 /\ 1 \in 1 .. Len(responses)
      BY <2>5, <1>0
    <3>2. next_out_seq_num[r.client] <= r.rank /\ r.rank <= made[r.client] /\ r \in Response
      BY <3>1, <1>0 DEF WaitingInv, RanksWithin
    <3>3. CASE r.client = m.client
      <4>1. m.rank < r.rank
        BY <3>1, <3>3, <2>1 DEF WaitingInv, RanksRise
      <4>2. next_out_seq_num'[r.client] = next_out_seq_num[m.client] + 1
        BY <3>3, <2>3, <2>4, <1>0
      <4>3. r.rank \in Nat /\ m.rank \in Nat /\ next_out_seq_num[m.client] \in Nat
        BY <3>2, <2>3, <1>T, <1>0
      <4> QED
        BY <3>2, <4>1, <4>2, <4>3, <2>3
    <3>4. CASE r.client # m.client
      BY <3>2, <3>4, <2>4, <1>0, <1>T
    <3> QED
      BY <3>3, <3>4
  <2>8. RanksAll(responses', next_out_seq_num', made')
    <3> SUFFICES ASSUME NEW c \in Client, NEW n \in next_out_seq_num'[c] .. made[c]
                 PROVE  \E i \in 1 .. Len(responses') : responses'[i].client = c
                                                        /\ responses'[i].rank = n
      BY <2>2 DEF RanksAll
    <3>1. /\ next_out_seq_num[c] \in Nat /\ made[c] \in Nat
          /\ next_out_seq_num'[c] = IF c = m.client THEN next_out_seq_num[c] + 1
                                    ELSE next_out_seq_num[c]
      BY <2>4, <1>0
    <3>2. n \in next_out_seq_num[c] .. made[c] /\ (c = m.client => n # m.rank)
      BY <3>1, <2>3
    <3>3. PICK i \in 1 .. Len(responses) : responses[i].client = c /\ responses[i].rank = n
      BY <3>2 DEF WaitingInv, RanksAll
    <3>4. i # 1
      BY <3>2, <3>3, <2>1
    <3>5. i - 1 \in 1 .. Len(responses') /\ (i - 1) + 1 = i
      BY <3>4, <2>5, <1>0
    <3>6. responses'[i - 1] = responses[i]
      BY <3>5, <2>5
    <3> QED
      BY <3>3, <3>5, <3>6
  <2>9. \A c \in Client : next_out_seq_num'[c] <= made'[c] + 1
    <3>1. m.rank <= made[m.client] /\ 1 \in 1 .. Len(responses)
      BY <2>1, <2>2, <1>0 DEF WaitingInv, RanksWithin
    <3>2. made[m.client] \in Nat /\ next_out_seq_num[m.client] \in Nat
      BY <2>3, <1>0
    <3> QED
      BY <3>1, <3>2, <2>2, <2>3, <2>4, <1>0 DEF WaitingInv
  <2> QED
    BY <2>6, <2>7, <2>8, <2>9 DEF WaitingInv
<1>2. CASE Engine /\ SendClientResponse
  <2>1. PICK c : c = Head(answers)
    OBVIOUS
  <2>2. c \in Client
    BY <1>2, <2>1 DEF SendClientResponse, TypeOK
  <2>3. PICK x : x = [client |-> c, rank |-> made[c] + 1]
    OBVIOUS
  <2>4. x \in Response /\ x.client = c /\ x.rank = made[c] + 1 /\ made[c] \in Nat
    BY <2>2, <2>3, <1>0 DEF Response
  <2>5. /\ responses' = Append(responses, x) /\ made' = [made EXCEPT ![c] = @ + 1]
        /\ next_out_seq_num' = next_out_seq_num
    BY <1>2, <2>1, <2>3 DEF Engine, SendClientResponse
  <2>6. /\ Len(responses') = Len(responses) + 1
        /\ \A i \in 1 .. Len(responses) : responses'[i] = responses[i]
        /\ responses'[Len(responses) + 1] = x
    BY <2>4, <2>5, <1>0, AppendProperties
  <2>7. RanksRise(responses')
    <3> SUFFICES ASSUME NEW i \in 1 .. Len(responses'), NEW j \in 1 .. Len(responses'), i < j,
                        responses'[i].client = responses'[j].client
                 PROVE  responses'[i].rank < responses'[j].rank
      BY DEF RanksRise
    <3>1. i \in 1 .. Len(responses) /\ responses'[i] = responses[i] /\ responses[i] \in Response
      BY <2>6, <1>0
    <3>2. CASE j = Len(responses) + 1
      <4>1. responses'[j] = x
        BY <3>2, <2>6
      <4>2. responses[i].client = c /\ responses[i].rank <= made[c]
        BY <3>1, <4>1, <2>4 DEF WaitingInv, RanksWithin
      <4> QED
        BY <3>1, <4>1, <4>2, <2>4, <1>T
    <3>3. CASE j # Len(responses) + 1
      <4>0. j \in 1 .. Len(responses)
        <5>1. Len(responses') = Len(responses) + 1 /\ Len(responses) \in Nat
          BY <2>6, <1>0
        <5>2. j \in 1 .. Len(responses) + 1
          BY <5>1
        <5> QED
          BY <5>1, <5>2, <3>3
      <4>1. j \in 1 .. Len(responses) /\ responses'[j] = responses[j]
        BY <4>0, <2>6
      <4> QED
        BY <3>1, <4>1 DEF WaitingInv, RanksRise
    <3> QED
      BY <3>2, <3>3
  <2>8. /\ made'[c] = made[c] + 1
        /\ \A d \in Client : d # c => made'[d] = made[d]
    BY <2>2, <2>5, <1>0
  <2>9. RanksWithin(responses', next_out_seq_num', made')
    <3> SUFFICES ASSUME NEW i \in 1 .. Len(responses'), NEW r, r = responses'[i]
                 PROVE  next_out_seq_num[r.client] <= r.rank /\ r.rank <= made'[r.client]
      BY <2>5 DEF RanksWithin
    <3>1. CASE i = Len(responses) + 1
      <4>1. r = x /\ r.client = c /\ r.rank = made[c] + 1
        BY <3>1, <2>4, <2>6
      <4>2. next_out_seq_num[c] <= made[c] + 1
        BY <2>2 DEF WaitingInv
      <4> QED
        BY <4>1, <4>2, <2>4, <2>8
    <3>2. CASE i # Len(responses) + 1
      <4>1. i \in 1 .. Len(responses) /\ r = responses[i] /\ r \in Response
        BY <3>2, <2>6, <1>0
      <4>2. next_out_seq_num[r.client] <= r.rank /\ r.rank <= made[r.client]
        BY <4>1 DEF WaitingInv, RanksWithin
      <4>3. r.client \in Client /\ r.rank \in Nat /\ made[r.client] \in Nat
        BY <4>1, <1>T, <1>0
      <4> QED
        BY <4>2, <4>3, <2>8
    <3> QED
      BY <3>1, <3>2
  <2>10. RanksAll(responses', next_out_seq_num', made')
    <3> SUFFICES ASSUME NEW d \in Client, NEW n \in next_out_seq_num[d] .. made'[d]
                 PROVE  \E i \in 1 .. Len(responses') : responses'[i].client = d
                                                        /\ responses'[i].rank = n
      BY <2>5 DEF RanksAll
    <3>1. next_out_seq_num[d] \in Nat /\ made[d] \in Nat
      BY <1>0
    <3>2. CASE d = c /\ n = made[c] + 1
      <4>1. Len(responses) + 1 \in 1 .. Len(responses')
        BY <2>6, <1>0
      <4> QED
        BY <3>2, <4>1, <2>4, <2>6
    <3>3. CASE ~(d = c /\ n = made[c] + 1)
      <4>1. n \in next_out_seq_num[d] .. made[d]
        BY <3>1, <3>3, <2>8
      <4>2. PICK i \in 1 .. Len(responses) : responses[i].client = d /\ responses[i].rank = n
        BY <4>1 DEF WaitingInv, RanksAll
      <4>3. i \in 1 .. Len(responses') /\ responses'[i] = responses[i]
        BY <2>6, <1>0
      <4> QED
        BY <4>2, <4>3
    <3> QED
      BY <3>2, <3>3
  <2>11. \A d \in Client : next_out_seq_num'[d] <= made'[d] + 1
    <3> SUFFICES ASSUME NEW d \in Client PROVE next_out_seq_num[d] <= made'[d] + 1
      BY <2>5
    <3>1. next_out_seq_num[d] \in Nat /\ made[d] \in Nat /\ next_out_seq_num[d] <= made[d] + 1
      BY <1>0 DEF WaitingInv
    <3> QED
      BY <3>1, <2>8
  <2> QED
    BY <2>7, <2>9, <2>10, <2>11 DEF WaitingInv
<1>3. CASE UNCHANGED <<responses, made, next_out_seq_num>>
  BY <1>3 DEF WaitingInv
<1>4. \/ Respond /\ cid_tcp_socket[Head(responses).client] # NoSocket
      \/ Engine /\ SendClientResponse
      \/ UNCHANGED <<responses, made, next_out_seq_num>>
  BY DEF Next, vars, Peers, Server, Engine, engineVars, streamVars, Poll, Receive, EndReceive,
         HandleRequest, EndCallback, Flush, SequenceAndPublish, Respond, EndRespond, TakeRequest
<1> QED
  BY <1>1, <1>2, <1>3, <1>4

\* Every step keeps what went out, and what is on its way out.
LEMMA SentStep == TypeOK /\ WaitingInv /\ SentInv /\ [Next]_vars => SentInv'
<1> SUFFICES ASSUME TypeOK, WaitingInv, SentInv, [Next]_vars PROVE SentInv'
  OBVIOUS
<1>0. /\ outbound \in [Conn -> Seq(Numbered)] /\ delivered \in [Conn -> Seq(Numbered)]
      /\ next_out_seq_num \in [Client -> Nat]
      /\ \A k \in Conn : outbound[k] \in Seq(Numbered) /\ delivered[k] \in Seq(Numbered)
  BY DEF TypeOK
<1>1. CASE Flush
  <2>1. PICK h : h = Head(todo)
    OBVIOUS
  <2>2. h \in Conn
    BY <1>1, <2>1 DEF Flush, TypeOK
  <2>3. PICK n \in 0 .. Len(outbound[h]) :
            delivered' = [delivered EXCEPT ![h] = @ \o SubSeq(outbound[h], 1, n)]
    BY <1>1, <2>1, FlushSends
  <2>4. outbound' = Drop(outbound, h) /\ next_out_seq_num' = next_out_seq_num
    BY <1>1, <2>1 DEF Flush, AfterSend
  <2>5. outbound'[h] = <<>> /\ \A k \in Conn \ {h} : outbound'[k] = outbound[k]
                                                     /\ delivered'[k] = delivered[k]
    BY <2>2, <2>3, <2>4, <1>0 DEF Drop
  <2>6. PICK d, o, e : d = delivered[h] /\ o = outbound[h] /\ e = delivered'[h]
    OBVIOUS
  <2>7. PICK p : p = SubSeq(o, 1, n)
    OBVIOUS
  <2>71. e = d \o p /\ d \in Seq(Numbered) /\ o \in Seq(Numbered)
    BY <2>2, <2>3, <2>6, <2>7, <1>0
  <2>72. p \in Seq(Numbered) /\ Starts(p, o)
    <3>1. n \in 0 .. Len(o)
      BY <2>6
    <3> QED
      BY <3>1, <2>7, <2>71 DEF Starts
  <2>8. NumbersRise(e)
    BY <2>2, <2>6, <2>71, <2>72, JoinedRise DEF SentInv
  <2>9. \A i \in 1 .. Len(e) : Sent(e[i], next_out_seq_num)
    <3>1. IsJoined(d, o, e)
      BY <2>71, <2>72, Joined
    <3>2. /\ \A i \in 1 .. Len(d) : Sent(d[i], next_out_seq_num)
          /\ \A i \in 1 .. Len(o) : Sent(o[i], next_out_seq_num)
      BY <2>2, <2>6 DEF SentInv
    <3> QED
      BY <3>1, <3>2 DEF IsJoined
  <2>10. ASSUME NEW k \in Conn
         PROVE  /\ \A i \in 1 .. Len(outbound'[k]) : Sent(outbound'[k][i], next_out_seq_num)
                /\ \A i \in 1 .. Len(delivered'[k]) : Sent(delivered'[k][i], next_out_seq_num)
                /\ NumbersRise(outbound'[k]) /\ NumbersRise(delivered'[k])
                /\ NumbersRiseTo(delivered'[k], outbound'[k])
    <3>1. CASE k = h
      BY <3>1, <2>5, <2>6, <2>8, <2>9 DEF NumbersRise, NumbersRiseTo
    <3>2. CASE k # h
      BY <3>2, <2>5 DEF SentInv
    <3> QED
      BY <3>1, <3>2
  <2> QED
    BY <2>4, <2>10 DEF SentInv
<1>2. CASE Respond /\ cid_tcp_socket[Head(responses).client] # NoSocket
  <2>1. PICK m, h : m = responses[1] /\ h = cid_tcp_socket[m.client]
    OBVIOUS
  <2>2. responses # <<>> /\ Head(responses) = m /\ h # NoSocket
    BY <1>2, <2>1 DEF Respond, TypeOK
  <2>3. m \in Response /\ m.rank = next_out_seq_num[m.client] /\ m.client \in Client /\ m.rank \in Nat
    BY <2>1, <2>2, NextIsFirst DEF Response
  <2>4. PICK x : x = [client |-> m.client, rank |-> m.rank, num |-> next_out_seq_num[m.client]]
    OBVIOUS
  <2>5. x.client = m.client /\ x.num = x.rank /\ x.num = next_out_seq_num[m.client] /\ x \in Numbered
    BY <2>3, <2>4 DEF Numbered
  <2>6. /\ outbound' = Put(outbound, h, x) /\ delivered' = delivered
        /\ next_out_seq_num' = [next_out_seq_num EXCEPT ![m.client] = @ + 1]
    BY <1>2, <2>1, <2>2, <2>4 DEF Respond, NextNumber, streamVars
  <2>7. h \in Conn
    BY <2>1, <2>2, <2>3 DEF TypeOK
  <2>8. /\ outbound'[h] = Append(outbound[h], x)
        /\ \A k \in Conn \ {h} : outbound'[k] = outbound[k]
    BY <2>6, <2>7, <1>0 DEF Put
  <2>9. PICK o, d, p : o = outbound[h] /\ d = delivered[h] /\ p = outbound'[h]
    OBVIOUS
  <2>10. o \in Seq(Numbered) /\ d \in Seq(Numbered) /\ p = Append(o, x)
    BY <2>7, <2>8, <2>9, <1>0
  <2>11. /\ Len(p) = Len(o) + 1 /\ Len(o) \in Nat /\ p[Len(o) + 1] = x
         /\ \A i \in 1 .. Len(p) : i # Len(o) + 1 => i \in 1 .. Len(o) /\ p[i] = o[i]
    <3>1. /\ Len(p) = Len(o) + 1 /\ Len(o) \in Nat /\ p[Len(o) + 1] = x
          /\ \A i \in 1 .. Len(o) : p[i] = o[i]
      BY <2>5, <2>10, AppendProperties
    <3> QED
      BY <3>1
  <2>12. /\ \A i \in 1 .. Len(o) : Sent(o[i], next_out_seq_num) /\ o[i] \in Numbered
         /\ \A i \in 1 .. Len(d) : Sent(d[i], next_out_seq_num) /\ d[i] \in Numbered
         /\ NumbersRise(o) /\ NumbersRise(d) /\ NumbersRiseTo(d, o)
    BY <2>7, <2>9, <2>10 DEF SentInv
  <2>13. \A y \in Numbered : Sent(y, next_out_seq_num) =>
            Sent(y, next_out_seq_num') /\ (y.client = x.client => y.num < x.num)
    <3> SUFFICES ASSUME NEW y \in Numbered, Sent(y, next_out_seq_num)
                 PROVE  Sent(y, next_out_seq_num') /\ (y.client = x.client => y.num < x.num)
      OBVIOUS
    <3>1. y.client \in Client /\ y.num \in Nat
      BY DEF Numbered
    <3>2. /\ next_out_seq_num[y.client] \in Nat
          /\ next_out_seq_num'[y.client] \in {next_out_seq_num[y.client], next_out_seq_num[y.client] + 1}
      BY <3>1, <2>6, <1>0
    <3> QED
      BY <3>1, <3>2, <2>5 DEF Sent
  <2>14. Sent(x, next_out_seq_num')
    BY <2>3, <2>5, <2>6, <1>0 DEF Sent
  <2>15. \A i \in 1 .. Len(p) : Sent(p[i], next_out_seq_num')
    BY <2>11, <2>12, <2>13, <2>14
  <2>16. NumbersRise(p)
    <3> SUFFICES ASSUME NEW i \in 1 .. Len(p), NEW j \in 1 .. Len(p), i < j, p[i].client = p[j].client
                 PROVE  p[i].num < p[j].num
      BY DEF NumbersRise
    <3>1. i \in 1 .. Len(o) /\ p[i] = o[i]
      BY <2>11
    <3>2. CASE j = Len(o) + 1
      BY <3>1, <3>2, <2>11, <2>12, <2>13
    <3>3. CASE j # Len(o) + 1
      BY <3>1, <3>3, <2>11, <2>12 DEF NumbersRise
    <3> QED
      BY <3>2, <3>3
  <2>17. NumbersRiseTo(d, p)
    <3> SUFFICES ASSUME NEW i \in 1 .. Len(d), NEW j \in 1 .. Len(p), d[i].client = p[j].client
                 PROVE  d[i].num < p[j].num
      BY DEF NumbersRiseTo
    <3>1. CASE j = Len(o) + 1
      BY <3>1, <2>11, <2>12, <2>13
    <3>2. CASE j # Len(o) + 1
      BY <3>2, <2>11, <2>12 DEF NumbersRiseTo
    <3> QED
      BY <3>1, <3>2
  <2>18. ASSUME NEW k \in Conn
         PROVE  /\ \A i \in 1 .. Len(outbound'[k]) : Sent(outbound'[k][i], next_out_seq_num')
                /\ \A i \in 1 .. Len(delivered'[k]) : Sent(delivered'[k][i], next_out_seq_num')
                /\ NumbersRise(outbound'[k]) /\ NumbersRise(delivered'[k])
                /\ NumbersRiseTo(delivered'[k], outbound'[k])
    <3>1. CASE k = h
      BY <3>1, <2>6, <2>9, <2>12, <2>13, <2>15, <2>16, <2>17
    <3>2. CASE k # h
      <4>1. outbound'[k] = outbound[k] /\ delivered'[k] = delivered[k]
        BY <3>2, <2>6, <2>8
      <4>2. /\ \A i \in 1 .. Len(outbound[k]) : outbound[k][i] \in Numbered
            /\ \A i \in 1 .. Len(delivered[k]) : delivered[k][i] \in Numbered
        BY <1>0
      <4> QED
        BY <4>1, <4>2, <2>13 DEF SentInv
    <3> QED
      BY <3>1, <3>2
  <2> QED
    BY <2>18 DEF SentInv
<1>3. CASE UNCHANGED <<outbound, delivered, next_out_seq_num>>
  BY <1>3 DEF SentInv, Sent
<1>4. \/ Flush
      \/ Respond /\ cid_tcp_socket[Head(responses).client] # NoSocket
      \/ UNCHANGED <<outbound, delivered, next_out_seq_num>>
  <2>1. CASE Respond
    BY <2>1 DEF Respond, streamVars
  <2>2. CASE ~Respond /\ ~Flush
    BY <2>2 DEF Next, vars, Peers, Server, Engine, streamVars, Poll, Receive, EndReceive, HandleRequest,
                EndCallback, SequenceAndPublish, EndRespond
  <2>3. CASE Flush
    BY <2>3
  <2> QED
    BY <2>1, <2>2, <2>3
<1> QED
  BY <1>1, <1>2, <1>3, <1>4

\* What went out and what waits to be sent, one behind the other.
LEMMA RepliesRise == TypeOK /\ SentInv => RepliesInOrder
<1> SUFFICES ASSUME TypeOK, SentInv, NEW k \in Conn, NEW d, d = delivered[k], NEW o, o = outbound[k],
                    NEW all, all = d \o o
             PROVE  /\ \A i \in 1 .. Len(all) : all[i].num = all[i].rank
                    /\ \A i, j \in 1 .. Len(all) :
                           i < j /\ all[i].client = all[j].client => all[i].num < all[j].num
  BY DEF RepliesInOrder
<1>1. d \in Seq(Numbered) /\ o \in Seq(Numbered)
  BY DEF TypeOK
<1>2. Starts(o, o)
  BY <1>1 DEF Starts
<1>3. /\ \A i \in 1 .. Len(d) : Sent(d[i], next_out_seq_num)
      /\ \A i \in 1 .. Len(o) : Sent(o[i], next_out_seq_num)
      /\ NumbersRise(d) /\ NumbersRise(o) /\ NumbersRiseTo(d, o)
  BY DEF SentInv
<1>4. NumbersRise(all)
  BY <1>1, <1>2, <1>3, JoinedRise
<1>5. IsJoined(d, o, all)
  BY <1>1, <1>2, Joined
<1>6. ASSUME NEW i \in 1 .. Len(all) PROVE all[i].num = all[i].rank
  <2>1. Sent(all[i], next_out_seq_num)
    BY <1>3, <1>5 DEF IsJoined
  <2> QED
    BY <2>1 DEF Sent
<1> QED
  BY <1>4, <1>6 DEF NumbersRise

\* What a client can read, up to the first response that a send cut, are its
\* responses in the order the engine made them, each numbered by its rank and
\* none twice (the response loop of run() and the sends).
THEOREM RepliesAreNumbered == Spec => []RepliesInOrder
<1>1. Init => WaitingInv /\ SentInv
  BY DEF Init, WaitingInv, RanksRise, RanksWithin, RanksAll, SentInv, NumbersRise, NumbersRiseTo
<1>2. TypeOK /\ WaitingInv /\ SentInv /\ [Next]_vars => (WaitingInv /\ SentInv)'
  BY WaitingStep, SentStep
<1>3. TypeOK /\ SentInv => RepliesInOrder
  BY RepliesRise
<1> QED
  BY <1>1, <1>2, <1>3, TypeCorrect, PTL DEF Spec

(***************************************************************************)
(* The program as it is: no socket is registered when it starts.           *)
(***************************************************************************)

\* No socket but the listener, and nothing that would take one.
DeafInv == /\ receive_sockets = <<>> /\ todo = <<>> /\ ~recv
           /\ \A k \in Conn : ~fd_open[k]
           /\ ready \subseteq {Listener}
           /\ pc \in {"poll", "receive", "respond"}
           /\ published = <<>>

\* An event of the listener alone accepts nothing.
LEMMA DeafStep == TypeOK /\ DeafInv /\ [Next]_vars => DeafInv'
<1> SUFFICES ASSUME TypeOK, DeafInv, [Next]_vars PROVE DeafInv'
  OBVIOUS
<1>1. CASE UNCHANGED vars
  BY <1>1 DEF DeafInv, vars, peerVars, socketVars, engineVars
<1>2. CASE Peers
  <2>1. PICK k \in Conn : Connect(k) \/ SendRequest(k) \/ Leave(k)
    BY <1>2 DEF Peers
  <2>2. ready' \subseteq {Listener}
    BY <2>1 DEF Connect, SendRequest, Leave, Notify, DeafInv
  <2> QED
    BY <1>2, <2>2 DEF Peers, DeafInv, socketVars, engineVars
<1>3. CASE Poll
  <2>1. Takes = {<<>>}
    BY DEF Takes, Reported, DeafInv
  <2>2. EraseDead(receive_sockets) = <<>>
    <3> DEFINE s == receive_sockets
               Body(g, i) == IF i = 0 THEN <<>>
                             ELSE IF fd_open[s[i]] THEN Append(g[i - 1], s[i]) ELSE g[i - 1]
               IsKept(g) == g = [i \in 0 .. 0 |-> Body(g, i)]
               kept == CHOOSE g : IsKept(g)
    <3>1. Len(s) = 0
      BY DEF DeafInv
    <3>2. EraseDead(s) = kept[0]
      BY <3>1 DEF EraseDead
    <3>3. [i \in 0 .. 0 |-> <<>>] = [i \in 0 .. 0 |-> Body([j \in 0 .. 0 |-> <<>>], i)]
      OBVIOUS
    <3>4. IsKept([i \in 0 .. 0 |-> <<>>])
      BY <3>3
    <3>5. IsKept(kept)
      <4> HIDE DEF IsKept
      <4> QED
        BY <3>4
    <3>6. kept[0] = Body(kept, 0)
      <4> HIDE DEF kept, Body
      <4> QED
        BY <3>5
    <3> QED
      BY <3>2, <3>6
  <2>3. /\ fd_open' = [k \in Conn |-> fd_open[k] \/ k \in {<<>>[i] : i \in 1 .. Len(<<>>)}]
        /\ receive_sockets' = <<>> \o <<>>
        /\ ready' = {k \in {<<>>[i] : i \in 1 .. Len(<<>>)} : Readable(k)}
    BY <1>3, <2>1, <2>2 DEF Poll
  <2>4. ready' = {} /\ \A k \in Conn : ~fd_open'[k]
    <3>1. {<<>>[i] : i \in 1 .. Len(<<>>)} = {}
      OBVIOUS
    <3> QED
      BY <2>3, <3>1 DEF DeafInv
  <2>5. receive_sockets' = <<>>
    BY <2>3
  <2> QED
    BY <1>3, <2>4, <2>5 DEF Poll, DeafInv, engineVars
<1>4. CASE EndReceive \/ Respond \/ EndRespond
  BY <1>4 DEF EndReceive, AfterSockets, Respond, EndRespond, DeafInv, peerVars, socketVars,
              engineVars
<1>5. CASE Receive \/ HandleRequest \/ EndCallback \/ Flush \/ SequenceAndPublish
  BY <1>5 DEF Receive, HandleRequest, EndCallback, Flush, SequenceAndPublish, DeafInv
<1>6. CASE Engine
  BY <1>6 DEF Engine, DeafInv, peerVars, socketVars
<1> QED
  BY <1>1, <1>2, <1>3, <1>4, <1>5, <1>6 DEF Next, Server

\* With no socket but the listener to begin with, which is how the program
\* starts, poll() never gets to its accept loop: no connection is ever
\* accepted and no request reaches the engine.
THEOREM AcceptsNothing ==
    ASSUME Registered = <<>>
    PROVE  Spec => [](receive_sockets = <<>> /\ published = <<>>)
<1>1. Init => DeafInv
  <2> SUFFICES ASSUME Init PROVE DeafInv
    OBVIOUS
  <2>1. \A k \in Conn : ~IsRegistered(k)
    BY DEF IsRegistered
  <2> QED
    BY <2>1 DEF Init, DeafInv
<1>2. DeafInv => receive_sockets = <<>> /\ published = <<>>
  BY DEF DeafInv
<1> QED
  BY <1>1, <1>2, DeafStep, TypeCorrect, PTL DEF Spec

=============================================================================
