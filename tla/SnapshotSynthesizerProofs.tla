--------------------- MODULE SnapshotSynthesizerProofs ---------------------
(***************************************************************************)
(* TLAPS proofs about SnapshotSynthesizer, for any tickers, sides, prices  *)
(* and quantities, any size of its tables and any number of updates.       *)
(*                                                                         *)
(* The ASSERTs of addToSnapshot() compare an update with what earlier ones *)
(* left in the table.  Unless a book tells of an order that it told as     *)
(* gone, they hold: the table is what the books were after the updates     *)
(* taken (TableInv), what the books tell of a live order follows from what *)
(* they told (LogInv), and whatever was taken had an id within the table   *)
(* (RowInv): an order that is told as changed or gone was told as added.   *)
(*                                                                         *)
(* The loops of publishSnapshot() join blocks of messages, which           *)
(* JoinedBlocks places one behind the other, rows and orders alike; so a   *)
(* snapshot tells the table (TableTold), and goes on telling the books of  *)
(* its number when the stream is longer (SnapInv).                         *)
(***************************************************************************)
EXTENDS SnapshotSynthesizer, TLAPS, FiniteSetTheorems, WellFoundedInduction,
        SequenceTheorems

NamingType == {"ADD", "MODIFY", "CANCEL"}
UpdateRecord == [type : NamingType \cup {"TRADE"}, ticker : Ticker, id : Int,
                 side : Side \cup {"none"}, price : Price \cup {0}, qty : Nat]
NumberedRecord == [seq : Nat, update : UpdateRecord]

\* Names and BookAt of a log that is given.
NamesOf(l, n, t, o) == {i \in 1 .. n : /\ l[i].update.ticker = t /\ l[i].update.id = o
                                       /\ l[i].update.type \in NamingType}
LastOf(l, n, t, o) ==
    CHOOSE i \in NamesOf(l, n, t, o) : \A j \in NamesOf(l, n, t, o) : j <= i
Left(u) == IF u.type = "CANCEL" THEN NoOrder
           ELSE [side |-> u.side, price |-> u.price, qty |-> u.qty]
BookOf(l, n, t, o) == IF NamesOf(l, n, t, o) = {} THEN NoOrder
                      ELSE Left(l[LastOf(l, n, t, o)].update)

\* What an update says of a live order is true of the book after n others.
Told(l, n, u) ==
    /\ u.type \in NamingType => u.id \in Id /\ u.side \in Side /\ u.price \in Price
    /\ u.type = "ADD" => NamesOf(l, n, u.ticker, u.id) = {}
    /\ u.type \in {"MODIFY", "CANCEL"} => \/ BookOf(l, n, u.ticker, u.id) = NoOrder
                                          \/ BookOf(l, n, u.ticker, u.id).side = u.side

WellTold(l) == /\ l \in Seq(NumberedRecord)
               /\ \A i \in 1 .. Len(l) : l[i].seq = i /\ Told(l, i - 1, l[i].update)

\* Of the updates that name an order one is the last.
HasLast(l, n, t, o) == \/ NamesOf(l, n, t, o) = {}
                       \/ LastOf(l, n, t, o) \in NamesOf(l, n, t, o)
Lasts(l) == \A n \in 0 .. Len(l), t \in Row, o \in Int : HasLast(l, n, t, o)

LogInv == WellTold(log) /\ Lasts(log)

TableInv == \A t \in Row, o \in Row : ticker_orders[t][o] = BookOf(log, taken, t, o)

RowInv == \A i \in 1 .. taken : log[i].update.type \in NamingType => log[i].update.id \in Row

NumberInv == last_inc_seq_num = taken

ExitInv ==
    pc = "exited" =>
    LET u == log[taken + 1].update
    IN  \/ u.type = "ADD" /\ (u.id = MaxOrderIds \/ Cardinality(InUse) + 1 >= MaxOrderIds)
        \/ u.type \in {"MODIFY", "CANCEL"} /\ BookOf(log, taken, u.ticker, u.id) = NoOrder

IInv == TypeOK /\ LogInv /\ TableInv /\ RowInv /\ NumberInv /\ ExitInv

----------------------------------------------------------------------------

\* The operators of the module are these, of its log.
LEMMA SameBook ==
    ASSUME NEW n, NEW t, NEW o
    PROVE  Names(n, t, o) = NamesOf(log, n, t, o) /\ BookAt(n, t, o) = BookOf(log, n, t, o)
<1>1. Names(n, t, o) = NamesOf(log, n, t, o)
  BY DEF Names, NamesOf, NamingType
<1> QED BY <1>1 DEF BookAt, BookOf, LastOf, Left

\* What a book has at a place is an order or none.
LEMMA BookType ==
    ASSUME NEW l, WellTold(l), Lasts(l), NEW n \in 0 .. Len(l), NEW t \in Row, NEW o \in Int
    PROVE  BookOf(l, n, t, o) \in Order \cup {NoOrder}
<1>1. CASE NamesOf(l, n, t, o) = {}
  BY <1>1 DEF BookOf
<1>2. CASE NamesOf(l, n, t, o) # {}
  <2> DEFINE last == LastOf(l, n, t, o)
             u == l[last].update
  <2>1. last \in NamesOf(l, n, t, o)
    BY <1>2 DEF Lasts, HasLast
  <2>2. BookOf(l, n, t, o) = Left(u)
    BY <1>2 DEF BookOf
  <2> HIDE DEF last
  <2>3. last \in 1 .. n /\ u.type \in NamingType
    BY <2>1 DEF NamesOf
  <2>4. last \in 1 .. Len(l)
    BY <2>3 DEF WellTold
  <2>5. l[last] \in NumberedRecord /\ Told(l, last - 1, u)
    BY <2>4 DEF WellTold
  <2>6. u.side \in Side /\ u.price \in Price /\ u.qty \in Nat
    BY <2>3, <2>5 DEF Told, NumberedRecord, UpdateRecord
  <2> HIDE DEF u
  <2> QED BY <2>2, <2>6 DEF Left, Order
<1> QED BY <1>1, <1>2

\* One more update changes the place it names, and no other.
LEMMA BookStep ==
    ASSUME NEW l, NEW n \in Nat \ {0}, NEW t, NEW o
    PROVE  LET u == l[n].update
               named == u.ticker = t /\ u.id = o /\ u.type \in NamingType
           IN  IF named
               THEN /\ NamesOf(l, n, t, o) = NamesOf(l, n - 1, t, o) \cup {n}
                    /\ LastOf(l, n, t, o) = n
                    /\ BookOf(l, n, t, o) = Left(u)
               ELSE /\ NamesOf(l, n, t, o) = NamesOf(l, n - 1, t, o)
                    /\ LastOf(l, n, t, o) = LastOf(l, n - 1, t, o)
                    /\ BookOf(l, n, t, o) = BookOf(l, n - 1, t, o)
<1> DEFINE u == l[n].update
           named == u.ticker = t /\ u.id = o /\ u.type \in NamingType
<1>1. \A k : k \in 1 .. n <=> k \in 1 .. n - 1 \/ k = n
  OBVIOUS
<1>2. CASE named
  <2>1. NamesOf(l, n, t, o) = NamesOf(l, n - 1, t, o) \cup {n}
    BY <1>1, <1>2 DEF NamesOf
  <2>2. \A i \in NamesOf(l, n, t, o) : i \in Int /\ i <= n
    BY DEF NamesOf
  <2>3. LastOf(l, n, t, o) = n
    BY <2>1, <2>2 DEF LastOf
  <2> QED BY <1>2, <2>1, <2>3 DEF BookOf
<1>3. CASE ~named
  <2>1. NamesOf(l, n, t, o) = NamesOf(l, n - 1, t, o)
    BY <1>1, <1>3 DEF NamesOf
  <2>2. LastOf(l, n, t, o) = LastOf(l, n - 1, t, o)
    BY <2>1 DEF LastOf
  <2> QED BY <1>3, <2>1, <2>2 DEF BookOf
<1> QED BY <1>2, <1>3

\* What was told stays as it was when more is told.
LEMMA PastStays ==
    ASSUME NEW l, WellTold(l), Lasts(l), NEW r \in NumberedRecord,
           NEW n \in 0 .. Len(l), NEW t \in Row, NEW o \in Int
    PROVE  /\ NamesOf(Append(l, r), n, t, o) = NamesOf(l, n, t, o)
           /\ LastOf(Append(l, r), n, t, o) = LastOf(l, n, t, o)
           /\ BookOf(Append(l, r), n, t, o) = BookOf(l, n, t, o)
<1> DEFINE m == Append(l, r)
<1>1. \A i \in 1 .. n : i \in 1 .. Len(l) /\ m[i] = l[i]
  BY DEF WellTold
<1> HIDE DEF m
<1>2. NamesOf(m, n, t, o) = NamesOf(l, n, t, o)
  BY <1>1 DEF NamesOf
<1>3. LastOf(m, n, t, o) = LastOf(l, n, t, o)
  BY <1>2 DEF LastOf
<1>4. CASE NamesOf(l, n, t, o) = {}
  BY <1>2, <1>3, <1>4 DEF BookOf, m
<1>5. CASE NamesOf(l, n, t, o) # {}
  <2> DEFINE last == LastOf(l, n, t, o)
  <2>1. last \in NamesOf(l, n, t, o)
    BY <1>5 DEF Lasts, HasLast
  <2> HIDE DEF last
  <2>2. m[last] = l[last]
    BY <1>1, <2>1 DEF NamesOf
  <2> QED BY <1>2, <1>3, <1>5, <2>2 DEF BookOf, last, m
<1> QED BY <1>2, <1>3, <1>4, <1>5 DEF m

\* A log stays well told when what is told follows from it.
LEMMA LogGrows ==
    ASSUME NEW l, WellTold(l), Lasts(l), NEW u \in UpdateRecord, Told(l, Len(l), u)
    PROVE  LET m == Append(l, Numbered(Len(l) + 1, u))
           IN  /\ WellTold(m) /\ Lasts(m) /\ Len(m) = Len(l) + 1
               /\ \A i \in 1 .. Len(l) : m[i] = l[i]
<1> DEFINE r == Numbered(Len(l) + 1, u)
           m == Append(l, r)
<1>0. l \in Seq(NumberedRecord) /\ Len(l) \in Nat
  BY DEF WellTold
<1>1. r \in NumberedRecord /\ r.seq = Len(l) + 1 /\ r.update = u
  BY <1>0 DEF Numbered, NumberedRecord
<1> HIDE DEF r
<1>2. /\ m \in Seq(NumberedRecord) /\ Len(m) = Len(l) + 1 /\ m[Len(l) + 1] = r
      /\ \A i \in 1 .. Len(l) : m[i] = l[i]
  BY <1>0, <1>1
<1>3. \A n \in 0 .. Len(l), t \in Row, o \in Int :
         /\ NamesOf(m, n, t, o) = NamesOf(l, n, t, o)
         /\ LastOf(m, n, t, o) = LastOf(l, n, t, o)
         /\ BookOf(m, n, t, o) = BookOf(l, n, t, o)
  BY <1>1, PastStays
<1> HIDE DEF m
<1>4. \A x \in UpdateRecord : x.ticker \in Row /\ x.id \in Int
  BY TickerAssumption DEF UpdateRecord, Row
<1>5. WellTold(m)
  <2> SUFFICES ASSUME NEW i \in 1 .. Len(l) + 1
               PROVE  m[i].seq = i /\ Told(m, i - 1, m[i].update)
    BY <1>2 DEF WellTold
  <2>1. PICK x \in UpdateRecord : m[i].update = x /\ m[i].seq = i /\ Told(l, i - 1, x)
    <3>1. CASE i = Len(l) + 1
      BY <1>1, <1>2, <3>1
    <3>2. CASE i # Len(l) + 1
      <4>1. i \in 1 .. Len(l) /\ m[i] = l[i]
        BY <1>0, <1>2, <3>2
      <4>2. l[i] \in NumberedRecord /\ l[i].seq = i /\ Told(l, i - 1, l[i].update)
        BY <4>1 DEF WellTold
      <4>3. l[i].update \in UpdateRecord
        BY <4>2 DEF NumberedRecord
      <4> QED BY <4>1, <4>2, <4>3
    <3> QED BY <3>1, <3>2
  <2>2. i - 1 \in 0 .. Len(l) /\ x.ticker \in Row /\ x.id \in Int
    BY <1>0, <1>4
  <2>3. /\ NamesOf(m, i - 1, x.ticker, x.id) = NamesOf(l, i - 1, x.ticker, x.id)
        /\ BookOf(m, i - 1, x.ticker, x.id) = BookOf(l, i - 1, x.ticker, x.id)
    BY <1>3, <2>2
  <2> QED BY <2>1, <2>3 DEF Told
<1>6. Lasts(m)
  <2> SUFFICES ASSUME NEW n \in 0 .. Len(l) + 1, NEW t \in Row, NEW o \in Int
               PROVE  HasLast(m, n, t, o)
    BY <1>2 DEF Lasts
  <2>1. ASSUME NEW k \in 0 .. Len(l) PROVE HasLast(m, k, t, o)
    BY <1>3, <2>1 DEF Lasts, HasLast
  <2>2. CASE n \in 0 .. Len(l)
    BY <2>1, <2>2
  <2>3. CASE n \notin 0 .. Len(l)
    <3>1. n = Len(l) + 1 /\ n \in Nat \ {0} /\ n - 1 \in 0 .. Len(l)
      BY <1>0, <2>3
    <3>2. HasLast(m, n - 1, t, o)
      BY <2>1, <3>1
    <3>3. \/ LastOf(m, n, t, o) = n /\ n \in NamesOf(m, n, t, o)
          \/ /\ LastOf(m, n, t, o) = LastOf(m, n - 1, t, o)
             /\ NamesOf(m, n, t, o) = NamesOf(m, n - 1, t, o)
      BY <3>1, BookStep
    <3> QED BY <3>2, <3>3 DEF HasLast
  <2> QED BY <2>2, <2>3
<1> QED BY <1>2, <1>5, <1>6 DEF m, r

----------------------------------------------------------------------------

\* Nothing is told and the table is empty.
LEMMA InitInv == Init => IInv
<1> SUFFICES ASSUME Init PROVE IInv
  OBVIOUS
<1> USE LimitAssumption
<1>1. log = <<>> /\ Len(log) = 0 /\ taken = 0 /\ last_inc_seq_num = 0 /\ pc = "drain"
  BY DEF Init
<1>2. ASSUME NEW t, NEW o PROVE NamesOf(log, 0, t, o) = {}
  BY DEF NamesOf
<1>3. TypeOK
  <2>1. ticker_orders \in [Row -> [Row -> Order \cup {NoOrder}]]
    BY DEF Init
  <2>2. taken \in 0 .. Len(log) /\ last_inc_seq_num \in Nat
    BY <1>1
  <2>3. due \in BOOLEAN /\ run \in BOOLEAN
    BY DEF Init
  <2> QED BY <1>1, <2>1, <2>2, <2>3 DEF TypeOK
<1>4. LogInv
  <2>1. WellTold(log)
    BY <1>1 DEF WellTold
  <2>2. \A n \in 0 .. Len(log) : n = 0
    BY <1>1
  <2>3. Lasts(log)
    BY <1>2, <2>2 DEF Lasts, HasLast
  <2> QED BY <2>1, <2>3 DEF LogInv
<1>5. TableInv
  <2> SUFFICES ASSUME NEW t \in Row, NEW o \in Row
               PROVE  ticker_orders[t][o] = BookOf(log, 0, t, o)
    BY <1>1 DEF TableInv
  <2>1. BookOf(log, 0, t, o) = NoOrder
    BY <1>2 DEF BookOf
  <2> QED BY <2>1 DEF Init
<1>6. RowInv /\ NumberInv /\ ExitInv
  BY <1>1 DEF RowInv, NumberInv, ExitInv
<1> QED BY <1>3, <1>4, <1>5, <1>6 DEF IInv

\* What the books can tell is well formed and follows from what they told.
LEMMA TellsWhatIs ==
    ASSUME IInv, Books
    PROVE  \E u \in UpdateRecord : Tell(u) /\ Told(log, Len(log), u)
<1> USE LimitAssumption, OrderAssumption
<1>0. Len(log) \in Nat /\ WellTold(log) /\ Lasts(log)
  BY DEF IInv, LogInv, WellTold
<1>1. PICK t \in Ticker : TellTrade(t)
                          \/ \E o \in Id : \/ TellAdd(t, o) \/ TellModify(t, o)
                                          \/ TellCancel(t, o) \/ TellGone(t, o)
  BY DEF Books
<1>2. t \in Row
  BY TickerAssumption DEF Row
<1>4. CASE TellTrade(t)
  <2> DEFINE u == Update("TRADE", t, -1, "none", 0, 0)
  <2>1. u \in UpdateRecord /\ u.type = "TRADE"
    BY DEF Update, UpdateRecord
  <2>2. Told(log, Len(log), u)
    BY <2>1 DEF Told, NamingType
  <2>3. Tell(u)
    BY <1>4 DEF TellTrade
  <2> QED BY <2>1, <2>2, <2>3
<1>5. ASSUME NEW o \in Id, TellAdd(t, o)
      PROVE  \E u \in UpdateRecord : Tell(u) /\ Told(log, Len(log), u)
  <2>1. PICK s \in Side, p \in Price, q \in Quantity : Tell(Update("ADD", t, o, s, p, q))
    BY <1>5 DEF TellAdd
  <2> DEFINE u == Update("ADD", t, o, s, p, q)
  <2>2. /\ u \in UpdateRecord /\ u.type = "ADD" /\ u.ticker = t /\ u.id = o
        /\ u.side = s /\ u.price = p
    BY DEF Update, UpdateRecord, NamingType, Id
  <2>3. Names(Len(log), t, o) = {}
    BY <1>5 DEF TellAdd, Id
  <2>4. NamesOf(log, Len(log), t, o) = {}
    BY <2>3, SameBook
  <2> HIDE DEF u
  <2>5. Told(log, Len(log), u)
    BY <1>0, <2>2, <2>4 DEF Told
  <2> QED BY <2>1, <2>2, <2>5 DEF u
<1>6. ASSUME NEW o \in Id, TellModify(t, o) \/ TellCancel(t, o)
      PROVE  \E u \in UpdateRecord : Tell(u) /\ Told(log, Len(log), u)
  <2> DEFINE order == Book(t, o)
  <2>1. order = BookOf(log, Len(log), t, o)
    BY SameBook DEF Book
  <2>2. order \in Order \cup {NoOrder}
    BY <1>0, <1>2, <2>1, BookType DEF Id
  <2>3. order # NoOrder
    BY <1>6 DEF TellModify, TellCancel, NoOrder
  <2>4. order.side \in Side /\ order.price \in Price /\ order.qty \in Nat
    BY <2>2, <2>3 DEF Order
  <2>5. PICK type \in {"MODIFY", "CANCEL"}, q \in Nat :
                Tell(Update(type, t, o, order.side, order.price, q))
    BY <1>6, <2>4 DEF TellModify, TellCancel
  <2> HIDE DEF order
  <2> DEFINE u == Update(type, t, o, order.side, order.price, q)
  <2>6. u \in UpdateRecord /\ u.type = type /\ u.ticker = t /\ u.id = o
        /\ u.side = order.side /\ u.price = order.price
    BY <2>4 DEF Update, UpdateRecord, NamingType, Id
  <2> HIDE DEF u
  <2>7. Told(log, Len(log), u)
    BY <1>0, <2>1, <2>3, <2>4, <2>6 DEF Told
  <2> QED BY <2>5, <2>6, <2>7 DEF u
<1>7. ASSUME NEW o \in Id, TellGone(t, o)
      PROVE  \E u \in UpdateRecord : Tell(u) /\ Told(log, Len(log), u)
  <2>0. PICK i \in Names(Len(log), t, o) :
                LET x == BookAt(i - 1, t, o)
                IN  /\ Book(t, o) = NoOrder /\ x # NoOrder /\ log[i].update.type = "CANCEL"
                    /\ \/ \E q \in 1 .. x.qty - 1 :
                               Tell(Update("MODIFY", t, o, x.side, x.price, q))
                       \/ Tell(Update("CANCEL", t, o, x.side, x.price, 0))
    BY <1>7 DEF TellGone
  <2>1. PICK was : /\ was = BookAt(i - 1, t, o) /\ Book(t, o) = NoOrder /\ was # NoOrder
                   /\ \/ \E q \in 1 .. was.qty - 1 :
                              Tell(Update("MODIFY", t, o, was.side, was.price, q))
                      \/ Tell(Update("CANCEL", t, o, was.side, was.price, 0))
    BY <2>0
  <2>2. i - 1 \in 0 .. Len(log)
    BY <1>0 DEF Names
  <2>3. was = BookOf(log, i - 1, t, o) /\ BookOf(log, Len(log), t, o) = NoOrder
    BY <2>1, SameBook DEF Book
  <2>4. was.side \in Side /\ was.price \in Price
    <3>1. was \in Order \cup {NoOrder}
      BY <1>0, <1>2, <2>2, <2>3, BookType DEF Id
    <3> QED BY <2>1, <3>1 DEF Order
  <2>5. PICK type \in {"MODIFY", "CANCEL"}, q \in Nat :
                Tell(Update(type, t, o, was.side, was.price, q))
    BY <2>1
  <2> DEFINE u == Update(type, t, o, was.side, was.price, q)
  <2>6. u \in UpdateRecord /\ u.type = type /\ u.ticker = t /\ u.id = o
        /\ u.side = was.side /\ u.price = was.price
    BY <2>4 DEF Update, UpdateRecord, NamingType, Id
  <2> HIDE DEF u
  <2>7. Told(log, Len(log), u)
    BY <1>0, <2>3, <2>4, <2>6 DEF Told
  <2> QED BY <2>5, <2>6, <2>7 DEF u
<1> QED BY <1>1, <1>4, <1>5, <1>6, <1>7

\* The books preserve the invariant: the past stays, and the thread's state.
LEMMA BooksInv == ASSUME IInv, Books PROVE IInv'
<1> USE LimitAssumption
<1>0. WellTold(log) /\ Lasts(log) /\ Len(log) \in Nat /\ taken \in 0 .. Len(log)
  BY DEF IInv, LogInv, WellTold, TypeOK
<1>1. PICK u \in UpdateRecord : Tell(u) /\ Told(log, Len(log), u)
  BY TellsWhatIs
<1> DEFINE r == Numbered(Len(log) + 1, u)
<1>2. /\ log' = Append(log, r) /\ pc # "exited"
      /\ UNCHANGED <<due, run, taken, ticker_orders, last_inc_seq_num, pc>>
  BY <1>1 DEF Tell, classVars
<1>3. /\ WellTold(log') /\ Lasts(log') /\ Len(log') = Len(log) + 1
      /\ \A i \in 1 .. Len(log) : log'[i] = log[i]
  BY <1>0, <1>1, <1>2, LogGrows
<1>4. r \in NumberedRecord
  BY <1>0 DEF Numbered, NumberedRecord
<1> HIDE DEF r
<1>5. TypeOK'
  BY <1>0, <1>2, <1>3 DEF IInv, TypeOK
<1>6. TableInv'
  <2> SUFFICES ASSUME NEW t \in Row, NEW o \in Row
               PROVE  ticker_orders[t][o] = BookOf(log', taken, t, o)
    BY <1>2 DEF TableInv
  <2>1. o \in Int
    BY DEF Row
  <2>2. BookOf(log', taken, t, o) = BookOf(log, taken, t, o)
    BY <1>0, <1>2, <1>4, <2>1, PastStays
  <2> QED BY <2>2 DEF IInv, TableInv
<1>7. RowInv' /\ NumberInv' /\ ExitInv'
  BY <1>0, <1>2, <1>3 DEF IInv, RowInv, NumberInv, ExitInv
<1> QED BY <1>3, <1>5, <1>6, <1>7 DEF IInv, LogInv

\* What the head of the queue says of a live order is true, so of the conditions
\* of addToSnapshot() only the two limits can fail, and that the order is live.
LEMMA OnlyCauses ==
    ASSUME IInv, taken < Len(log), ~Accepted(log[taken + 1].update, log[taken + 1].seq)
    PROVE  LET u == log[taken + 1].update
           IN  \/ u.type = "ADD" /\ (u.id = MaxOrderIds \/ Cardinality(InUse) + 1 >= MaxOrderIds)
               \/ u.type \in {"MODIFY", "CANCEL"} /\ BookOf(log, taken, u.ticker, u.id) = NoOrder
<1> USE LimitAssumption
<1> DEFINE u == log[taken + 1].update  t == u.ticker  o == u.id
<1>0. taken \in Nat /\ Len(log) \in Nat /\ taken + 1 \in 1 .. Len(log) /\ taken \in 0 .. Len(log)
  BY DEF IInv, TypeOK, LogInv, WellTold
<1>1. log[taken + 1] \in NumberedRecord /\ log[taken + 1].seq = taken + 1 /\ Told(log, taken, u)
  <2>1. \A i \in 1 .. Len(log) :
           log[i] \in NumberedRecord /\ log[i].seq = i /\ Told(log, i - 1, log[i].update)
    BY DEF IInv, LogInv, WellTold
  <2>2. taken + 1 - 1 = taken
    BY <1>0
  <2> QED BY <1>0, <2>1, <2>2
<1>2. u \in UpdateRecord /\ t \in Row /\ o \in Int
  BY <1>1, TickerAssumption DEF NumberedRecord, UpdateRecord, Row
<1>3. log[taken + 1].seq = last_inc_seq_num + 1
  BY <1>0, <1>1 DEF IInv, NumberInv
<1>4. u.type \in NamingType => o \in Row \/ o = MaxOrderIds
  BY <1>1 DEF Told, Id, Row
<1>5. ASSUME u.type \in {"MODIFY", "CANCEL"}, BookOf(log, taken, t, o) # NoOrder PROVE FALSE
  <2>1. BookOf(log, taken, t, o) # NoOrder /\ BookOf(log, taken, t, o).side = u.side
    BY <1>1, <1>3, <1>5 DEF Told
  <2>2. o \in Row
    <3>1. NamesOf(log, taken, t, o) # {}
      BY <2>1 DEF BookOf
    <3>2. PICK i \in 1 .. taken : log[i].update.id = o /\ log[i].update.type \in NamingType
      BY <3>1 DEF NamesOf
    <3> QED BY <3>2 DEF IInv, RowInv
  <2>3. ticker_orders[t][o] = BookOf(log, taken, t, o)
    BY <1>2, <2>2 DEF IInv, TableInv
  <2> QED BY <1>3, <1>5, <2>1, <2>2, <2>3 DEF Accepted
<1>6. CASE u.type = "TRADE"
  BY <1>3, <1>6 DEF Accepted
<1>7. CASE u.type = "ADD"
  <2>1. ASSUME o \in Row PROVE ticker_orders[t][o] = NoOrder
    <3>1. NamesOf(log, taken, t, o) = {}
      BY <1>1, <1>3, <1>7 DEF Told
    <3>2. ticker_orders[t][o] = BookOf(log, taken, t, o)
      BY <1>2, <2>1 DEF IInv, TableInv
    <3> QED BY <3>1, <3>2 DEF BookOf
  <2>2. o \in Row \/ o = MaxOrderIds
    BY <1>4, <1>7 DEF NamingType
  <2>3. o \notin Row \/ ~(Cardinality(InUse) + 1 < MaxOrderIds)
    BY <1>3, <1>7, <2>1 DEF Accepted
  <2>4. CASE o = MaxOrderIds
    BY <1>7, <2>4
  <2>5. CASE o \in Row
    <3>1. ~(Cardinality(InUse) + 1 < MaxOrderIds)
      BY <2>3, <2>5
    <3>2. Cardinality(InUse) \in Int
      <4>1. IsFiniteSet(Row \X Row)
        <5>1. IsFiniteSet(Row)
          BY FS_Interval DEF Row
        <5> QED BY <5>1, FS_Product
      <4>2. IsFiniteSet(InUse)
        BY <4>1, FS_Subset DEF InUse
      <4> QED BY <4>2, FS_CardinalityType
    <3> QED BY <1>7, <3>1, <3>2
  <2> QED BY <2>2, <2>4, <2>5
<1> QED BY <1>2, <1>5, <1>6, <1>7 DEF UpdateRecord, NamingType

\* An update that is taken leaves the table as the books are after it.
LEMMA DrainInv == ASSUME IInv, Drain PROVE IInv'
<1> USE LimitAssumption
<1> DEFINE next == log[taken + 1]  u == next.update
<1>0. /\ taken \in Nat /\ Len(log) \in Nat /\ taken < Len(log) /\ taken + 1 \in 1 .. Len(log)
      /\ log' = log /\ due' = due /\ run' = run
      /\ ticker_orders \in [Row -> [Row -> Order \cup {NoOrder}]]
      /\ WellTold(log) /\ Lasts(log)
  BY DEF Drain, IInv, TypeOK, LogInv, WellTold, envVars
<1>1. next \in NumberedRecord /\ next.seq = taken + 1
  BY <1>0 DEF WellTold
<1>2. u \in UpdateRecord /\ u.ticker \in Row /\ u.id \in Int
  BY <1>1, TickerAssumption DEF NumberedRecord, UpdateRecord, Row
<1>3. CASE Accepted(u, next.seq)
  <2>1. AddToSnapshot(u, next.seq) /\ taken' = taken + 1 /\ pc' = pc /\ pc = "drain"
    BY <1>3 DEF Drain
  <2>2. last_inc_seq_num' = taken'
    BY <1>1, <2>1 DEF AddToSnapshot
  <2>3. u.type \in NamingType => u.id \in Row
    BY <1>3 DEF Accepted, NamingType
  <2> HIDE DEF next
  <2>4. ASSUME NEW t \in Row, NEW o \in Row
        PROVE  ticker_orders'[t][o] = BookOf(log, taken + 1, t, o)
    <3>0. o \in Int /\ taken + 1 \in Nat \ {0} /\ taken + 1 - 1 = taken /\ taken \in 0 .. Len(log)
      BY <1>0 DEF Row
    <3>1. ticker_orders[t][o] = BookOf(log, taken, t, o)
      BY DEF IInv, TableInv
    <3>2. CASE u.type \in NamingType
      <4>1. ticker_orders' = [ticker_orders EXCEPT ![u.ticker][u.id] = Changed(u)]
        BY <2>1, <3>2 DEF AddToSnapshot, NamingType
      <4>2. CASE u.ticker = t /\ u.id = o
        <5>1. ticker_orders'[t][o] = Changed(u)
          BY <1>0, <4>1, <4>2
        <5>2. BookOf(log, taken + 1, t, o) = Left(u)
          BY <3>0, <3>2, <4>2, BookStep DEF next
        <5>3. CASE u.type # "MODIFY"
          BY <3>2, <5>1, <5>2, <5>3 DEF Changed, Left, NamingType
        <5>4. CASE u.type = "MODIFY"
          <6> DEFINE order == ticker_orders[t][o]
          <6>1. order # NoOrder /\ order.side = u.side
            BY <1>3, <4>2, <5>4 DEF Accepted
          <6>2. order \in Order
            BY <1>0, <6>1
          <6>3. Changed(u) = [order EXCEPT !.qty = u.qty, !.price = u.price]
            BY <4>2, <5>4 DEF Changed
          <6> HIDE DEF order
          <6>4. [order EXCEPT !.qty = u.qty, !.price = u.price]
                  = [side |-> u.side, price |-> u.price, qty |-> u.qty]
            <7> DEFINE R == [side : {u.side}, price : {u.price, order.price},
                             qty : {u.qty, order.qty}]
                       x == [order EXCEPT !.qty = u.qty, !.price = u.price]
                       y == [side |-> u.side, price |-> u.price, qty |-> u.qty]
            <7>1. order \in R
              BY <6>1, <6>2 DEF Order
            <7>2. x \in R /\ y \in R
              BY <7>1
            <7>3. x.price = y.price /\ x.qty = y.qty /\ x.side = y.side
              BY <6>1, <6>2 DEF Order
            <7>4. \A v, w \in R : v.price = w.price /\ v.qty = w.qty /\ v.side = w.side => v = w
              OBVIOUS
            <7> HIDE DEF R
            <7> QED BY <7>2, <7>3, <7>4
          <6> QED BY <5>1, <5>2, <5>4, <6>3, <6>4 DEF Left
        <5> QED BY <5>3, <5>4
      <4>3. CASE ~(u.ticker = t /\ u.id = o)
        <5>1. ticker_orders'[t][o] = ticker_orders[t][o]
          BY <1>0, <4>1, <4>3
        <5>2. BookOf(log, taken + 1, t, o) = BookOf(log, taken, t, o)
          BY <3>0, <4>3, BookStep DEF next
        <5> QED BY <3>1, <5>1, <5>2
      <4> QED BY <4>2, <4>3
    <3>3. CASE u.type \notin NamingType
      <4>1. ticker_orders' = ticker_orders
        BY <2>1, <3>3 DEF AddToSnapshot, NamingType
      <4>2. BookOf(log, taken + 1, t, o) = BookOf(log, taken, t, o)
        BY <3>0, <3>3, BookStep DEF next
      <4> QED BY <3>1, <4>1, <4>2
    <3> QED BY <3>2, <3>3
  <2>5. ticker_orders' \in [Row -> [Row -> Order \cup {NoOrder}]]
    <3>1. CASE u.type \notin NamingType
      BY <1>0, <2>1, <3>1 DEF AddToSnapshot, NamingType
    <3>2. CASE u.type \in NamingType
      <4>1. ticker_orders' = [ticker_orders EXCEPT ![u.ticker][u.id] = Changed(u)]
        BY <2>1, <3>2 DEF AddToSnapshot, NamingType
      <4>2. u.id \in Row
        BY <2>3, <3>2
      <4>3. Changed(u) \in Order \cup {NoOrder}
        <5>1. ticker_orders'[u.ticker][u.id] = BookOf(log, taken + 1, u.ticker, u.id)
          BY <1>2, <2>4, <4>2
        <5>2. BookOf(log, taken + 1, u.ticker, u.id) \in Order \cup {NoOrder}
          <6>1. taken + 1 \in 0 .. Len(log)
            BY <1>0
          <6> QED BY <1>0, <1>2, <6>1, BookType
        <5>3. ticker_orders'[u.ticker][u.id] = Changed(u)
          BY <1>0, <1>2, <4>1, <4>2
        <5> QED BY <5>1, <5>2, <5>3
      <4> QED BY <1>0, <1>2, <4>1, <4>2, <4>3
    <3> QED BY <3>1, <3>2
  <2>6. TypeOK'
    BY <1>0, <2>1, <2>2, <2>5 DEF IInv, TypeOK
  <2>7. TableInv'
    BY <1>0, <2>1, <2>4 DEF TableInv
  <2>8. RowInv'
    <3> SUFFICES ASSUME NEW i \in 1 .. taken + 1, log[i].update.type \in NamingType
                 PROVE  log[i].update.id \in Row
      BY <1>0, <2>1 DEF RowInv
    <3>1. CASE i = taken + 1
      BY <2>3, <3>1 DEF next
    <3>2. CASE i # taken + 1
      BY <1>0, <3>2 DEF IInv, RowInv
    <3> QED BY <3>1, <3>2
  <2>9. ExitInv'
    BY <2>1 DEF ExitInv
  <2> QED BY <1>0, <2>2, <2>6, <2>7, <2>8, <2>9 DEF IInv, LogInv, NumberInv
<1>4. CASE ~Accepted(u, next.seq)
  <2>1. UNCHANGED <<taken, ticker_orders, last_inc_seq_num>> /\ pc' = "exited"
    BY <1>4 DEF Drain, classVars
  <2>2. TypeOK'
    BY <1>0, <2>1 DEF IInv, TypeOK
  <2>3. ExitInv'
    BY <1>0, <1>4, <2>1, OnlyCauses DEF ExitInv, InUse
  <2> QED BY <1>0, <2>1, <2>2, <2>3 DEF IInv, LogInv, TableInv, RowInv, NumberInv
<1> QED BY <1>3, <1>4

\* Every step of the books, the clock and the thread preserves it.
LEMMA StepInv == ASSUME IInv, [Next]_vars PROVE IInv'
<1>1. CASE Books
  BY <1>1, BooksInv
<1>2. CASE Drain
  BY <1>2, DrainInv
<1>3. CASE Tick \/ Stop \/ Drained \/ Timer \/ UNCHANGED vars
  <2>1. /\ UNCHANGED <<log, taken, ticker_orders, last_inc_seq_num>>
        /\ pc' = pc \/ pc' \in {"drain", "timer", "stopped"}
        /\ due' \in BOOLEAN /\ run' \in BOOLEAN
    <3>1. due \in BOOLEAN /\ run \in BOOLEAN
      BY DEF IInv, TypeOK
    <3>2. CASE Tick
      BY <3>1, <3>2 DEF Tick, classVars
    <3>3. CASE Stop
      BY <3>1, <3>3 DEF Stop, classVars
    <3>4. CASE Drained
      BY <3>1, <3>4 DEF Drained, classVars, envVars
    <3>5. CASE Timer
      BY <3>1, <3>5 DEF Timer, classVars
    <3>6. CASE UNCHANGED vars
      BY <3>1, <3>6 DEF vars, envVars, classVars
    <3> QED BY <1>3, <3>2, <3>3, <3>4, <3>5, <3>6
  <2>2. TypeOK'
    BY <2>1 DEF IInv, TypeOK
  <2>3. LogInv' /\ TableInv' /\ RowInv' /\ NumberInv'
    BY <2>1 DEF IInv, LogInv, TableInv, RowInv, NumberInv
  <2>4. ExitInv'
    BY <2>1 DEF IInv, ExitInv, InUse
  <2> QED BY <2>2, <2>3, <2>4 DEF IInv
<1> QED BY <1>1, <1>2, <1>3 DEF Next, Synthesizer

----------------------------------------------------------------------------

\* The invariant in every state of every behaviour.
THEOREM SynthesizerInvariant == Spec => []IInv
<1>1. IInv /\ [Next]_vars => IInv'
  BY StepInv
<1> QED BY <1>1, InitInv, PTL DEF Spec

\* The members of SnapshotSynthesizer keep their types.
THEOREM TypeCorrect == Spec => []TypeOK
<1>1. IInv => TypeOK
  BY DEF IInv
<1> QED BY <1>1, SynthesizerInvariant, PTL

\* What the table has at a place is what the books had there after the updates
\* that were taken: a snapshot is made of the book at its number.
TableIsTheBook == \A t \in Row, o \in Row : ticker_orders[t][o] = BookAt(last_inc_seq_num, t, o)

\* After any number of updates the table is the books at the number it carries.
THEOREM TableFollowsBooks == Spec => []TableIsTheBook
<1>1. IInv => TableIsTheBook
  BY SameBook DEF IInv, TableInv, NumberInv, TableIsTheBook
<1> QED BY <1>1, SynthesizerInvariant, PTL

\* The process ends only where the tables do, or when a book tells of an order
\* that it told as gone: no other ASSERT of addToSnapshot() fails.
THEOREM ExitsForCause == Spec => []ExitNeedsCause
<1>1. IInv => ExitNeedsCause
  <2> SUFFICES ASSUME IInv, pc = "exited" PROVE ExitNeedsCause
    BY DEF ExitNeedsCause
  <2>1. \A x \in Row \X Row : ticker_orders[x[1]][x[2]] = BookAt(taken, x[1], x[2])
    BY SameBook DEF IInv, TableInv
  <2>2. InUse = {x \in Row \X Row : BookAt(taken, x[1], x[2]) # NoOrder}
    BY <2>1 DEF InUse
  <2>3. \A t, o : BookAt(taken, t, o) = BookOf(log, taken, t, o)
    BY SameBook
  <2> QED BY <2>2, <2>3 DEF IInv, ExitInv, ExitNeedsCause
<1> QED BY <1>1, SynthesizerInvariant, PTL

----------------------------------------------------------------------------
(***************************************************************************)
(* Joining blocks of messages, as publishSnapshot()'s loops do.            *)
(***************************************************************************)

\* A set of natural numbers that is not empty has a least element.
LEMMA LeastElement ==
    ASSUME NEW T, T \subseteq Nat, T # {}
    PROVE  \E m \in T : \A n \in T : m <= n
<1> DEFINE R == OpToRel(<, Nat)
<1>1. \A n, m \in Nat : n < m => <<n, m>> \in R
  BY Z3 DEF OpToRel
<1>2. PICK m \in T : \A n \in T : <<n, m>> \notin R
  BY NatLessThanWellFounded, WFMin, Zenon
<1> HIDE DEF R
<1>3. ASSUME NEW n \in T PROVE m <= n
  <2>1. m \in Nat /\ n \in Nat
    OBVIOUS
  <2>2. ~(n < m)
    BY <1>1, <1>2, <2>1, Zenon
  <2> QED
    BY <2>1, <2>2
<1> QED
  BY <1>3

\* f[i] is e with the blocks 1 to i of B behind it.
IsJoin(f, e, B, n) == f = [i \in 0 .. n |-> IF i = 0 THEN e ELSE f[i - 1] \o B[i]]

\* The recursion of a loop over n blocks has a solution.
LEMMA JoinExists ==
    ASSUME NEW e, NEW B, NEW n \in Nat
    PROVE  \E f : IsJoin(f, e, B, n)
<1> DEFINE Part(g, i) == IF i = 0 THEN e ELSE g[i - 1] \o B[i]
           T == {m \in 0 .. n : ~\E f : IsJoin(f, e, B, m)}
<1>0. \A g, m : IsJoin(g, e, B, m) <=> g = [i \in 0 .. m |-> Part(g, i)]
  BY DEF IsJoin
<1>1. SUFFICES ASSUME T # {} PROVE FALSE
  <2>1. n \in 0 .. n
    OBVIOUS
  <2> QED BY <2>1
<1>2. PICK m \in T : \A i \in T : m <= i
  <2>1. T \subseteq Nat
    OBVIOUS
  <2> HIDE DEF T
  <2> QED BY <1>1, <2>1, LeastElement
<1>3. m \in 0 .. n /\ m \in Nat
  OBVIOUS
<1>4. CASE m = 0
  <2> DEFINE g == [i \in 0 .. 0 |-> e]
  <2>1. \A i \in 0 .. 0 : g[i] = Part(g, i)
    OBVIOUS
  <2>2. g = [i \in 0 .. 0 |-> Part(g, i)]
    <3>1. g = [i \in 0 .. 0 |-> g[i]]
      OBVIOUS
    <3> HIDE DEF g, Part
    <3> QED BY <2>1, <3>1, Zenon
  <2>3. IsJoin(g, e, B, 0)
    <3> HIDE DEF g, Part
    <3> QED BY <1>0, <2>2
  <2> QED BY <1>2, <1>4, <2>3
<1>5. CASE m # 0
  <2>1. m - 1 \in 0 .. n /\ m - 1 \notin T
    <3> HIDE DEF T
    <3> QED BY <1>2, <1>3, <1>5
  <2>2. PICK g : IsJoin(g, e, B, m - 1)
    BY <2>1
  <2>3. g = [i \in 0 .. m - 1 |-> Part(g, i)]
    BY <1>0, <2>2
  <2> DEFINE h == [i \in 0 .. m |-> IF i = m THEN Part(g, m) ELSE g[i]]
  <2>4. \A i \in 0 .. m - 1 : g[i] = Part(g, i)
    BY <2>3, <1>3
  <2>5. \A i \in 0 .. m - 1 : h[i] = g[i]
    BY <1>3
  <2>6. \A i \in 1 .. m : h[i - 1] = g[i - 1]
    BY <1>3
  <2>7. h[m] = Part(g, m)
    BY <1>3
  <2>8. h = [i \in 0 .. m |-> h[i]]
    OBVIOUS
  <2> HIDE DEF h
  <2>9. \A i \in 0 .. m : h[i] = Part(h, i)
    <3> SUFFICES ASSUME NEW i \in 0 .. m PROVE h[i] = Part(h, i)
      OBVIOUS
    <3>1. CASE i = 0
      BY <1>3, <1>5, <2>4, <2>5, <3>1
    <3>2. CASE i # 0
      <4>1. i \in 1 .. m /\ h[i - 1] = g[i - 1]
        BY <1>3, <2>6, <3>2
      <4>2. Part(h, i) = Part(g, i)
        BY <4>1, <3>2
      <4>3. i = m \/ i \in 0 .. m - 1
        BY <1>3
      <4>4. h[i] = Part(g, i)
        <5> HIDE DEF Part
        <5> QED BY <2>4, <2>5, <2>7, <4>3
      <4> QED BY <4>2, <4>4
    <3> QED BY <3>1, <3>2
  <2>10. h = [i \in 0 .. m |-> Part(h, i)]
    <3> HIDE DEF Part
    <3> QED BY <2>8, <2>9, Zenon
  <2>11. IsJoin(h, e, B, m)
    <3> HIDE DEF Part
    <3> QED BY <1>0, <2>10
  <2> QED BY <1>2, <2>11
<1> QED BY <1>4, <1>5

\* F is e with the n blocks of B behind it, of which block b stands after
\* place q[b - 1] and ends at q[b].
AreBlocks(F, q, e, B, n) ==
    /\ q \in [0 .. n -> Nat] /\ q[0] = Len(e) /\ q[n] = Len(F)
    /\ \A b \in 0 .. n : q[0] <= q[b] /\ q[b] <= q[n]
    /\ \A x \in 1 .. Len(e) : F[x] = e[x]
    /\ \A b \in 1 .. n : /\ q[b] = q[b - 1] + Len(B[b])
                         /\ \A j \in 1 .. Len(B[b]) : F[q[b - 1] + j] = B[b][j]
    /\ \A x \in 1 .. Len(F) : Len(e) < x => \E b \in 1 .. n : q[b - 1] < x /\ x <= q[b]

\* What the recursion computes is the blocks, one behind the other.
LEMMA JoinedBlocks ==
    ASSUME NEW S, NEW n \in Nat, NEW e \in Seq(S), NEW B \in [1 .. n -> Seq(S)],
           NEW f, IsJoin(f, e, B, n)
    PROVE  /\ f[n] \in Seq(S)
           /\ \E q : AreBlocks(f[n], q, e, B, n)
<1>1. /\ f[0] = e
      /\ \A i \in 1 .. n : f[i] = f[i - 1] \o B[i]
  <2>1. \A i \in 0 .. n : f[i] = IF i = 0 THEN e ELSE f[i - 1] \o B[i]
    BY DEF IsJoin
  <2>2. f[0] = e
    BY <2>1
  <2>3. ASSUME NEW i \in 1 .. n PROVE f[i] = f[i - 1] \o B[i]
    <3>1. i \in 0 .. n /\ i # 0
      OBVIOUS
    <3> QED BY <2>1, <3>1
  <2> QED BY <2>2, <2>3
<1>2. \A i \in 0 .. n : f[i] \in Seq(S)
  <2> DEFINE T == {i \in 0 .. n : f[i] \notin Seq(S)}
  <2>1. SUFFICES ASSUME T # {} PROVE FALSE
    OBVIOUS
  <2>2. PICK i \in T : \A k \in T : i <= k
    <3>1. T \subseteq Nat
      OBVIOUS
    <3> HIDE DEF T
    <3> QED BY <2>1, <3>1, LeastElement
  <2>3. i \in 0 .. n /\ f[i] \notin Seq(S)
    OBVIOUS
  <2>4. i # 0
    BY <1>1, <2>3
  <2>5. i - 1 \in 0 .. n /\ i - 1 \notin T
    <3> HIDE DEF T
    <3> QED BY <2>2, <2>3, <2>4
  <2>6. i \in 1 .. n
    BY <2>3, <2>4
  <2>7. f[i - 1] \in Seq(S) /\ B[i] \in Seq(S)
    BY <2>5, <2>6
  <2> HIDE DEF T
  <2>8. f[i] = f[i - 1] \o B[i]
    BY <1>1, <2>6
  <2> QED BY <2>3, <2>7, <2>8
<1>3. ASSUME NEW i \in 1 .. n
      PROVE  /\ B[i] \in Seq(S) /\ f[i - 1] \in Seq(S) /\ f[i] \in Seq(S)
             /\ Len(f[i]) = Len(f[i - 1]) + Len(B[i])
             /\ \A x \in 1 .. Len(f[i - 1]) : f[i][x] = f[i - 1][x]
             /\ \A j \in 1 .. Len(B[i]) : f[i][Len(f[i - 1]) + j] = B[i][j]
  <2>1. B[i] \in Seq(S) /\ f[i - 1] \in Seq(S) /\ f[i] \in Seq(S)
    BY <1>2
  <2>2. f[i] = f[i - 1] \o B[i]
    BY <1>1
  <2>3. ASSUME NEW c \in Seq(S), NEW d \in Seq(S)
        PROVE  /\ Len(c \o d) = Len(c) + Len(d)
               /\ \A x \in 1 .. Len(c) : (c \o d)[x] = c[x]
               /\ \A j \in 1 .. Len(d) : (c \o d)[Len(c) + j] = d[j]
    OBVIOUS
  <2> QED BY <2>1, <2>2, <2>3
<1> DEFINE Starts(i, k) == /\ Len(f[i]) <= Len(f[k])
                           /\ \A x \in 1 .. Len(f[i]) : f[k][x] = f[i][x]
<1>4. \A i \in 0 .. n : Len(f[i]) \in Nat
  BY <1>2
<1>5. \A i \in 0 .. n : \A k \in i .. n : Starts(i, k)
  <2> SUFFICES ASSUME NEW i \in 0 .. n PROVE \A k \in i .. n : Starts(i, k)
    OBVIOUS
  <2> DEFINE T == {k \in i .. n : ~Starts(i, k)}
  <2>1. SUFFICES ASSUME T # {} PROVE FALSE
    OBVIOUS
  <2>2. PICK k \in T : \A j \in T : k <= j
    <3>1. T \subseteq Nat
      OBVIOUS
    <3> HIDE DEF T
    <3> QED BY <2>1, <3>1, LeastElement
  <2>3. k \in i .. n /\ ~Starts(i, k)
    OBVIOUS
  <2>4. k # i
    BY <1>4, <2>3
  <2>5. k - 1 \in i .. n /\ k - 1 \notin T
    <3> HIDE DEF T
    <3> QED BY <2>2, <2>3, <2>4
  <2>6. Starts(i, k - 1)
    BY <2>5
  <2>7. /\ k \in 1 .. n /\ k - 1 \in 0 .. n
        /\ Len(f[i]) \in Nat /\ Len(f[k - 1]) \in Nat /\ Len(f[k]) \in Nat
    BY <1>4, <2>3, <2>4
  <2>8. Len(B[k]) \in Nat
    BY <1>3, <2>7
  <2>9. /\ Len(f[k]) = Len(f[k - 1]) + Len(B[k])
        /\ \A x \in 1 .. Len(f[k - 1]) : f[k][x] = f[k - 1][x]
    BY <1>3, <2>7
  <2>10. Len(f[i]) <= Len(f[k])
    BY <2>6, <2>7, <2>8, <2>9
  <2>11. \A x \in 1 .. Len(f[i]) : f[k][x] = f[i][x]
    BY <2>6, <2>7, <2>9
  <2> QED BY <2>3, <2>10, <2>11
<1> DEFINE F == f[n]
           q == [i \in 0 .. n |-> Len(f[i])]
<1>6. q \in [0 .. n -> Nat] /\ q[0] = Len(e) /\ q[n] = Len(F)
  BY <1>1, <1>4
<1>7. \A b \in 0 .. n : q[0] <= q[b] /\ q[b] <= q[n]
  BY <1>5
<1>8. \A x \in 1 .. Len(e) : F[x] = e[x]
  <2>1. Starts(0, n)
    <3>1. 0 \in 0 .. n /\ n \in 0 .. n
      OBVIOUS
    <3> HIDE DEF Starts
    <3> QED BY <1>5, <3>1
  <2> QED BY <1>1, <2>1
<1>9. ASSUME NEW b \in 1 .. n
      PROVE  /\ q[b] = q[b - 1] + Len(B[b])
             /\ \A j \in 1 .. Len(B[b]) : F[q[b - 1] + j] = B[b][j]
  <2>1. /\ q[b] = Len(f[b]) /\ q[b - 1] = Len(f[b - 1])
        /\ Len(f[b]) \in Nat /\ Len(f[b - 1]) \in Nat /\ Len(B[b]) \in Nat
    BY <1>3, <1>4
  <2>2. /\ Len(f[b]) = Len(f[b - 1]) + Len(B[b])
        /\ \A j \in 1 .. Len(B[b]) : f[b][Len(f[b - 1]) + j] = B[b][j]
    BY <1>3
  <2>3. \A x \in 1 .. Len(f[b]) : F[x] = f[b][x]
    <3>1. b \in 0 .. n /\ n \in b .. n
      OBVIOUS
    <3>2. Starts(b, n)
      <4> HIDE DEF Starts
      <4> QED BY <1>5, <3>1
    <3> QED BY <3>2
  <2> HIDE DEF q, F, Starts
  <2>4. ASSUME NEW j \in 1 .. Len(B[b]) PROVE F[q[b - 1] + j] = B[b][j]
    <3>1. q[b - 1] + j \in 1 .. Len(f[b])
      BY <2>1, <2>2
    <3> QED BY <2>1, <2>2, <2>3, <3>1
  <2> QED BY <2>1, <2>2, <2>4
<1>10. ASSUME NEW x \in 1 .. Len(F), Len(e) < x
       PROVE  \E b \in 1 .. n : q[b - 1] < x /\ x <= q[b]
  <2> DEFINE T == {b \in 0 .. n : x <= q[b]}
  <2>1. x \in Nat /\ n \in T
    BY <1>4, <1>6
  <2>2. PICK b \in T : \A k \in T : b <= k
    <3>1. T \subseteq Nat
      OBVIOUS
    <3> HIDE DEF T
    <3> QED BY <2>1, <3>1, LeastElement
  <2>3. b \in 0 .. n /\ x <= q[b]
    OBVIOUS
  <2>4. b # 0
    <3> HIDE DEF q, F
    <3> QED BY <1>6, <1>10, <2>1, <2>3
  <2>5. b - 1 \in 0 .. n /\ b - 1 \notin T
    <3> HIDE DEF T
    <3> QED BY <2>2, <2>3, <2>4
  <2>6. ~(x <= q[b - 1])
    BY <2>5
  <2>7. q[b - 1] \in Nat /\ b \in 1 .. n
    <3> HIDE DEF q
    <3> QED BY <1>6, <2>3, <2>4, <2>5
  <2> HIDE DEF q
  <2> QED BY <2>1, <2>3, <2>6, <2>7
<1>11. AreBlocks(F, q, e, B, n)
  <2> HIDE DEF q, F
  <2> QED BY <1>6, <1>7, <1>8, <1>9, <1>10 DEF AreBlocks
<1>12. F \in Seq(S)
  BY <1>2
<1> QED BY <1>11, <1>12

----------------------------------------------------------------------------
(***************************************************************************)
(* The messages of a snapshot.                                             *)
(***************************************************************************)

Message == [type : {"SNAPSHOT_START", "CLEAR", "ADD", "SNAPSHOT_END"}, ticker : Int, id : Int,
            side : Side \cup {"none"}, price : Price \cup {0}, qty : Nat]
Clear(t) == Update("CLEAR", t, -1, "none", 0, 0)
Add(t, o, order) == Update("ADD", t, o, order.side, order.price, order.qty)

\* r tells the live orders of a row behind its CLEAR, all of them and no others.
TellsRow(r, t, row) ==
    /\ r \in Seq(Message) /\ Len(r) >= 1 /\ r[1] = Clear(t)
    /\ \A x \in 2 .. Len(r) : \E o \in Row : row[o] # NoOrder /\ r[x] = Add(t, o, row[o])
    /\ \A o \in Row : row[o] # NoOrder => \E x \in 2 .. Len(r) : r[x] = Add(t, o, row[o])

\* publishSnapshot() tells each row.
LEMMA RowTold ==
    ASSUME TypeOK, NEW t \in Row
    PROVE  TellsRow(OfTicker(t), t, ticker_orders[t])
<1> USE LimitAssumption
<1> DEFINE row == ticker_orders[t]
           sent(o) == IF row[o] = NoOrder THEN <<>> ELSE <<Add(t, o, row[o])>>
           B == [b \in 1 .. MaxOrderIds |-> sent(b - 1)]
           e == <<Clear(t)>>
           n == MaxOrderIds
           IsUpTo(f) == f = [o \in 0 .. n |-> IF o = 0 THEN e ELSE f[o - 1] \o sent(o - 1)]
<1>1. OfTicker(t) = (CHOOSE f : IsUpTo(f))[n]
  BY DEF OfTicker, Clear, Add
<1>2. ASSUME NEW f PROVE IsUpTo(f) <=> IsJoin(f, e, B, n)
  <2>1. \A o \in 0 .. n : o # 0 => B[o] = sent(o - 1)
    OBVIOUS
  <2> HIDE DEF B, sent
  <2>2. [o \in 0 .. n |-> IF o = 0 THEN e ELSE f[o - 1] \o sent(o - 1)]
          = [o \in 0 .. n |-> IF o = 0 THEN e ELSE f[o - 1] \o B[o]]
    BY <2>1
  <2> QED BY <2>2 DEF IsJoin
<1>3. n \in Nat /\ n >= 1
  OBVIOUS
<1>4. PICK f : IsJoin(f, e, B, n) /\ OfTicker(t) = f[n]
  <2>1. \E f : IsJoin(f, e, B, n)
    <3> HIDE DEF e, B
    <3> QED BY <1>3, JoinExists
  <2> HIDE DEF e, B, n, IsUpTo
  <2> QED BY <1>1, <1>2, <2>1
<1>5. Clear(t) \in Message
  BY DEF Clear, Update, Message, Row
<1>6. ASSUME NEW o \in Row PROVE row[o] # NoOrder => Add(t, o, row[o]) \in Message
  <2>1. row[o] \in Order \cup {NoOrder}
    BY DEF TypeOK
  <2>2. t \in Int /\ o \in Int
    BY DEF Row
  <2> HIDE DEF row
  <2> QED BY <2>1, <2>2 DEF Add, Update, Message, Order
<1>7. ASSUME NEW b \in 1 .. n PROVE b - 1 \in Row
  BY DEF Row
<1>8. e \in Seq(Message) /\ B \in [1 .. n -> Seq(Message)]
  <2>1. ASSUME NEW b \in 1 .. n PROVE sent(b - 1) \in Seq(Message)
    <3> DEFINE o == b - 1
    <3>1. o \in Row
      BY <1>7
    <3> HIDE DEF o, row
    <3>2. sent(o) \in Seq(Message)
      BY <1>6, <3>1
    <3> QED BY <3>2 DEF o, row
  <2> HIDE DEF sent
  <2> QED BY <1>5, <2>1
<1>9. Len(e) = 1 /\ e[1] = Clear(t)
  OBVIOUS
<1>10. \A b \in 1 .. n : B[b] = sent(b - 1)
  OBVIOUS
<1> DEFINE r == OfTicker(t)
<1>11. r \in Seq(Message) /\ \E q : AreBlocks(r, q, e, B, n)
  <2> HIDE DEF e, B
  <2> QED BY <1>3, <1>4, <1>8, JoinedBlocks
<1> HIDE DEF r, e, B, IsUpTo
<1>12. PICK q : AreBlocks(r, q, e, B, n)
  BY <1>11
<1>13. /\ q \in [0 .. n -> Nat] /\ q[0] = 1 /\ q[n] = Len(r)
       /\ \A b \in 0 .. n : q[0] <= q[b] /\ q[b] <= q[n]
       /\ r[1] = Clear(t)
       /\ \A b \in 1 .. n : /\ q[b] = q[b - 1] + Len(B[b])
                            /\ \A j \in 1 .. Len(B[b]) : r[q[b - 1] + j] = B[b][j]
       /\ \A x \in 1 .. Len(r) : 1 < x => \E b \in 1 .. n : q[b - 1] < x /\ x <= q[b]
  <2>1. 1 \in 1 .. Len(e)
    BY <1>9
  <2> HIDE DEF n
  <2> QED BY <1>9, <1>12, <2>1 DEF AreBlocks
<1>14. Len(r) \in Nat /\ Len(r) >= 1
  BY <1>3, <1>11, <1>13
<1>15. ASSUME NEW b \in 1 .. n
       PROVE  /\ b - 1 \in Row /\ q[b - 1] \in Nat /\ 1 <= q[b - 1] /\ q[b] <= Len(r)
              /\ row[b - 1] = NoOrder => q[b] = q[b - 1]
              /\ row[b - 1] # NoOrder => /\ q[b] = q[b - 1] + 1
                                         /\ r[q[b]] = Add(t, b - 1, row[b - 1])
  <2>1. b \in 0 .. n /\ b - 1 \in 0 .. n
    BY <1>3
  <2>2. b - 1 \in Row /\ B[b] = sent(b - 1)
    BY <1>7, <1>10
  <2>3. q[b - 1] \in Nat /\ 1 <= q[b - 1] /\ q[b] <= Len(r)
    BY <1>13, <2>1
  <2>4. q[b] = q[b - 1] + Len(B[b])
    BY <1>13
  <2>5. CASE row[b - 1] = NoOrder
    <3>1. Len(B[b]) = 0
      <4> HIDE DEF row
      <4> QED BY <2>2, <2>5
    <3> QED BY <2>2, <2>3, <2>4, <2>5, <3>1
  <2>6. CASE row[b - 1] # NoOrder
    <3>1. Len(B[b]) = 1 /\ B[b][1] = Add(t, b - 1, row[b - 1])
      <4> HIDE DEF row
      <4> QED BY <2>2, <2>6
    <3>2. r[q[b - 1] + 1] = B[b][1]
      <4>1. 1 \in 1 .. Len(B[b])
        BY <3>1
      <4> QED BY <1>13, <4>1
    <3> HIDE DEF row
    <3> QED BY <2>2, <2>3, <2>4, <2>6, <3>1, <3>2
  <2> QED BY <2>5, <2>6
<1>16. ASSUME NEW x \in 2 .. Len(r)
       PROVE  \E o \in Row : row[o] # NoOrder /\ r[x] = Add(t, o, row[o])
  <2>1. x \in 1 .. Len(r) /\ 1 < x
    BY <1>14
  <2>2. PICK b \in 1 .. n : q[b - 1] < x /\ x <= q[b]
    BY <1>13, <2>1
  <2>3. row[b - 1] # NoOrder
    <3> HIDE DEF row
    <3> QED BY <1>15, <2>1, <2>2
  <2>4. x = q[b]
    <3> HIDE DEF row
    <3> QED BY <1>15, <2>1, <2>2, <2>3
  <2> HIDE DEF row
  <2> QED BY <1>15, <2>3, <2>4
<1>17. ASSUME NEW o \in Row, row[o] # NoOrder
       PROVE  \E x \in 2 .. Len(r) : r[x] = Add(t, o, row[o])
  <2> DEFINE b == o + 1
  <2>1. b \in 1 .. n /\ b - 1 = o
    BY <1>3 DEF Row
  <2> HIDE DEF b, row
  <2>2. q[b] \in 2 .. Len(r) /\ r[q[b]] = Add(t, o, row[o])
    BY <1>14, <1>15, <1>17, <2>1
  <2> QED BY <2>2
<1> HIDE DEF row
<1>18. TellsRow(r, t, row)
  BY <1>11, <1>13, <1>14, <1>16, <1>17 DEF TellsRow
<1> QED BY <1>18 DEF r, row

\* m tells the table tab as of update k: between its marks, each message is the
\* CLEAR of a row or a live order behind the CLEAR of its row, and nothing is
\* missing.  place has where the CLEARs stand.
TellsTable(m, place, k, tab) ==
    LET n == Len(m)
    IN  /\ m \in Seq(Message) /\ n >= 2
        /\ m[1] = Update("SNAPSHOT_START", -1, k, "none", 0, 0)
        /\ m[n] = Update("SNAPSHOT_END", -1, k, "none", 0, 0)
        /\ \A t \in Row : place[t] \in 2 .. n - 1 /\ m[place[t]] = Clear(t)
        /\ \A x \in 2 .. n - 1 : \E t \in Row :
              \/ x = place[t]
              \/ /\ place[t] < x
                 /\ \E o \in Row : tab[t][o] # NoOrder /\ m[x] = Add(t, o, tab[t][o])
        /\ \A t \in Row, o \in Row :
              tab[t][o] # NoOrder => \E x \in 2 .. n - 1 : m[x] = Add(t, o, tab[t][o])

InOrder(m) == [x \in DOMAIN m |-> Numbered(x - 1, m[x])]

\* publishSnapshot() tells the table.
LEMMA TableTold ==
    ASSUME TypeOK
    PROVE  \E m, place : /\ Snapshot = InOrder(m)
                         /\ TellsTable(m, place, last_inc_seq_num, ticker_orders)
<1> USE LimitAssumption
<1> DEFINE k == last_inc_seq_num
           n == MaxOrderIds
           start == Update("SNAPSHOT_START", -1, k, "none", 0, 0)
           end == Update("SNAPSHOT_END", -1, k, "none", 0, 0)
           e == <<start>>
           B == [b \in 1 .. n |-> OfTicker(b - 1)]
           IsUpTo(f) == f = [t \in 0 .. n |-> IF t = 0 THEN e ELSE f[t - 1] \o OfTicker(t - 1)]
           all == (CHOOSE f : IsUpTo(f))[n]
           m == all \o <<end>>
<1>1. Snapshot = InOrder(m)
  BY DEF Snapshot, InOrder, Mark
<1>2. ASSUME NEW f PROVE IsUpTo(f) <=> IsJoin(f, e, B, n)
  <2>1. \A b \in 0 .. n : b # 0 => B[b] = OfTicker(b - 1)
    OBVIOUS
  <2> HIDE DEF B
  <2>2. [t \in 0 .. n |-> IF t = 0 THEN e ELSE f[t - 1] \o OfTicker(t - 1)]
          = [t \in 0 .. n |-> IF t = 0 THEN e ELSE f[t - 1] \o B[t]]
    BY <2>1
  <2> QED BY <2>2 DEF IsJoin
<1>3. n \in Nat /\ n >= 1 /\ k \in Nat
  BY DEF TypeOK
<1>4. PICK f : IsJoin(f, e, B, n) /\ all = f[n]
  <2>1. \E f : IsJoin(f, e, B, n)
    <3> HIDE DEF e, B
    <3> QED BY <1>3, JoinExists
  <2> HIDE DEF e, B, n, IsUpTo
  <2> QED BY <1>2, <2>1 DEF all
<1>5. start \in Message /\ end \in Message
  BY <1>3 DEF Update, Message
<1>6. ASSUME NEW b \in 1 .. n
      PROVE  b - 1 \in Row /\ B[b] = OfTicker(b - 1) /\ TellsRow(B[b], b - 1, ticker_orders[b - 1])
  <2>1. b - 1 \in Row /\ B[b] = OfTicker(b - 1)
    BY DEF Row
  <2> HIDE DEF B
  <2> QED BY <2>1, RowTold
<1>7. e \in Seq(Message) /\ B \in [1 .. n -> Seq(Message)]
  <2>1. ASSUME NEW b \in 1 .. n PROVE OfTicker(b - 1) \in Seq(Message)
    BY <1>6 DEF TellsRow
  <2> QED BY <1>5, <2>1
<1>8. Len(e) = 1 /\ e[1] = start
  OBVIOUS
<1>9. all \in Seq(Message) /\ \E q : AreBlocks(all, q, e, B, n)
  <2> HIDE DEF e, B, all
  <2> QED BY <1>3, <1>4, <1>7, JoinedBlocks
<1> HIDE DEF all, e, B, IsUpTo, start, end
<1>10. PICK q : AreBlocks(all, q, e, B, n)
  BY <1>9
<1>11. /\ q \in [0 .. n -> Nat] /\ q[0] = 1 /\ q[n] = Len(all)
       /\ \A b \in 0 .. n : q[0] <= q[b] /\ q[b] <= q[n]
       /\ all[1] = start
       /\ \A b \in 1 .. n : /\ q[b] = q[b - 1] + Len(B[b])
                            /\ \A j \in 1 .. Len(B[b]) : all[q[b - 1] + j] = B[b][j]
       /\ \A x \in 1 .. Len(all) : 1 < x => \E b \in 1 .. n : q[b - 1] < x /\ x <= q[b]
  BY <1>8, <1>10 DEF AreBlocks
<1>12. Len(all) \in Nat /\ Len(all) >= 1
  BY <1>3, <1>9, <1>11
<1>13. /\ m \in Seq(Message) /\ Len(m) = Len(all) + 1 /\ m[Len(m)] = end
       /\ \A x \in 1 .. Len(all) : m[x] = all[x]
  BY <1>5, <1>9
<1> HIDE DEF m
<1> DEFINE place == [t \in Row |-> q[t] + 1]
<1>14. ASSUME NEW t \in Row
       PROVE  LET b == t + 1
              IN  /\ b \in 1 .. n /\ q[t] \in Nat /\ 1 <= q[t] /\ q[b] <= Len(all)
                  /\ q[b] = q[t] + Len(B[b]) /\ Len(B[b]) \in Nat
                  /\ TellsRow(B[b], t, ticker_orders[t])
                  /\ \A j \in 1 .. Len(B[b]) : q[t] + j \in 2 .. Len(all) /\ m[q[t] + j] = B[b][j]
  <2> DEFINE b == t + 1
  <2>1. b \in 1 .. n /\ b - 1 = t /\ t \in 0 .. n /\ b \in 0 .. n
    BY <1>3 DEF Row
  <2> HIDE DEF b
  <2>2. /\ q[t] \in Nat /\ 1 <= q[t] /\ q[b] <= Len(all)
        /\ q[b] = q[t] + Len(B[b])
        /\ \A j \in 1 .. Len(B[b]) : all[q[t] + j] = B[b][j]
    BY <1>11, <2>1
  <2>3. TellsRow(B[b], t, ticker_orders[t])
    BY <1>6, <2>1
  <2>4. Len(B[b]) \in Nat
    BY <2>3 DEF TellsRow
  <2>5. ASSUME NEW j \in 1 .. Len(B[b])
        PROVE  q[t] + j \in 2 .. Len(all) /\ m[q[t] + j] = B[b][j]
    <3>1. q[t] + j \in 2 .. Len(all) /\ q[t] + j \in 1 .. Len(all)
      BY <1>12, <2>2, <2>4
    <3> QED BY <1>13, <2>2, <3>1
  <2> QED BY <2>1, <2>2, <2>3, <2>4, <2>5 DEF b
<1>15. ASSUME NEW t \in Row
       PROVE  place[t] \in 2 .. Len(m) - 1 /\ m[place[t]] = Clear(t)
  <2> DEFINE b == t + 1
  <2>1. Len(B[b]) \in Nat /\ Len(B[b]) >= 1 /\ B[b][1] = Clear(t)
    BY <1>14 DEF TellsRow
  <2>2. 1 \in 1 .. Len(B[b])
    BY <2>1
  <2>3. q[t] + 1 \in 2 .. Len(all) /\ m[q[t] + 1] = B[b][1]
    BY <1>14, <2>2
  <2> QED BY <1>12, <1>13, <2>1, <2>3
<1>16. ASSUME NEW x \in 2 .. Len(m) - 1
       PROVE  \E t \in Row :
                 \/ x = place[t]
                 \/ /\ place[t] < x
                    /\ \E o \in Row : /\ ticker_orders[t][o] # NoOrder
                                      /\ m[x] = Add(t, o, ticker_orders[t][o])
  <2>1. x \in 1 .. Len(all) /\ 1 < x
    BY <1>12, <1>13
  <2>2. PICK c \in 1 .. n : q[c - 1] < x /\ x <= q[c]
    BY <1>11, <2>1
  <2> DEFINE t == c - 1
  <2>3. t \in Row /\ t + 1 = c
    BY DEF Row
  <2> HIDE DEF t
  <2>4. /\ q[t] < x /\ x <= q[c] /\ q[t] \in Nat
        /\ q[c] = q[t] + Len(B[c]) /\ Len(B[c]) \in Nat
        /\ TellsRow(B[c], t, ticker_orders[t])
        /\ \A j \in 1 .. Len(B[c]) : m[q[t] + j] = B[c][j]
    BY <1>14, <2>2, <2>3 DEF t
  <2> DEFINE j == x - q[t]
  <2>5. j \in 1 .. Len(B[c]) /\ q[t] + j = x
    BY <2>1, <2>4
  <2>6. m[x] = B[c][j]
    BY <2>4, <2>5
  <2>7. CASE j = 1
    BY <2>1, <2>3, <2>4, <2>7
  <2>8. CASE j # 1
    <3>1. j \in 2 .. Len(B[c])
      BY <2>4, <2>5, <2>8
    <3> HIDE DEF j
    <3>2. \E o \in Row : ticker_orders[t][o] # NoOrder /\ B[c][j] = Add(t, o, ticker_orders[t][o])
      BY <2>4, <3>1 DEF TellsRow
    <3>3. place[t] < x
      BY <2>1, <2>3, <2>4, <2>5, <2>8 DEF j
    <3> QED BY <2>3, <2>6, <3>2, <3>3
  <2> QED BY <2>7, <2>8
<1>17. ASSUME NEW t \in Row, NEW o \in Row, ticker_orders[t][o] # NoOrder
       PROVE  \E x \in 2 .. Len(m) - 1 : m[x] = Add(t, o, ticker_orders[t][o])
  <2> DEFINE b == t + 1
  <2>1. TellsRow(B[b], t, ticker_orders[t]) /\ Len(B[b]) \in Nat
    BY <1>14
  <2>2. PICK j \in 2 .. Len(B[b]) : B[b][j] = Add(t, o, ticker_orders[t][o])
    BY <1>17, <2>1 DEF TellsRow
  <2>3. j \in 1 .. Len(B[b])
    BY <2>1
  <2>4. q[t] + j \in 2 .. Len(all) /\ m[q[t] + j] = B[b][j]
    BY <1>14, <2>3
  <2>5. q[t] + j \in 2 .. Len(m) - 1
    BY <1>12, <1>13, <2>4
  <2> QED BY <2>2, <2>4, <2>5
<1>18. Len(m) >= 2 /\ m[1] = start
  <2>1. 1 \in 1 .. Len(all)
    BY <1>12
  <2> QED BY <1>11, <1>12, <1>13, <2>1
<1> HIDE DEF place
<1>19. TellsTable(m, place, k, ticker_orders)
  BY <1>13, <1>15, <1>16, <1>17, <1>18 DEF TellsTable, start, end
<1> QED BY <1>1, <1>19

----------------------------------------------------------------------------

\* The books as the first k updates of a log left them.
BooksAt(l, k) == [t \in Row |-> [o \in Row |-> BookOf(l, k, t, o)]]

\* The last snapshot tells the books as of an update of the stream.
SnapInv == published # <<>> =>
           \E k \in 0 .. Len(log) :
              \E m, place : /\ published = InOrder(m)
                            /\ TellsTable(m, place, k, BooksAt(log, k))

\* The table is the books.
LEMMA TableIsBooks ==
    ASSUME IInv
    PROVE  /\ taken \in 0 .. Len(log) /\ last_inc_seq_num = taken
           /\ ticker_orders = BooksAt(log, taken)
<1>1. \A t \in Row : ticker_orders[t] = [o \in Row |-> BookOf(log, taken, t, o)]
  <2> SUFFICES ASSUME NEW t \in Row
               PROVE  ticker_orders[t] = [o \in Row |-> BookOf(log, taken, t, o)]
    OBVIOUS
  <2>1. ticker_orders[t] \in [Row -> Order \cup {NoOrder}]
    BY DEF IInv, TypeOK
  <2> QED BY <2>1 DEF IInv, TableInv
<1>2. ticker_orders = [t \in Row |-> ticker_orders[t]]
  BY DEF IInv, TypeOK
<1>3. ticker_orders = BooksAt(log, taken)
  BY <1>1, <1>2 DEF BooksAt
<1> QED BY <1>3 DEF IInv, TypeOK, NumberInv

\* What was told of the past is still true when more is told.
LEMMA BooksStay ==
    ASSUME IInv, IInv', [Next]_vars, NEW k \in 0 .. Len(log)
    PROVE  k \in 0 .. Len(log') /\ BooksAt(log', k) = BooksAt(log, k)
<1>1. CASE log' = log
  BY <1>1
<1>2. CASE Books
  <2>1. PICK u : log' = Append(log, Numbered(Len(log) + 1, u))
    BY <1>2 DEF Books, TellTrade, TellAdd, TellModify, TellCancel, TellGone, Tell
  <2> DEFINE r == Numbered(Len(log) + 1, u)
  <2>2. WellTold(log) /\ Lasts(log) /\ WellTold(log')
    BY DEF IInv, LogInv
  <2>3. log \in Seq(NumberedRecord) /\ log' \in Seq(NumberedRecord) /\ Len(log) \in Nat
    BY <2>2 DEF WellTold
  <2> HIDE DEF r
  <2>4. Len(log') = Len(log) + 1 /\ log'[Len(log) + 1] = r
    BY <2>1, <2>3 DEF r
  <2>5. r \in NumberedRecord
    BY <2>3, <2>4
  <2>6. \A t \in Row, o \in Row : BookOf(log', k, t, o) = BookOf(log, k, t, o)
    <3> SUFFICES ASSUME NEW t \in Row, NEW o \in Row
                 PROVE  BookOf(log', k, t, o) = BookOf(log, k, t, o)
      OBVIOUS
    <3>1. o \in Int
      BY DEF Row
    <3>2. log' = Append(log, r)
      BY <2>1 DEF r
    <3> QED BY <2>2, <2>5, <3>1, <3>2, PastStays
  <2>7. BooksAt(log', k) = BooksAt(log, k)
    BY <2>6 DEF BooksAt
  <2> QED BY <2>3, <2>4, <2>7
<1>3. Books \/ log' = log
  BY DEF Next, Synthesizer, Tick, Stop, Drain, Drained, Timer, vars, envVars
<1> QED BY <1>1, <1>2, <1>3

LEMMA SnapStep == ASSUME IInv, IInv', SnapInv, [Next]_vars PROVE SnapInv'
<1>1. \/ UNCHANGED published
      \/ published' = Snapshot /\ UNCHANGED log
  BY DEF Next, Synthesizer, Books, TellTrade, TellAdd, TellModify, TellCancel, TellGone, Tell,
         Tick, Stop, Drain, Drained, Timer, vars, classVars
<1>2. CASE UNCHANGED published
  <2> SUFFICES ASSUME published # <<>>
               PROVE  \E k \in 0 .. Len(log') :
                         \E m, place : /\ published = InOrder(m)
                                       /\ TellsTable(m, place, k, BooksAt(log', k))
    BY <1>2 DEF SnapInv
  <2>1. PICK k \in 0 .. Len(log) :
           \E m, place : /\ published = InOrder(m)
                         /\ TellsTable(m, place, k, BooksAt(log, k))
    BY DEF SnapInv
  <2>2. k \in 0 .. Len(log') /\ BooksAt(log', k) = BooksAt(log, k)
    BY BooksStay
  <2> QED BY <2>1, <2>2
<1>3. CASE published' = Snapshot /\ UNCHANGED log
  <2>1. PICK m, place : /\ Snapshot = InOrder(m)
                        /\ TellsTable(m, place, last_inc_seq_num, ticker_orders)
    BY TableTold DEF IInv
  <2>2. /\ taken \in 0 .. Len(log)
        /\ TellsTable(m, place, taken, BooksAt(log, taken))
    BY <2>1, TableIsBooks
  <2> QED BY <1>3, <2>1, <2>2 DEF SnapInv
<1> QED BY <1>1, <1>2, <1>3

\* A subscriber who applies such a snapshot has the books.
LEMMA SnapshotTellsBooks == ASSUME IInv, SnapInv PROVE SnapshotIsTheBook
<1> SUFFICES ASSUME published # <<>> PROVE SnapshotIsTheBook
  BY DEF SnapshotIsTheBook
<1>0. PICK number \in 0 .. Len(log) :
         \E m, place : published = InOrder(m) /\ TellsTable(m, place, number, BooksAt(log, number))
  BY DEF SnapInv
<1>1. PICK m, place :
         published = InOrder(m) /\ TellsTable(m, place, number, BooksAt(log, number))
  BY <1>0
<1> DEFINE told == [i \in DOMAIN published |-> published[i].update]
           n == Len(m)
           tab == BooksAt(log, number)
<1>2. m \in Seq(Message) /\ n \in Nat /\ n >= 2 /\ DOMAIN m = 1 .. n
  BY <1>1 DEF TellsTable
<1>3. /\ DOMAIN published = 1 .. n
      /\ \A x \in 1 .. n : published[x].seq = x - 1 /\ published[x].update = m[x]
  BY <1>1, <1>2 DEF InOrder, Numbered
<1>4. told = m
  <2>1. m = [x \in 1 .. n |-> m[x]]
    BY <1>2
  <2> QED BY <1>3, <2>1
<1>5. /\ m[1] = Update("SNAPSHOT_START", -1, number, "none", 0, 0)
      /\ m[n] = Update("SNAPSHOT_END", -1, number, "none", 0, 0)
      /\ \A t \in Row : place[t] \in 2 .. n - 1 /\ m[place[t]] = Clear(t)
      /\ \A x \in 2 .. n - 1 : \E t \in Row :
            \/ x = place[t]
            \/ /\ place[t] < x
               /\ \E o \in Row : tab[t][o] # NoOrder /\ m[x] = Add(t, o, tab[t][o])
      /\ \A t \in Row, o \in Row :
            tab[t][o] # NoOrder => \E x \in 2 .. n - 1 : m[x] = Add(t, o, tab[t][o])
  BY <1>1 DEF TellsTable
<1>6. ASSUME NEW t \in Row, NEW o \in Row
      PROVE  /\ tab[t][o] = BookAt(number, t, o)
             /\ tab[t][o] # NoOrder =>
                   LET b == tab[t][o] IN b = [side |-> b.side, price |-> b.price, qty |-> b.qty]
  <2>1. tab[t][o] = BookOf(log, number, t, o)
    BY DEF BooksAt
  <2>2. o \in Int
    BY DEF Row
  <2>3. BookOf(log, number, t, o) \in Order \cup {NoOrder}
    BY <2>2, BookType DEF IInv, LogInv
  <2> HIDE DEF tab
  <2>4. tab[t][o] = BookAt(number, t, o)
    BY <2>1, SameBook
  <2>5. \A b \in Order : b = [side |-> b.side, price |-> b.price, qty |-> b.qty]
    BY DEF Order
  <2> QED BY <2>1, <2>3, <2>4, <2>5
<1> HIDE DEF told, n, tab
<1>7. \A t, o, b : /\ Clear(t).type = "CLEAR" /\ Clear(t).ticker = t
                   /\ Add(t, o, b).type = "ADD" /\ Add(t, o, b).ticker = t /\ Add(t, o, b).id = o
                   /\ Add(t, o, b).side = b.side /\ Add(t, o, b).price = b.price
                   /\ Add(t, o, b).qty = b.qty
  BY DEF Clear, Add, Update
<1>8. /\ m[1].type = "SNAPSHOT_START" /\ m[1].id = number
      /\ m[n].type = "SNAPSHOT_END" /\ m[n].id = number
  BY <1>5 DEF Update
\* What an ADD or a CLEAR among the messages is.
<1>9. ASSUME NEW x \in 1 .. n, m[x].type = "CLEAR"
      PROVE  m[x].ticker \in Row /\ x = place[m[x].ticker]
  <2>1. x \in 2 .. n - 1
    BY <1>2, <1>8, <1>9
  <2>2. PICK t \in Row :
              \/ x = place[t]
              \/ /\ place[t] < x
                 /\ \E o \in Row : tab[t][o] # NoOrder /\ m[x] = Add(t, o, tab[t][o])
    BY <1>5, <2>1
  <2>3. x = place[t]
    BY <1>7, <1>9, <2>2
  <2> QED BY <1>5, <1>7, <2>3
<1>10. ASSUME NEW x \in 1 .. n, m[x].type = "ADD"
       PROVE  \E t \in Row, o \in Row : /\ tab[t][o] # NoOrder /\ m[x] = Add(t, o, tab[t][o])
                                        /\ place[t] < x
  <2>1. x \in 2 .. n - 1
    BY <1>2, <1>8, <1>10
  <2>2. PICK t \in Row :
              \/ x = place[t]
              \/ /\ place[t] < x
                 /\ \E o \in Row : tab[t][o] # NoOrder /\ m[x] = Add(t, o, tab[t][o])
    BY <1>5, <2>1
  <2>3. x # place[t]
    BY <1>5, <1>7, <1>10
  <2> QED BY <2>2, <2>3
<1> DEFINE added == {i \in DOMAIN m : m[i].type = "ADD"}
           cleared(t) == {i \in DOMAIN m : m[i].type = "CLEAR" /\ m[i].ticker = t}
<1>11. \A i \in DOMAIN m : published[i].seq = i - 1
  BY <1>2, <1>3
<1>12. ASSUME NEW t \in Row PROVE cleared(t) # {}
  <2>1. place[t] \in 1 .. n /\ m[place[t]].type = "CLEAR" /\ m[place[t]].ticker = t
    BY <1>2, <1>5, <1>7
  <2> QED BY <1>2, <2>1
<1>13. ASSUME NEW i \in added, NEW j \in DOMAIN m, m[j].type = "CLEAR", m[j].ticker = m[i].ticker
       PROVE  j < i
  <2>1. i \in 1 .. n /\ j \in 1 .. n /\ m[i].type = "ADD"
    BY <1>2
  <2>2. PICK t \in Row, o \in Row : m[i] = Add(t, o, tab[t][o]) /\ place[t] < i
    BY <1>10, <2>1
  <2>3. m[i].ticker = t
    BY <1>7, <2>2
  <2>4. j = place[t]
    BY <1>9, <1>13, <2>1, <2>3
  <2> QED BY <2>2, <2>4
<1>14. {OrderTold(m[i]) : i \in added}
         = {x \in {<<t, o, BookAt(number, t, o)>> : t \in Row, o \in Row} : x[3] # NoOrder}
  <2>1. ASSUME NEW i \in added
        PROVE  \E t \in Row, o \in Row : /\ OrderTold(m[i]) = <<t, o, BookAt(number, t, o)>>
                                         /\ BookAt(number, t, o) # NoOrder
    <3>1. i \in 1 .. n /\ m[i].type = "ADD"
      BY <1>2
    <3>2. PICK t \in Row, o \in Row : tab[t][o] # NoOrder /\ m[i] = Add(t, o, tab[t][o])
      BY <1>10, <3>1
    <3> DEFINE b == tab[t][o]
    <3>3. OrderTold(m[i]) = <<t, o, [side |-> b.side, price |-> b.price, qty |-> b.qty]>>
      BY <1>7, <3>2 DEF OrderTold
    <3>4. /\ b = [side |-> b.side, price |-> b.price, qty |-> b.qty]
          /\ b = BookAt(number, t, o) /\ b # NoOrder
      BY <1>6, <3>2
    <3> HIDE DEF b
    <3> QED BY <3>3, <3>4
  <2>2. ASSUME NEW t \in Row, NEW o \in Row, BookAt(number, t, o) # NoOrder
        PROVE  \E i \in added : OrderTold(m[i]) = <<t, o, BookAt(number, t, o)>>
    <3> DEFINE b == tab[t][o]
    <3>1. b # NoOrder /\ b = BookAt(number, t, o)
      BY <1>6, <2>2
    <3>2. PICK i \in 2 .. n - 1 : m[i] = Add(t, o, b)
      BY <1>5, <3>1
    <3>3. i \in added
      BY <1>2, <1>7, <3>2
    <3>4. OrderTold(m[i]) = <<t, o, [side |-> b.side, price |-> b.price, qty |-> b.qty]>>
      BY <1>7, <3>2 DEF OrderTold
    <3>5. b = [side |-> b.side, price |-> b.price, qty |-> b.qty]
      BY <1>6, <3>1
    <3> HIDE DEF added
    <3> QED BY <3>1, <3>3, <3>4, <3>5
  <2> HIDE DEF added
  <2> DEFINE All == {<<t, o, BookAt(number, t, o)>> : t \in Row, o \in Row}
  <2>3. ASSUME NEW i \in added PROVE OrderTold(m[i]) \in All /\ OrderTold(m[i])[3] # NoOrder
    BY <2>1
  <2>4. ASSUME NEW x \in All, x[3] # NoOrder PROVE \E i \in added : x = OrderTold(m[i])
    <3>1. PICK t \in Row, o \in Row : x = <<t, o, BookAt(number, t, o)>>
      OBVIOUS
    <3>2. BookAt(number, t, o) # NoOrder
      BY <2>4, <3>1
    <3> QED BY <2>2, <3>1, <3>2
  <2> HIDE DEF All
  <2>5. {OrderTold(m[i]) : i \in added} = {x \in All : x[3] # NoOrder}
    BY <2>3, <2>4
  <2> QED BY <2>5 DEF All
<1>15. /\ m[1].type = "SNAPSHOT_START" /\ m[Len(m)].type = "SNAPSHOT_END" /\ m[1].id = m[Len(m)].id
       /\ m[Len(m)].id = number
  BY <1>8 DEF n
<1> HIDE DEF added, cleared
<1>16. Tells(m, OrdersAt(number))
  <2>1. \A t \in Row : cleared(t) # {}
    BY <1>12
  <2>2. \A i \in added : \A j \in cleared(m[i].ticker) : j < i
    BY <1>13 DEF cleared
  <2>3. {OrderTold(m[i]) : i \in added} = OrdersAt(number)
    BY <1>14 DEF OrdersAt
  <2> QED BY <2>1, <2>2, <2>3 DEF Tells, added, cleared
<1>17. /\ told[1].type = "SNAPSHOT_START" /\ told[Len(told)].type = "SNAPSHOT_END"
       /\ told[1].id = told[Len(told)].id
       /\ \A i \in DOMAIN told : published[i].seq = i - 1
       /\ Tells(told, OrdersAt(told[Len(told)].id))
  BY <1>4, <1>11, <1>15, <1>16
<1> QED BY <1>17 DEF SnapshotIsTheBook, told

\* Whatever the books tell and whenever the minute passes, a snapshot is the
\* books of all tickers at exactly its number.
THEOREM SnapshotsAreTheBook == Spec => []SnapshotIsTheBook
<1>1. Init => SnapInv
  BY DEF Init, SnapInv
<1>2. IInv /\ IInv' /\ SnapInv /\ [Next]_vars => SnapInv'
  BY SnapStep
<1>3. IInv /\ SnapInv => SnapshotIsTheBook
  BY SnapshotTellsBooks
<1> QED BY <1>1, <1>2, <1>3, SynthesizerInvariant, PTL DEF Spec

=============================================================================
