---------------------------- MODULE LoggerProofs ----------------------------
(***************************************************************************)
(* TLAPS proofs about Logger, for all formats, values and numbers of calls. *)
(* That a closed file has what the thread saw needs one fact about the     *)
(* thread (DiskInv).  The text needs one about log() at the head of its    *)
(* loop (InCall): how far it got in the format tells the rest of the       *)
(* format, the values left and what is in the queue, and the '%' it stands *)
(* before, if it does, is not the second of two.                           *)
(***************************************************************************)
EXTENDS Logger, SequenceTheorems, FiniteSetTheorems, WellFoundedInduction, TLAPS

LoggedCall == [format : Format, values : Values]

\* TypeOK with what the arguments of log() are.
TypeInv == /\ TypeOK
           /\ values \in Seq(Seq(STRING))
           /\ calls \in Seq(LoggedCall)

LEMMA InitTypes == Init => TypeInv
<1> SUFFICES ASSUME Init PROVE TypeInv
  OBVIOUS
<1>1. queue = <<>> /\ s = <<>> /\ values = <<>> /\ calls = <<>>
  BY DEF Init
<1>2. queue \in Seq(STRING) /\ s \in Seq(STRING) /\ values \in Seq(Seq(STRING))
      /\ calls \in Seq(LoggedCall)
  BY <1>1
<1>3. Len(queue) = 0
  BY <1>1
<1> QED BY <1>2, <1>3 DEF Init, TypeInv, TypeOK

\* What a round of log() does to its arguments and to the queue.
LEMMA LogTypes ==
    ASSUME TypeInv, Log
    PROVE  /\ queue' \in Seq(STRING) /\ s' \in Seq(STRING)
           /\ values' \in Seq(Seq(STRING)) /\ Len(queue) <= Len(queue')
           /\ opc' \in {"idle", "log", "exited"}
<1>1. queue \in Seq(STRING) /\ s \in Seq(STRING) /\ values \in Seq(Seq(STRING))
      /\ Len(queue) \in Nat
  BY DEF TypeInv, TypeOK
<1>2. CASE s = <<>>
  BY <1>1, <1>2 DEF Log, argumentVars
<1>3. CASE s # <<>> /\ Placeholder /\ values = <<>>
  BY <1>1, <1>3 DEF Log, PushValue, argumentVars
<1>4. CASE s # <<>> /\ Placeholder /\ values # <<>>
  <2>1. queue' = queue \o Head(values) /\ s' = Tail(s) /\ values' = Tail(values) /\ opc' = opc
    BY <1>4 DEF Log, PushValue
  <2>2. Head(values) \in Seq(STRING) /\ Tail(values) \in Seq(Seq(STRING))
    BY <1>1, <1>4, HeadTailProperties
  <2>3. Tail(s) \in Seq(STRING)
    BY <1>1, <1>4, HeadTailProperties
  <2>4. queue \o Head(values) \in Seq(STRING)
        /\ Len(queue \o Head(values)) = Len(queue) + Len(Head(values))
    BY <1>1, <2>2, ConcatProperties
  <2>5. Len(Head(values)) \in Nat
    BY <2>2
  <2>6. opc' = "log"
    BY <2>1 DEF Log
  <2> QED BY <1>1, <2>1, <2>2, <2>3, <2>4, <2>5, <2>6
<1>5. CASE s # <<>> /\ ~Placeholder /\ Head(s) = "%"
  <2>1. Len(s) > 1
    BY <1>5 DEF Placeholder, Escapes
  <2>2. queue' = Append(queue, s[2]) /\ s' = Tail(Tail(s)) /\ values' = values /\ opc' = opc
    BY <1>5 DEF Log, PushCharacter
  <2>3. s[2] \in STRING /\ Tail(s) \in Seq(STRING) /\ Tail(s) # <<>>
    <3>1. 2 \in 1 .. Len(s) /\ s # <<>>
      BY <1>1, <2>1
    <3>2. Tail(s) \in Seq(STRING) /\ Len(Tail(s)) = Len(s) - 1
      BY <1>1, <3>1, HeadTailProperties
    <3>3. Tail(s) # <<>>
      <4>1. Len(s) \in Nat
        BY <1>1
      <4>2. Len(Tail(s)) # 0
        BY <2>1, <3>2, <4>1
      <4> QED BY <4>2, EmptySeq
    <3> QED BY <1>1, <3>1, <3>2, <3>3, ElementOfSeq
  <2>4. Tail(Tail(s)) \in Seq(STRING)
    BY <2>3, HeadTailProperties
  <2>5. Append(queue, s[2]) \in Seq(STRING) /\ Len(Append(queue, s[2])) = Len(queue) + 1
    BY <1>1, <2>3, AppendProperties
  <2>6. opc' = "log"
    BY <2>2 DEF Log
  <2> QED BY <1>1, <2>2, <2>4, <2>5, <2>6
<1>6. CASE s # <<>> /\ ~Placeholder /\ Head(s) # "%"
  <2>1. queue' = Append(queue, Head(s)) /\ s' = Tail(s) /\ values' = values /\ opc' = opc
    BY <1>6 DEF Log, PushCharacter
  <2>2. Head(s) \in STRING /\ Tail(s) \in Seq(STRING)
    BY <1>1, <1>6, HeadTailProperties
  <2>3. Append(queue, Head(s)) \in Seq(STRING) /\ Len(Append(queue, Head(s))) = Len(queue) + 1
    BY <1>1, <2>2, AppendProperties
  <2>4. opc' = "log"
    BY <2>1 DEF Log
  <2> QED BY <1>1, <2>1, <2>2, <2>3, <2>4
<1> QED BY <1>2, <1>3, <1>4, <1>5, <1>6

LEMMA StepTypes == TypeInv /\ [Next]_vars => TypeInv'
<1> SUFFICES ASSUME TypeInv, [Next]_vars PROVE TypeInv'
  OBVIOUS
<1>1. /\ Len(queue) \in Nat /\ Len(calls) \in Nat
      /\ taken \in 0 .. Len(queue) /\ flushed \in 0 .. taken /\ looked \in 0 .. Len(queue)
  BY DEF TypeInv, TypeOK
<1>2. CASE Call
  <2>1. PICK f \in Format, v \in Values :
           s' = f /\ values' = v /\ calls' = Append(calls, [format |-> f, values |-> v])
    BY <1>2 DEF Call
  <2>2. f \in Seq(STRING) /\ v \in Seq(Seq(STRING))
    BY CallAssumption
  <2>3. calls' \in Seq(LoggedCall)
    BY <2>1 DEF TypeInv, LoggedCall
  <2> QED BY <1>2, <2>1, <2>2, <2>3 DEF Call, threadVars, TypeInv, TypeOK
<1>3. CASE Log
  BY <1>1, <1>3, LogTypes DEF Log, threadVars, TypeInv, TypeOK
<1>4. CASE Test
  BY <1>1, <1>4 DEF Test, argumentVars, TypeInv, TypeOK
<1>5. CASE Write
  BY <1>1, <1>5 DEF Write, argumentVars, TypeInv, TypeOK
<1>6. CASE Flush
  BY <1>1, <1>6 DEF Flush, argumentVars, TypeInv, TypeOK
<1>7. CASE Destroy
  BY <1>7 DEF Destroy, threadVars, argumentVars, TypeInv, TypeOK
<1>8. CASE Close
  BY <1>1, <1>8 DEF Close, argumentVars, TypeInv, TypeOK
<1>9. CASE UNCHANGED vars
  BY <1>9 DEF vars, threadVars, argumentVars, TypeInv, TypeOK
<1> QED BY <1>2, <1>3, <1>4, <1>5, <1>6, <1>7, <1>8, <1>9 DEF Next, Thread

LEMMA TypeInvariant == Spec => []TypeInv
BY InitTypes, StepTypes, PTL DEF Spec

\* The members keep their types: an element is written before it is flushed,
\* and pushed before it is written.
THEOREM TypeCorrect == Spec => []TypeOK
<1>1. TypeInv => TypeOK
  BY DEF TypeInv
<1> QED BY <1>1, TypeInvariant, PTL

----------------------------------------------------------------------------

\* Outside the inner loop of flushQueue() all that the thread saw is on the
\* disk, and it is outside for good before the file is closed.
DiskInv == /\ tpc # "drain" => flushed >= looked
           /\ opc = "closed" => tpc = "done"

\* When the logger is destroyed, the file has all that was logged before its
\* thread last saw it running, whatever else was logged, and however often the
\* thread was late.
THEOREM DiskHasWhatWasSeen == Spec => []LosesOnlyTheTail
<1>1. Init => DiskInv
  BY DEF Init, DiskInv
<1>2. TypeInv /\ DiskInv /\ [Next]_vars => DiskInv'
  <2> SUFFICES ASSUME TypeInv, DiskInv, [Next]_vars PROVE DiskInv'
    OBVIOUS
  <2>1. /\ Len(queue) \in Nat
        /\ taken \in 0 .. Len(queue) /\ flushed \in 0 .. taken /\ looked \in 0 .. Len(queue)
    BY DEF TypeInv, TypeOK
  <2>2. CASE Call
    BY <2>2 DEF Call, threadVars, DiskInv
  <2>3. CASE Log
    BY <2>3, LogTypes DEF Log, threadVars, DiskInv
  <2>4. CASE Test
    BY <2>1, <2>4 DEF Test, DiskInv
  <2>5. CASE Write
    BY <2>1, <2>5 DEF Write, DiskInv
  <2>6. CASE Flush
    BY <2>1, <2>6 DEF Flush, DiskInv
  <2>7. CASE Destroy
    BY <2>7 DEF Destroy, threadVars, DiskInv
  <2>8. CASE Close
    BY <2>1, <2>8 DEF Close, DiskInv
  <2>9. CASE UNCHANGED vars
    BY <2>9 DEF vars, threadVars, DiskInv
  <2> QED BY <2>2, <2>3, <2>4, <2>5, <2>6, <2>7, <2>8, <2>9 DEF Next, Thread
<1>3. DiskInv => LosesOnlyTheTail
  BY DEF DiskInv, LosesOnlyTheTail
<1> QED BY <1>1, <1>2, <1>3, TypeInvariant, PTL DEF Spec

----------------------------------------------------------------------------
(***************************************************************************)
(* Loops.  The loops that put a text together are recursive functions, and *)
(* what holds of each of their rounds is shown by the least round of which *)
(* it does not hold.                                                       *)
(***************************************************************************)

LEMMA LeastNumber ==
    ASSUME NEW T, T \subseteq Nat, T # {}
    PROVE  \E m \in T : \A n \in T : m <= n
<1> DEFINE R == OpToRel(<, Nat)
<1>1. \A n, m \in Nat : n < m => <<n, m>> \in R
  BY Z3 DEF OpToRel
<1>2. PICK m \in T : \A n \in T : <<n, m>> \notin R
  BY NatLessThanWellFounded, WFMin, Zenon
<1> HIDE DEF R
<1>3. ASSUME NEW n \in T PROVE m <= n
  <2>1. m \in Nat /\ n \in Nat
    OBVIOUS
  <2>2. ~(n < m)
    BY <1>1, <1>2, <2>1, Zenon
  <2> QED
    BY <2>1, <2>2
<1> QED
  BY <1>3

\* f[i] is what the first i rounds put together, of which round k adds B[k].
Assembles(f, B, n) == f = [i \in 0 .. n |-> IF i = 0 THEN <<>> ELSE f[i - 1] \o B[i]]

LEMMA Rounds ==
    ASSUME NEW n \in Nat, NEW B, NEW f, Assembles(f, B, n)
    PROVE  f[0] = <<>> /\ \A i \in 1 .. n : f[i] = f[i - 1] \o B[i]
<1>1. \A i \in 0 .. n : f[i] = IF i = 0 THEN <<>> ELSE f[i - 1] \o B[i]
  BY DEF Assembles
<1>2. f[0] = <<>>
  BY <1>1
<1>3. ASSUME NEW i \in 1 .. n PROVE f[i] = f[i - 1] \o B[i]
  <2>1. i \in 0 .. n /\ i # 0
    OBVIOUS
  <2> QED BY <1>1, <2>1
<1> QED BY <1>2, <1>3

\* One more round.
LEMMA OneMoreRound ==
    ASSUME NEW n \in Nat, NEW B, NEW g, Assembles(g, B, n)
    PROVE  \E f : Assembles(f, B, n + 1)
<1> DEFINE f == [i \in 0 .. n + 1 |-> IF i = n + 1 THEN g[n] \o B[n + 1] ELSE g[i]]
<1>1. g[0] = <<>> /\ \A i \in 1 .. n : g[i] = g[i - 1] \o B[i]
  BY Rounds
<1>2. \A i \in 0 .. n : f[i] = g[i]
  OBVIOUS
<1>3. f[n + 1] = g[n] \o B[n + 1]
  OBVIOUS
<1>4. f = [i \in 0 .. n + 1 |-> f[i]]
  OBVIOUS
<1> HIDE DEF f
<1>5. ASSUME NEW i \in 0 .. n + 1
      PROVE  f[i] = IF i = 0 THEN <<>> ELSE f[i - 1] \o B[i]
  <2>1. CASE i = 0
    BY <1>1, <1>2, <2>1
  <2>2. CASE i \in 1 .. n
    <3>1. i \in 0 .. n /\ i - 1 \in 0 .. n /\ i # 0
      BY <2>2
    <3> QED BY <1>1, <1>2, <2>2, <3>1
  <2>3. CASE i = n + 1
    <3>1. i - 1 = n /\ n \in 0 .. n /\ i # 0
      BY <2>3
    <3> QED BY <1>2, <1>3, <2>3, <3>1
  <2> QED BY <2>1, <2>2, <2>3
<1> DEFINE h == [i \in 0 .. n + 1 |-> IF i = 0 THEN <<>> ELSE f[i - 1] \o B[i]]
<1>6. f = h
  <2>1. \A i \in 0 .. n + 1 : h[i] = IF i = 0 THEN <<>> ELSE f[i - 1] \o B[i]
    OBVIOUS
  <2>2. h = [i \in 0 .. n + 1 |-> h[i]]
    OBVIOUS
  <2> HIDE DEF h
  <2>3. \A i \in 0 .. n + 1 : f[i] = h[i]
    BY <1>5, <2>1
  <2> QED BY <1>4, <2>2, <2>3
<1>7. Assembles(f, B, n + 1)
  BY <1>6 DEF Assembles
<1> QED BY <1>7

\* The recursion has a solution.
LEMMA Assembled ==
    ASSUME NEW n \in Nat, NEW B
    PROVE  \E f : Assembles(f, B, n)
<1> DEFINE T == {m \in 0 .. n : ~\E f : Assembles(f, B, m)}
<1>1. T \subseteq Nat /\ (n \notin T => \E f : Assembles(f, B, n))
  OBVIOUS
<1>2. SUFFICES ASSUME T # {} PROVE FALSE
  BY <1>1
<1>3. PICK m \in T : \A i \in T : m <= i
  <2> HIDE DEF T
  <2> QED BY <1>1, <1>2, LeastNumber
<1>4. CASE m = 0
  <2> DEFINE f == [i \in 0 .. 0 |-> <<>>]
  <2>1. f = [i \in 0 .. 0 |-> IF i = 0 THEN <<>> ELSE f[i - 1] \o B[i]]
    OBVIOUS
  <2>2. Assembles(f, B, 0)
    BY <2>1 DEF Assembles
  <2> QED BY <1>3, <1>4, <2>2
<1>5. CASE m # 0
  <2>1. m \in Nat /\ m - 1 \in 0 .. n /\ ~(m <= m - 1)
    BY <1>5
  <2>2. m - 1 \notin T
    <3> HIDE DEF T
    <3> QED BY <1>3, <2>1
  <2>3. PICK g : Assembles(g, B, m - 1)
    BY <2>1, <2>2
  <2>4. \E f : Assembles(f, B, (m - 1) + 1)
    <3>1. m - 1 \in Nat
      BY <2>1
    <3> QED BY <2>3, <3>1, OneMoreRound
  <2>5. (m - 1) + 1 = m
    BY <2>1
  <2> QED BY <1>3, <2>4, <2>5
<1> QED BY <1>4, <1>5

\* Two loops that begin alike have put together the same so far.
LEMMA SameRounds ==
    ASSUME NEW n \in Nat, NEW B, NEW f, Assembles(f, B, n),
           NEW m \in Nat, NEW C, NEW g, Assembles(g, C, m),
           NEW k \in 0 .. n, k <= m, \A i \in 1 .. k : B[i] = C[i]
    PROVE  f[k] = g[k]
<1> DEFINE T == {i \in 0 .. k : f[i] # g[i]}
<1>1. T \subseteq Nat /\ (k \notin T => f[k] = g[k])
  OBVIOUS
<1>2. SUFFICES ASSUME T # {} PROVE FALSE
  BY <1>1
<1>3. PICK j \in T : \A i \in T : j <= i
  <2> HIDE DEF T
  <2> QED BY <1>1, <1>2, LeastNumber
<1>4. f[0] = <<>> /\ g[0] = <<>>
  BY Rounds
<1>5. j \in 1 .. k /\ f[j] # g[j]
  BY <1>4
<1>6. j - 1 \in 0 .. k /\ ~(j <= j - 1)
  BY <1>5
<1>7. f[j - 1] = g[j - 1]
  <2>1. j - 1 \notin T
    <3> HIDE DEF T
    <3> QED BY <1>3, <1>6
  <2> QED BY <1>6, <2>1
<1>8. f[j] = f[j - 1] \o B[j] /\ g[j] = g[j - 1] \o C[j] /\ B[j] = C[j]
  <2>1. j \in 1 .. n /\ j \in 1 .. m
    BY <1>5
  <2>2. \A i \in 1 .. n : f[i] = f[i - 1] \o B[i]
    <3> HIDE DEF T
    <3> QED BY Rounds, Zenon
  <2>3. \A i \in 1 .. m : g[i] = g[i - 1] \o C[i]
    <3> HIDE DEF T
    <3> QED BY Rounds, Zenon
  <2> QED BY <1>5, <2>1, <2>2, <2>3
<1> QED BY <1>5, <1>7, <1>8

\* Pieces of text make a text.
LEMMA MakesText ==
    ASSUME NEW n \in Nat, NEW B, NEW f, Assembles(f, B, n),
           NEW k \in 0 .. n, \A i \in 1 .. k : B[i] \in Seq(STRING)
    PROVE  f[k] \in Seq(STRING)
<1> DEFINE T == {i \in 0 .. k : f[i] \notin Seq(STRING)}
<1>1. T \subseteq Nat /\ (k \notin T => f[k] \in Seq(STRING))
  OBVIOUS
<1>2. SUFFICES ASSUME T # {} PROVE FALSE
  BY <1>1
<1>3. PICK j \in T : \A i \in T : j <= i
  <2> HIDE DEF T
  <2> QED BY <1>1, <1>2, LeastNumber
<1>4. f[0] \in Seq(STRING)
  <2>1. f[0] = <<>>
    BY Rounds
  <2> QED BY <2>1, EmptySeq
<1>5. j \in 1 .. k /\ f[j] \notin Seq(STRING)
  <2>1. j \in 0 .. k /\ f[j] \notin Seq(STRING)
    BY <1>3
  <2>2. j # 0
    BY <1>4, <2>1
  <2> QED BY <2>1, <2>2
<1>6. j - 1 \in 0 .. k /\ ~(j <= j - 1)
  BY <1>5
<1>7. f[j - 1] \in Seq(STRING)
  <2>1. j - 1 \notin T
    <3> HIDE DEF T
    <3> QED BY <1>3, <1>6
  <2> QED BY <1>6, <2>1
<1>8. f[j] = f[j - 1] \o B[j] /\ B[j] \in Seq(STRING)
  <2>1. j \in 1 .. n
    BY <1>5
  <2>2. \A i \in 1 .. n : f[i] = f[i - 1] \o B[i]
    <3> HIDE DEF T
    <3> QED BY Rounds, Zenon
  <2> QED BY <1>5, <2>1, <2>2
<1> QED BY <1>5, <1>7, <1>8, ConcatProperties

----------------------------------------------------------------------------
(***************************************************************************)
(* Formats.                                                                *)
(***************************************************************************)

\* n '%' end at place i of f.
EndThere(f, i, n) == /\ \A k \in i - n + 1 .. i : f[k] = "%"
                     /\ n < i => f[i - n] # "%"

LEMMA PercentsAre ==
    ASSUME NEW f \in Seq(STRING), NEW i \in Nat
    PROVE  Percents(f, i) \in 0 .. i /\ EndThere(f, i, Percents(f, i))
<1> DEFINE T == {m \in 0 .. i : \A k \in m + 1 .. i : f[k] = "%"}
<1>1. T \subseteq Nat /\ i \in T
  OBVIOUS
<1>2. PICK m \in T : \A j \in T : m <= j
  <2> HIDE DEF T
  <2> QED BY <1>1, LeastNumber
<1>3. m \in 0 .. i /\ \A k \in m + 1 .. i : f[k] = "%"
  OBVIOUS
<1>4. m > 0 => f[m] # "%"
  <2> SUFFICES ASSUME m > 0, f[m] = "%" PROVE FALSE
    OBVIOUS
  <2>1. m - 1 \in 0 .. i /\ ~(m <= m - 1)
    BY <1>3
  <2>2. \A k \in (m - 1) + 1 .. i : f[k] = "%"
    BY <1>3
  <2>3. m - 1 \in T
    BY <2>1, <2>2
  <2> HIDE DEF T
  <2> QED BY <1>2, <2>1, <2>3
<1>5. i - m \in 0 .. i /\ i - (i - m) = m /\ i - (i - m) + 1 = m + 1 /\ (i - m < i => m > 0)
  BY <1>3
<1>6. EndThere(f, i, i - m)
  BY <1>3, <1>4, <1>5 DEF EndThere
<1> HIDE DEF T
<1>7. \E n \in 0 .. i : EndThere(f, i, n)
  BY <1>5, <1>6
<1>8. Percents(f, i) = CHOOSE n \in 0 .. i : EndThere(f, i, n)
  BY DEF Percents, EndThere
<1> QED BY <1>7, <1>8

\* Only so many end there.
LEMMA PercentsOnly ==
    ASSUME NEW f \in Seq(STRING), NEW i \in Nat, NEW n \in 0 .. i, EndThere(f, i, n)
    PROVE  Percents(f, i) = n
<1> DEFINE p == Percents(f, i)
<1>1. p \in 0 .. i /\ EndThere(f, i, p)
  BY PercentsAre
<1> HIDE DEF p
<1>2. ~(p < n)
  <2> SUFFICES ASSUME p < n PROVE FALSE
    OBVIOUS
  <2>1. i - p \in i - n + 1 .. i /\ p < i
    BY <1>1
  <2> QED BY <1>1, <2>1 DEF EndThere
<1>3. ~(n < p)
  <2> SUFFICES ASSUME n < p PROVE FALSE
    OBVIOUS
  <2>1. i - n \in i - p + 1 .. i /\ n < i
    BY <1>1
  <2> QED BY <1>1, <2>1 DEF EndThere
<1>4. p = n
  BY <1>1, <1>2, <1>3
<1> QED BY <1>4 DEF p

\* A '%' is one more than those before it, another character ends a run.
LEMMA PercentsNext ==
    ASSUME NEW f \in Seq(STRING), NEW i \in Nat
    PROVE  /\ Percents(f, 0) = 0
           /\ f[i + 1] # "%" => Percents(f, i + 1) = 0
           /\ f[i + 1] = "%" => Percents(f, i + 1) = Percents(f, i) + 1
<1>1. Percents(f, 0) = 0
  BY PercentsAre
<1>2. ASSUME f[i + 1] # "%" PROVE Percents(f, i + 1) = 0
  <2>1. EndThere(f, i + 1, 0)
    BY <1>2 DEF EndThere
  <2>2. i + 1 \in Nat /\ 0 \in 0 .. i + 1
    OBVIOUS
  <2> QED BY <2>1, <2>2, PercentsOnly
<1>3. ASSUME f[i + 1] = "%" PROVE Percents(f, i + 1) = Percents(f, i) + 1
  <2> DEFINE p == Percents(f, i)
  <2>1. p \in 0 .. i /\ EndThere(f, i, p)
    BY PercentsAre
  <2> HIDE DEF p
  <2>2. (i + 1) - (p + 1) = i - p /\ (p + 1 < i + 1 => p < i)
    BY <2>1
  <2>3. \A k \in (i + 1) - (p + 1) + 1 .. i + 1 : k = i + 1 \/ k \in i - p + 1 .. i
    BY <2>1
  <2>4. EndThere(f, i + 1, p + 1)
    BY <1>3, <2>1, <2>2, <2>3 DEF EndThere
  <2>5. p + 1 \in 0 .. i + 1 /\ i + 1 \in Nat
    BY <2>1
  <2>6. Percents(f, i + 1) = p + 1
    BY <2>4, <2>5, PercentsOnly
  <2> QED BY <2>6 DEF p
<1> QED BY <1>1, <1>2, <1>3

LEMMA PercentsIncrease ==
    ASSUME NEW f \in Seq(STRING), NEW n \in Nat
    PROVE  /\ Percents(f, n) \in Nat
           /\ f[n + 1] # "%" => Percents(f, n + 1) = 0
           /\ f[n + 1] = "%" => Percents(f, n + 1) = Percents(f, n) + 1
           /\ f[n + 2] = "%" => Percents(f, n + 2) = Percents(f, n + 1) + 1
<1>1. n + 1 \in Nat /\ (n + 1) + 1 = n + 2
  OBVIOUS
<1>2. Percents(f, n) \in 0 .. n
  BY PercentsAre
<1>3. Percents(f, n) \in Nat
  BY <1>2
<1>4. f[n + 2] = "%" => Percents(f, n + 2) = Percents(f, n + 1) + 1
  <2>1. f[(n + 1) + 1] = "%" => Percents(f, (n + 1) + 1) = Percents(f, n + 1) + 1
    BY <1>1, PercentsNext
  <2> QED BY <1>1, <2>1
<1> QED BY <1>3, <1>4, PercentsNext

LEMMA OddNext == ~Odd(0) /\ \A n \in Nat : Odd(n + 1) <=> ~Odd(n)
BY DEF Odd

\* Counting places that stand for a value.
LEMMA ValuedNext ==
    ASSUME NEW f \in Seq(STRING)
    PROVE  /\ Valued(f, 0) = 0
           /\ \A n \in 0 .. Len(f) : Valued(f, n) \in Nat
           /\ \A n \in 0 .. Len(f) - 1 :
                 Valued(f, n + 1) = Valued(f, n) + (IF StandsForValue(f, n + 1) THEN 1 ELSE 0)
           /\ \A n, m \in 0 .. Len(f) : n <= m => Valued(f, n) <= Valued(f, m)
<1> DEFINE P == Placeholders(f)
           upTo(n) == {k \in P : k <= n}
<1>1. Len(f) \in Nat /\ DOMAIN f = 1 .. Len(f)
  OBVIOUS
<1>2. P = {i \in 1 .. Len(f) : StandsForValue(f, i)}
  BY <1>1 DEF Placeholders
<1>3. \A n : Valued(f, n) = Cardinality(upTo(n))
  BY DEF Valued
<1>4. ASSUME NEW n \in 0 .. Len(f) PROVE IsFiniteSet(upTo(n)) /\ Cardinality(upTo(n)) \in Nat
  <2>1. IsFiniteSet(1 .. Len(f))
    BY <1>1, FS_Interval
  <2>2. upTo(n) \in SUBSET (1 .. Len(f))
    BY <1>2
  <2> HIDE DEF upTo
  <2>3. IsFiniteSet(upTo(n))
    BY <2>1, <2>2, FS_Subset
  <2> QED BY <2>3, FS_CardinalityType
<1>5. Valued(f, 0) = 0
  <2>1. upTo(0) = {}
    BY <1>2
  <2> HIDE DEF upTo
  <2> QED BY <1>3, <2>1, FS_EmptySet
<1>6. ASSUME NEW n \in 0 .. Len(f) - 1
      PROVE  Cardinality(upTo(n + 1))
               = Cardinality(upTo(n)) + (IF StandsForValue(f, n + 1) THEN 1 ELSE 0)
  <2>1. n \in 0 .. Len(f) /\ n + 1 \in 1 .. Len(f) /\ n + 1 \notin upTo(n)
    BY <1>1
  <2>2. CASE StandsForValue(f, n + 1)
    <3>1. n + 1 \in P
      BY <1>2, <2>1, <2>2
    <3>2. \A k \in P : k <= n + 1 <=> k <= n \/ k = n + 1
      BY <1>1, <1>2, <2>1
    <3> HIDE DEF P
    <3>3. upTo(n + 1) = upTo(n) \cup {n + 1}
      BY <3>1, <3>2
    <3> HIDE DEF upTo
    <3> QED BY <1>4, <2>1, <2>2, <3>3, FS_AddElement
  <2>3. CASE ~StandsForValue(f, n + 1)
    <3>1. n + 1 \notin P
      BY <1>2, <2>3
    <3>2. \A k \in P : k # n + 1 => (k <= n + 1 <=> k <= n)
      BY <1>1, <1>2, <2>1
    <3> HIDE DEF P
    <3>3. upTo(n + 1) = upTo(n)
      BY <3>1, <3>2
    <3> HIDE DEF upTo
    <3> QED BY <1>4, <2>1, <2>3, <3>3
  <2> QED BY <2>2, <2>3
<1>7. ASSUME NEW n \in 0 .. Len(f), NEW m \in 0 .. Len(f), n <= m
      PROVE  Cardinality(upTo(n)) <= Cardinality(upTo(m))
  <2>1. upTo(n) \in SUBSET upTo(m)
    BY <1>1, <1>2, <1>7
  <2> HIDE DEF upTo
  <2> QED BY <1>4, <2>1, FS_Subset
<1>8. \A n \in 0 .. Len(f) : Valued(f, n) \in Nat
  <2> HIDE DEF upTo
  <2> QED BY <1>3, <1>4
<1>9. \A n \in 0 .. Len(f) - 1 :
        Valued(f, n + 1) = Valued(f, n) + (IF StandsForValue(f, n + 1) THEN 1 ELSE 0)
  <2> HIDE DEF upTo
  <2> QED BY <1>3, <1>6
<1>10. \A n, m \in 0 .. Len(f) : n <= m => Valued(f, n) <= Valued(f, m)
  <2> HIDE DEF upTo
  <2> QED BY <1>3, <1>7
<1> QED BY <1>5, <1>8, <1>9, <1>10

\* What a place of a format adds to the text.
At(f, v, i) == IF Literal(f, i) THEN <<f[i]>>
               ELSE IF StandsForValue(f, i) THEN v[Valued(f, i)] ELSE <<>>

LEMMA TextNext ==
    ASSUME NEW f \in Seq(STRING), NEW v \in Seq(Seq(STRING))
    PROVE  /\ Text(f, v, 0) = <<>>
           /\ \A n \in 0 .. Len(f) - 1 : Text(f, v, n + 1) = Text(f, v, n) \o At(f, v, n + 1)
           /\ \A n \in 0 .. Len(f) : Valued(f, n) <= Len(v) => Text(f, v, n) \in Seq(STRING)
<1> DEFINE N == Len(f)
           B == [i \in 1 .. N |-> At(f, v, i)]
           IsText(g) == g = [k \in 0 .. N |-> IF k = 0 THEN <<>> ELSE g[k - 1] \o At(f, v, k)]
<1>1. \A n : Text(f, v, n) = (CHOOSE g : IsText(g))[n]
  BY DEF Text, At
<1>2. ASSUME NEW g PROVE IsText(g) <=> Assembles(g, B, N)
  <2>1. \A k \in 0 .. N : k # 0 => B[k] = At(f, v, k)
    OBVIOUS
  <2> HIDE DEF B, N
  <2>2. [k \in 0 .. N |-> IF k = 0 THEN <<>> ELSE g[k - 1] \o At(f, v, k)]
          = [k \in 0 .. N |-> IF k = 0 THEN <<>> ELSE g[k - 1] \o B[k]]
    BY <2>1
  <2> QED BY <2>2 DEF Assembles
<1>3. N \in Nat
  OBVIOUS
<1>4. \A i \in 1 .. N : B[i] = At(f, v, i)
  OBVIOUS
<1> HIDE DEF N, B, IsText
<1>5. PICK g : Assembles(g, B, N) /\ \A n : Text(f, v, n) = g[n]
  BY <1>1, <1>2, <1>3, Assembled
<1>6. Text(f, v, 0) = <<>>
  BY <1>3, <1>5, Rounds
<1>7. ASSUME NEW n \in 0 .. N - 1 PROVE Text(f, v, n + 1) = Text(f, v, n) \o At(f, v, n + 1)
  <2>1. n + 1 \in 1 .. N /\ (n + 1) - 1 = n
    BY <1>3
  <2>2. Assembles(g, B, N)
    BY <1>5
  <2>3. \A i \in 1 .. N : g[i] = g[i - 1] \o B[i]
    BY <1>3, <2>2, Rounds
  <2>4. g[n + 1] = g[n] \o At(f, v, n + 1)
    BY <1>4, <2>1, <2>3
  <2> QED BY <1>5, <2>4
<1>8. ASSUME NEW n \in 0 .. N, Valued(f, n) <= Len(v) PROVE Text(f, v, n) \in Seq(STRING)
  <2>1. ASSUME NEW i \in 1 .. n PROVE B[i] \in Seq(STRING)
    <3>1. i \in 1 .. N /\ i \in 0 .. N /\ i <= n
      BY <1>3
    <3>2. f[i] \in STRING
      BY <3>1 DEF N
    <3>3. ASSUME StandsForValue(f, i) PROVE v[Valued(f, i)] \in Seq(STRING)
      <4>1. i - 1 \in 0 .. Len(f) - 1 /\ i - 1 \in 0 .. Len(f) /\ (i - 1) + 1 = i
        BY <1>3, <3>1 DEF N
      <4>2. Valued(f, i) = Valued(f, i - 1) + 1 /\ Valued(f, i - 1) \in Nat
        BY <3>3, <4>1, ValuedNext
      <4>3. Valued(f, i) <= Valued(f, n) /\ Valued(f, n) \in Nat
        BY <3>1, ValuedNext DEF N
      <4>4. Valued(f, i) \in 1 .. Len(v)
        BY <1>8, <4>2, <4>3
      <4> QED BY <4>4
    <3>4. <<f[i]>> \in Seq(STRING) /\ <<>> \in Seq(STRING)
      BY <3>2
    <3> QED BY <1>4, <3>1, <3>3, <3>4 DEF At
  <2>2. Assembles(g, B, N)
    BY <1>5
  <2>3. g[n] \in Seq(STRING)
    BY <1>3, <2>1, <2>2, MakesText
  <2> QED BY <1>5, <2>3
<1> QED BY <1>6, <1>7, <1>8 DEF N

\* The text of a call.
Whole(c) == Text(c.format, c.values, Len(c.format))

LEMMA CallParts ==
    ASSUME NEW c \in LoggedCall
    PROVE  c.format \in Seq(STRING) /\ c.values \in Seq(Seq(STRING))
BY CallAssumption DEF LoggedCall

LEMMA TextsAre ==
    ASSUME NEW cs \in Seq(LoggedCall)
    PROVE  \E g : /\ Assembles(g, [i \in 1 .. Len(cs) |-> Whole(cs[i])], Len(cs))
                  /\ \A n : Texts(cs, n) = g[n]
<1> DEFINE N == Len(cs)
           B == [i \in 1 .. N |-> Whole(cs[i])]
           IsTexts(g) == g = [k \in 0 .. N |-> IF k = 0 THEN <<>> ELSE g[k - 1] \o Whole(cs[k])]
<1>1. \A n : Texts(cs, n) = (CHOOSE g : IsTexts(g))[n]
  BY DEF Texts, Whole
<1>2. ASSUME NEW g PROVE IsTexts(g) <=> Assembles(g, B, N)
  <2>1. \A k \in 0 .. N : k # 0 => B[k] = Whole(cs[k])
    OBVIOUS
  <2> HIDE DEF B, N
  <2>2. [k \in 0 .. N |-> IF k = 0 THEN <<>> ELSE g[k - 1] \o Whole(cs[k])]
          = [k \in 0 .. N |-> IF k = 0 THEN <<>> ELSE g[k - 1] \o B[k]]
    BY <2>1
  <2> QED BY <2>2 DEF Assembles
<1>3. N \in Nat
  OBVIOUS
<1>4. \E g : Assembles(g, B, N) /\ \A n : Texts(cs, n) = g[n]
  <2> HIDE DEF N, B, IsTexts
  <2> QED BY <1>1, <1>2, <1>3, Assembled
<1> QED BY <1>4

LEMMA TextsNext ==
    ASSUME NEW cs \in Seq(LoggedCall)
    PROVE  /\ Texts(cs, 0) = <<>>
           /\ \A n \in 1 .. Len(cs) : Texts(cs, n) = Texts(cs, n - 1) \o Whole(cs[n])
           /\ \A n \in 0 .. Len(cs) :
                 (\A k \in 1 .. n : Matches(cs[k])) => Texts(cs, n) \in Seq(STRING)
<1> DEFINE B == [i \in 1 .. Len(cs) |-> Whole(cs[i])]
<1>1. PICK g : Assembles(g, B, Len(cs)) /\ \A n : Texts(cs, n) = g[n]
  BY TextsAre
<1>2. \A i \in 1 .. Len(cs) : B[i] = Whole(cs[i])
  OBVIOUS
<1>3. Len(cs) \in Nat
  OBVIOUS
<1> HIDE DEF B
<1>4. g[0] = <<>> /\ \A n \in 1 .. Len(cs) : g[n] = g[n - 1] \o B[n]
  BY <1>1, <1>3, Rounds
<1>5. ASSUME NEW n \in 0 .. Len(cs), \A k \in 1 .. n : Matches(cs[k])
      PROVE  Texts(cs, n) \in Seq(STRING)
  <2>1. ASSUME NEW i \in 1 .. n PROVE B[i] \in Seq(STRING)
    <3>1. i \in 1 .. Len(cs)
      BY <1>3
    <3>2. cs[i] \in LoggedCall
      BY <3>1
    <3>3. cs[i].format \in Seq(STRING) /\ cs[i].values \in Seq(Seq(STRING))
      BY <3>2, CallParts
    <3>4. Valued(cs[i].format, Len(cs[i].format)) <= Len(cs[i].values)
      <4>1. Valued(cs[i].format, Len(cs[i].format)) = Len(cs[i].values)
        BY <1>5 DEF Matches
      <4>2. Len(cs[i].values) \in Nat
        BY <3>3
      <4> QED BY <4>1, <4>2
    <3>5. Len(cs[i].format) \in 0 .. Len(cs[i].format)
      BY <3>3
    <3>6. Whole(cs[i]) \in Seq(STRING)
      BY <3>3, <3>4, <3>5, TextNext DEF Whole
    <3> QED BY <1>2, <3>1, <3>6
  <2> QED BY <1>1, <1>3, <2>1, MakesText
<1> QED BY <1>1, <1>2, <1>4, <1>5

\* A new call changes nothing of the texts of those before it.
LEMMA TextsStay ==
    ASSUME NEW cs \in Seq(LoggedCall), NEW c \in LoggedCall, NEW n \in 0 .. Len(cs)
    PROVE  Texts(Append(cs, c), n) = Texts(cs, n)
<1> DEFINE ds == Append(cs, c)
           B == [i \in 1 .. Len(cs) |-> Whole(cs[i])]
           C == [i \in 1 .. Len(ds) |-> Whole(ds[i])]
<1>1. ds \in Seq(LoggedCall) /\ Len(ds) = Len(cs) + 1 /\ Len(cs) \in Nat
      /\ \A i \in 1 .. Len(cs) : ds[i] = cs[i]
  OBVIOUS
<1> HIDE DEF ds
<1>2. PICK f : Assembles(f, B, Len(cs)) /\ \A k : Texts(cs, k) = f[k]
  BY TextsAre
<1>3. PICK g : Assembles(g, C, Len(ds)) /\ \A k : Texts(ds, k) = g[k]
  BY <1>1, TextsAre
<1>4. \A i \in 1 .. n : B[i] = C[i]
  <2>1. \A i \in 1 .. n : i \in 1 .. Len(cs) /\ i \in 1 .. Len(ds)
    BY <1>1
  <2> QED BY <1>1, <2>1
<1> HIDE DEF B, C
<1>5. n <= Len(ds) /\ Len(ds) \in Nat
  BY <1>1
<1>6. f[n] = g[n]
  BY <1>1, <1>2, <1>3, <1>4, <1>5, SameRounds
<1> QED BY <1>2, <1>3, <1>6 DEF ds

----------------------------------------------------------------------------
(***************************************************************************)
(* log().                                                                  *)
(***************************************************************************)

\* A call of log() at the head of its loop: n places of the format are done,
\* their values taken, and the next '%', if there is one, is the first of two
\* or alone.
InCall(f, v, n) ==
    /\ s = SubSeq(f, n + 1, Len(f))
    /\ Valued(f, n) <= Len(v)
    /\ values = SubSeq(v, Valued(f, n) + 1, Len(v))
    /\ n < Len(f) /\ f[n + 1] = "%" => ~Odd(Percents(f, n))
    /\ queue = Texts(calls, Len(calls) - 1) \o Text(f, v, n)

TextInv ==
    /\ RendersFormat
    /\ opc = "log" => LET c == calls[Len(calls)]
                      IN  calls # <<>> /\ \E n \in 0 .. Len(c.format) : InCall(c.format, c.values, n)

\* What a call, and its format, is at a place.
LEMMA Here ==
    ASSUME NEW f \in Seq(STRING), NEW v \in Seq(Seq(STRING)), NEW n \in 0 .. Len(f),
           InCall(f, v, n)
    PROVE  /\ s = <<>> <=> n = Len(f)
           /\ values = <<>> <=> Valued(f, n) = Len(v)
           /\ s # <<>> => /\ Head(s) = f[n + 1] /\ Tail(s) = SubSeq(f, n + 2, Len(f))
                          /\ Escapes <=> n + 2 <= Len(f) /\ f[n + 2] = "%"
                          /\ Len(s) > 1 => /\ s[2] = f[n + 2]
                                           /\ Tail(Tail(s)) = SubSeq(f, n + 3, Len(f))
           /\ values # <<>> => /\ Head(values) = v[Valued(f, n) + 1]
                               /\ Tail(values) = SubSeq(v, Valued(f, n) + 2, Len(v))
           /\ Text(f, v, n) \in Seq(STRING)
<1> DEFINE k == Valued(f, n)
<1>1. /\ Len(f) \in Nat /\ Len(v) \in Nat /\ k \in Nat /\ k <= Len(v)
      /\ s = SubSeq(f, n + 1, Len(f)) /\ values = SubSeq(v, k + 1, Len(v))
  BY ValuedNext DEF InCall
<1>2. Text(f, v, n) \in Seq(STRING)
  BY TextNext DEF InCall
<1> HIDE DEF k
<1>0. Len(<<>>) = 0
  BY EmptySeq
<1>3. n = Len(f) => s = <<>>
  BY <1>1, SubSeqEmpty
<1>4. ASSUME n # Len(f)
      PROVE  /\ s # <<>> /\ Head(s) = f[n + 1] /\ Tail(s) = SubSeq(f, n + 2, Len(f))
             /\ Len(s) = Len(f) - n
  <2>1. n + 1 \in 1 .. Len(f) /\ Len(f) \in n + 1 .. Len(f) /\ n + 1 + 1 = n + 2
    BY <1>1, <1>4
  <2>2. Head(s) = f[n + 1] /\ Tail(s) = SubSeq(f, n + 1 + 1, Len(f))
    BY <1>1, <2>1, HeadTailOfSubSeq
  <2>3. Len(s) = Len(f) - n
    BY <1>1, <2>1
  <2>4. s # <<>>
    <3>1. Len(s) # 0
      BY <1>1, <1>4, <2>3
    <3> QED BY <1>0, <3>1
  <2> QED BY <2>1, <2>2, <2>3, <2>4
<1>5. ASSUME n # Len(f), Len(s) > 1
      PROVE  s[2] = f[n + 2] /\ Tail(Tail(s)) = SubSeq(f, n + 3, Len(f))
  <2>1. n + 2 \in 1 .. Len(f) /\ Len(f) \in n + 2 .. Len(f) /\ n + 2 + 1 = n + 3
    BY <1>1, <1>4, <1>5
  <2>2. Tail(SubSeq(f, n + 2, Len(f))) = SubSeq(f, n + 2 + 1, Len(f))
    BY <2>1, HeadTailOfSubSeq
  <2>3. s[2] = f[n + 2]
    BY <1>1, <2>1
  <2> QED BY <1>4, <1>5, <2>1, <2>2, <2>3
<1>6. s # <<>> => (Escapes <=> n + 2 <= Len(f) /\ f[n + 2] = "%")
  <2>1. CASE n = Len(f)
    BY <1>3, <2>1
  <2>2. CASE n # Len(f)
    <3>1. Len(s) > 1 <=> n + 2 <= Len(f)
      BY <1>1, <1>4, <2>2
    <3> QED BY <1>5, <2>2, <3>1 DEF Escapes
  <2> QED BY <2>1, <2>2
<1>7. values = <<>> <=> k = Len(v)
  <2>1. Len(values) = Len(v) - k
    BY <1>1
  <2>2. values \in Seq(Seq(STRING))
    BY <1>1
  <2>3. k = Len(v) => values = <<>>
    BY <1>1, SubSeqEmpty
  <2>4. k # Len(v) => Len(values) # 0
    BY <1>1, <2>1
  <2> QED BY <1>0, <2>3, <2>4
<1>8. values # <<>> => Head(values) = v[k + 1] /\ Tail(values) = SubSeq(v, k + 2, Len(v))
  <2> SUFFICES ASSUME values # <<>>
               PROVE  Head(values) = v[k + 1] /\ Tail(values) = SubSeq(v, k + 2, Len(v))
    OBVIOUS
  <2>1. k + 1 \in 1 .. Len(v) /\ Len(v) \in k + 1 .. Len(v) /\ k + 1 + 1 = k + 2
    BY <1>1, <1>7
  <2>2. Head(values) = v[k + 1] /\ Tail(values) = SubSeq(v, k + 1 + 1, Len(v))
    BY <1>1, <2>1, HeadTailOfSubSeq
  <2> QED BY <2>1, <2>2
<1>9. s = <<>> <=> n = Len(f)
  BY <1>3, <1>4
<1>10. s # <<>> => n # Len(f)
  BY <1>9
<1>11. s # <<>> /\ Len(s) > 1 => s[2] = f[n + 2] /\ Tail(Tail(s)) = SubSeq(f, n + 3, Len(f))
  BY <1>5, <1>10
<1>12. s # <<>> => Head(s) = f[n + 1] /\ Tail(s) = SubSeq(f, n + 2, Len(f))
  BY <1>4, <1>10
<1> QED BY <1>2, <1>6, <1>7, <1>8, <1>9, <1>11, <1>12 DEF k

\* There is one place that the values of a call reach.
LEMMA ReachIs ==
    ASSUME NEW c \in LoggedCall, NEW n \in 0 .. Len(c.format),
           Valued(c.format, n) <= Len(c.values),
           n < Len(c.format) => Valued(c.format, n + 1) > Len(c.values)
    PROVE  Reach(c) = n
<1> DEFINE f == c.format
           l == Len(c.values)
           Fits(m) == /\ Valued(f, m) <= l
                      /\ m < Len(f) => Valued(f, m + 1) > l
<1>1. f \in Seq(STRING) /\ Len(f) \in Nat /\ l \in Nat
  BY CallParts
<1>2. Reach(c) = CHOOSE m \in 0 .. Len(f) : Fits(m)
  BY DEF Reach
<1>3. n \in 0 .. Len(f) /\ Fits(n)
  OBVIOUS
<1> HIDE DEF f, l
<1>4. \A m \in 0 .. Len(f) : Valued(f, m) \in Nat
  BY <1>1, ValuedNext
<1>5. \A m, k \in 0 .. Len(f) : m < k => Valued(f, m + 1) <= Valued(f, k) /\ m < Len(f)
  <2> SUFFICES ASSUME NEW m \in 0 .. Len(f), NEW k \in 0 .. Len(f), m < k
               PROVE  Valued(f, m + 1) <= Valued(f, k) /\ m < Len(f)
    OBVIOUS
  <2>1. m + 1 \in 0 .. Len(f) /\ m + 1 <= k /\ m < Len(f)
    BY <1>1
  <2> QED BY <1>1, <2>1, ValuedNext
<1>6. ASSUME NEW m \in 0 .. Len(f), Fits(m) PROVE m = n
  <2>1. ~(m < n)
    <3> SUFFICES ASSUME m < n PROVE FALSE
      OBVIOUS
    <3>1. m + 1 \in 0 .. Len(f)
      BY <1>1, <1>3
    <3> QED BY <1>1, <1>3, <1>4, <1>5, <1>6, <3>1
  <2>2. ~(n < m)
    <3> SUFFICES ASSUME n < m PROVE FALSE
      OBVIOUS
    <3>1. n + 1 \in 0 .. Len(f)
      BY <1>1, <1>3
    <3> QED BY <1>1, <1>3, <1>4, <1>5, <1>6, <3>1
  <2> QED BY <1>1, <1>3, <2>1, <2>2
<1> HIDE DEF Fits
<1> QED BY <1>2, <1>3, <1>6

LEMMA CallText == ASSUME TypeInv, TextInv, Call PROVE TextInv'
<1>1. PICK f \in Format, v \in Values :
         s' = f /\ values' = v /\ calls' = Append(calls, [format |-> f, values |-> v])
  BY DEF Call
<1> DEFINE c == [format |-> f, values |-> v]
<1>2. /\ f \in Seq(STRING) /\ v \in Seq(Seq(STRING)) /\ c \in LoggedCall
      /\ c.format = f /\ c.values = v
  BY CallAssumption DEF LoggedCall
<1> HIDE DEF c
<1>3. opc = "idle" /\ opc' = "log" /\ queue' = queue /\ calls' = Append(calls, c)
  BY <1>1 DEF Call, c
<1>4. calls \in Seq(LoggedCall) /\ Len(calls) \in Nat /\ queue \in Seq(STRING)
  BY DEF TypeInv, TypeOK
<1>5. /\ Len(calls') = Len(calls) + 1 /\ calls' # <<>> /\ calls'[Len(calls')] = c
      /\ \A k \in 1 .. Len(calls) : calls'[k] = calls[k]
  <2>1. Append(calls, c) # <<>> /\ Len(Append(calls, c)) = Len(calls) + 1
    BY <1>2, <1>4, AppendProperties
  <2>2. \A k \in 1 .. Len(calls) : Append(calls, c)[k] = calls[k]
    BY <1>4
  <2>3. Append(calls, c)[Len(calls) + 1] = c
    BY <1>4
  <2> QED BY <1>3, <2>1, <2>2, <2>3
<1>6. queue = Texts(calls, Len(calls)) /\ \A k \in 1 .. Len(calls) : Matches(calls[k])
  BY <1>3 DEF TextInv, RendersFormat
<1>7. queue' = Texts(calls', Len(calls') - 1) \o Text(f, v, 0)
  <2>1. Texts(calls', Len(calls') - 1) = queue
    <3>1. Len(calls) \in 0 .. Len(calls) /\ Len(calls') - 1 = Len(calls)
      BY <1>4, <1>5
    <3> QED BY <1>2, <1>3, <1>4, <1>6, <3>1, TextsStay
  <2>2. Text(f, v, 0) = <<>>
    BY <1>2, TextNext
  <2> QED BY <1>3, <1>4, <2>1, <2>2, ConcatEmptySeq
<1>8. InCall(f, v, 0)'
  <2>1. Valued(f, 0) = 0 /\ Percents(f, 0) = 0
    BY <1>2, ValuedNext, PercentsNext
  <2>2. s' = SubSeq(f, 0 + 1, Len(f)) /\ values' = SubSeq(v, Valued(f, 0) + 1, Len(v))
    BY <1>1, <1>2, <2>1, SubSeqFull
  <2>3. ~Odd(0) /\ 0 <= Len(v)
    BY <1>2, OddNext
  <2> QED BY <1>7, <2>1, <2>2, <2>3 DEF InCall
<1>9. 0 \in 0 .. Len(f)
  BY <1>2
<1>10. RendersFormat'
  <2>1. \A k \in 1 .. Len(calls') - 1 : Matches(calls'[k])
    BY <1>4, <1>5, <1>6
  <2>2. opc' # "exited" /\ opc' = "log"
    BY <1>3
  <2> QED BY <2>1, <2>2 DEF RendersFormat
<1> QED BY <1>2, <1>5, <1>8, <1>9, <1>10 DEF TextInv

LEMMA JoiningTexts == \A a, b, e \in Seq(STRING) : (a \o b) \o e = a \o (b \o e)
BY ConcatAssociative, SMTT(20)

\* A round of log() is one or two places of the format, or the end of the call.
LEMMA LogText == ASSUME TypeInv, TextInv, Log PROVE TextInv'
<1>1. opc = "log" /\ calls' = calls
  BY DEF Log
<1>2. PICK l \in Nat : l = Len(calls) /\ l # 0
  <2>1. calls # <<>> /\ calls \in Seq(LoggedCall)
    BY <1>1 DEF TextInv, TypeInv
  <2> QED BY <2>1, EmptySeq
<1>3. PICK c \in LoggedCall : c = calls[l]
  BY <1>2 DEF TypeInv
<1>4. PICK f \in Seq(STRING), v \in Seq(Seq(STRING)) : f = c.format /\ v = c.values
  BY CallParts
<1>5. PICK n \in 0 .. Len(f) : InCall(f, v, n)
  BY <1>1, <1>2, <1>3, <1>4 DEF TextInv
<1>6. \A i \in 1 .. l - 1 : Matches(calls[i])
  BY <1>1, <1>2 DEF TextInv, RendersFormat
<1>7. PICK before \in Seq(STRING) : before = Texts(calls, l - 1)
  <2>1. calls \in Seq(LoggedCall) /\ l - 1 \in 0 .. Len(calls)
    BY <1>2 DEF TypeInv
  <2> QED BY <1>6, <2>1, TextsNext
<1>0. Len(f) \in Nat /\ Len(v) \in Nat /\ n \in Nat /\ queue \in Seq(STRING)
  BY DEF TypeInv, TypeOK
<1> DEFINE k == Valued(f, n)
           text == Text(f, v, n)
<1>8. /\ queue = before \o text /\ k <= Len(v)
      /\ n < Len(f) /\ f[n + 1] = "%" => ~Odd(Percents(f, n))
  BY <1>2, <1>5, <1>7 DEF InCall
<1>9. k \in Nat /\ text \in Seq(STRING)
  BY <1>5, ValuedNext, Here
<1>10. /\ n < Len(f) => Text(f, v, n + 1) = text \o At(f, v, n + 1)
       /\ n + 1 < Len(f) => Text(f, v, n + 2) = Text(f, v, n + 1) \o At(f, v, n + 2)
  <2>1. n < Len(f) => n \in 0 .. Len(f) - 1
    OBVIOUS
  <2>2. n + 1 < Len(f) => n + 1 \in 0 .. Len(f) - 1 /\ (n + 1) + 1 = n + 2
    OBVIOUS
  <2> QED BY <2>1, <2>2, TextNext
<1>11. /\ n < Len(f) => Valued(f, n + 1) = k + (IF StandsForValue(f, n + 1) THEN 1 ELSE 0)
       /\ n + 1 < Len(f) =>
            Valued(f, n + 2) = Valued(f, n + 1) + (IF StandsForValue(f, n + 2) THEN 1 ELSE 0)
  <2>1. n < Len(f) => n \in 0 .. Len(f) - 1
    OBVIOUS
  <2>2. n + 1 < Len(f) => n + 1 \in 0 .. Len(f) - 1 /\ (n + 1) + 1 = n + 2
    OBVIOUS
  <2> QED BY <2>1, <2>2, ValuedNext
<1>12. /\ Percents(f, n) \in Nat
       /\ f[n + 1] # "%" => Percents(f, n + 1) = 0
       /\ f[n + 1] = "%" => Percents(f, n + 1) = Percents(f, n) + 1
       /\ f[n + 2] = "%" => Percents(f, n + 2) = Percents(f, n + 1) + 1
  <2>1. n \in Nat /\ n + 1 \in Nat /\ (n + 1) + 1 = n + 2
    OBVIOUS
  <2> QED BY <2>1, PercentsIncrease
\* What there is to show when the call goes on at place m.
<1>13. ASSUME NEW m \in 0 .. Len(f), opc' = "log",
              s' = SubSeq(f, m + 1, Len(f)), Valued(f, m) <= Len(v),
              values' = SubSeq(v, Valued(f, m) + 1, Len(v)),
              m < Len(f) /\ f[m + 1] = "%" => ~Odd(Percents(f, m)),
              queue' = before \o Text(f, v, m)
       PROVE  TextInv'
  <2>1. InCall(f, v, m)'
    BY <1>1, <1>2, <1>7, <1>13 DEF InCall
  <2>2. calls' # <<>> /\ calls'[Len(calls')] = c
    BY <1>1, <1>2, <1>3 DEF TextInv
  <2>3. RendersFormat'
    <3>1. opc' # "exited" /\ calls' = calls /\ opc' = "log"
      BY <1>1, <1>13
    <3> QED BY <1>2, <1>6, <3>1 DEF RendersFormat
  <2> QED BY <1>4, <2>1, <2>2, <2>3 DEF TextInv
<1>14. \A e \in Seq(STRING) : (before \o text) \o e = before \o (text \o e)
  <2>1. \A a, b, e \in Seq(STRING) : (a \o b) \o e = a \o (b \o e)
    BY JoiningTexts
  <2>2. before \in Seq(STRING) /\ text \in Seq(STRING)
    BY <1>7, <1>9
  <2> HIDE DEF text
  <2> QED BY <2>1, <2>2
<1>15. CASE s = <<>>
  <2>1. n = Len(f) /\ queue' = queue /\ opc' = IF values = <<>> THEN "idle" ELSE "exited"
    BY <1>5, <1>15, Here DEF Log
  <2>2. values = <<>> <=> k = Len(v)
    BY <1>5, Here
  <2>3. CASE values = <<>>
    <3>1. Matches(c)
      BY <1>4, <2>1, <2>2, <2>3 DEF Matches
    <3>2. \A j \in 1 .. l : Matches(calls[j])
      BY <1>2, <1>3, <1>6, <3>1
    <3>3. Texts(calls, l) = before \o Whole(c)
      <4>1. l \in 1 .. Len(calls) /\ calls \in Seq(LoggedCall)
        BY <1>2 DEF TypeInv
      <4> QED BY <1>3, <1>7, <4>1, TextsNext
    <3>4. queue' = Texts(calls, l)
      BY <1>4, <1>8, <2>1, <3>3 DEF Whole
    <3> QED BY <1>1, <2>1, <2>3, <3>2, <1>2, <3>4 DEF TextInv, RendersFormat
  <2>4. CASE values # <<>>
    <3>1. ~Matches(c)
      BY <1>4, <1>8, <2>1, <2>2, <2>4 DEF Matches
    <3>2. Reach(c) = n
      BY <1>4, <1>8, <2>1, ReachIs
    <3>3. queue' = before \o Text(f, v, Reach(c))
      BY <1>8, <2>1, <3>2
    <3> QED BY <1>1, <2>1, <2>4, <3>1, <1>2, <1>3, <1>4, <1>7, <3>3 DEF TextInv, RendersFormat
  <2> QED BY <2>3, <2>4
<1>16. CASE s # <<>>
  <2>1. /\ n < Len(f) /\ Head(s) = f[n + 1] /\ Tail(s) = SubSeq(f, n + 2, Len(f))
        /\ n + 1 \in 0 .. Len(f) /\ f[n + 1] \in STRING
        /\ Escapes <=> n + 2 <= Len(f) /\ f[n + 2] = "%"
    <3>1. n # Len(f)
      BY <1>5, <1>16, Here
    <3>2. n < Len(f) /\ n + 1 \in 0 .. Len(f) /\ n + 1 \in 1 .. Len(f)
      BY <1>0, <3>1
    <3>3. f[n + 1] \in STRING
      BY <3>2
    <3> QED BY <1>5, <1>16, <3>2, <3>3, Here
  <2>2. CASE f[n + 1] # "%"
    <3>1. ~Placeholder /\ queue' = Append(queue, f[n + 1]) /\ s' = Tail(s)
          /\ values' = values /\ opc' = opc
      BY <1>16, <2>1, <2>2 DEF Log, Placeholder, PushCharacter
    <3>2. ~StandsForValue(f, n + 1) /\ Literal(f, n + 1) /\ ~Odd(Percents(f, n + 1))
      BY <1>12, <2>2, OddNext DEF StandsForValue, Literal
    <3>3. Valued(f, n + 1) = k
      BY <1>9, <1>11, <2>1, <3>2
    <3>4. queue' = before \o Text(f, v, n + 1)
      <4>1. <<f[n + 1]>> \in Seq(STRING) /\ At(f, v, n + 1) = <<f[n + 1]>>
        BY <2>1, <3>2 DEF At
      <4>2. Append(queue, f[n + 1]) = queue \o <<f[n + 1]>>
        BY <1>0, <2>1, AppendIsConcat
      <4> QED BY <1>8, <1>10, <1>14, <2>1, <3>1, <4>1, <4>2
    <3>5. values' = SubSeq(v, Valued(f, n + 1) + 1, Len(v)) /\ s' = SubSeq(f, (n + 1) + 1, Len(f))
      <4>1. (n + 1) + 1 = n + 2
        OBVIOUS
      <4> QED BY <1>5, <2>1, <3>1, <3>3, <4>1 DEF InCall
    <3>6. opc' = "log"
      BY <1>1, <3>1
    <3> QED BY <1>8, <1>13, <2>1, <3>2, <3>3, <3>4, <3>5, <3>6
  <2>3. CASE f[n + 1] = "%" /\ Escapes
    <3>1. n + 2 \in 0 .. Len(f) /\ n + 2 \in 1 .. Len(f) /\ f[n + 2] = "%" /\ n + 1 < Len(f)
      BY <2>1, <2>3
    <3>2. /\ ~Placeholder /\ Len(s) > 1 /\ queue' = Append(queue, f[n + 2])
          /\ s' = SubSeq(f, n + 3, Len(f)) /\ values' = values /\ opc' = opc
      <4>1. ~Placeholder /\ Len(s) > 1
        BY <2>3 DEF Placeholder, Escapes
      <4>2. s[2] = f[n + 2] /\ Tail(Tail(s)) = SubSeq(f, n + 3, Len(f))
        BY <1>5, <1>16, <4>1, Here
      <4> QED BY <1>16, <2>1, <2>3, <4>1, <4>2 DEF Log, PushCharacter
    <3>3. ~Odd(Percents(f, n)) /\ Odd(Percents(f, n + 1)) /\ ~Odd(Percents(f, n + 2))
      <4>1. Percents(f, n + 1) \in Nat
        BY <1>12, <2>3
      <4> QED BY <1>8, <1>12, <2>1, <2>3, <3>1, <4>1, OddNext
    <3>4. /\ ~StandsForValue(f, n + 1) /\ ~Literal(f, n + 1)
          /\ ~StandsForValue(f, n + 2) /\ Literal(f, n + 2)
      <4>1. n + 1 # Len(f) /\ (n + 1) + 1 = n + 2
        BY <3>1
      <4> QED BY <3>1, <3>3, <4>1 DEF StandsForValue, Literal
    <3>5. Valued(f, n + 2) = k
      BY <1>9, <1>11, <2>1, <3>1, <3>4
    <3>6. queue' = before \o Text(f, v, n + 2)
      <4>1. f[n + 2] \in STRING
        BY <3>1
      <4>2. /\ <<f[n + 2]>> \in Seq(STRING)
            /\ At(f, v, n + 1) = <<>> /\ At(f, v, n + 2) = <<f[n + 2]>>
        BY <3>4, <4>1 DEF At
      <4>3. Text(f, v, n + 1) = text
        BY <1>9, <1>10, <2>1, <4>2, ConcatEmptySeq
      <4>4. Append(queue, f[n + 2]) = queue \o <<f[n + 2]>>
        BY <1>0, <4>1, AppendIsConcat
      <4> QED BY <1>8, <1>10, <1>14, <3>1, <3>2, <4>2, <4>3, <4>4
    <3>7. values' = SubSeq(v, Valued(f, n + 2) + 1, Len(v)) /\ s' = SubSeq(f, (n + 2) + 1, Len(f))
      <4>1. (n + 2) + 1 = n + 3
        OBVIOUS
      <4> QED BY <1>5, <3>2, <3>5, <4>1 DEF InCall
    <3>8. opc' = "log"
      BY <1>1, <3>2
    <3> QED BY <1>8, <1>13, <3>1, <3>3, <3>5, <3>6, <3>7, <3>8
  <2>4. CASE f[n + 1] = "%" /\ ~Escapes
    <3>1. Placeholder
      BY <1>16, <2>1, <2>4 DEF Placeholder
    <3>2. ~Odd(Percents(f, n)) /\ Odd(Percents(f, n + 1))
      BY <1>8, <1>12, <2>1, <2>4, OddNext
    <3>3. StandsForValue(f, n + 1) /\ ~Literal(f, n + 1)
      <4>1. n + 1 = Len(f) \/ n + 2 <= Len(f)
        BY <2>1
      <4>2. n + 1 = Len(f) \/ f[(n + 1) + 1] # "%"
        <5>1. (n + 1) + 1 = n + 2
          OBVIOUS
        <5> QED BY <2>1, <2>4, <4>1, <5>1
      <4> QED BY <3>2, <4>2 DEF StandsForValue, Literal
    <3>4. Valued(f, n + 1) = k + 1
      BY <1>11, <2>1, <3>3
    <3>5. CASE values = <<>>
      <4>1. k = Len(v) /\ opc' = "exited" /\ queue' = queue
        BY <1>5, <1>16, <3>1, <3>5, Here DEF Log, PushValue
      <4>2. ~Matches(c)
        <5>1. Valued(f, n + 1) <= Valued(f, Len(f)) /\ Valued(f, Len(f)) \in Nat
          BY <2>1, ValuedNext
        <5> QED BY <1>4, <1>9, <3>4, <4>1, <5>1 DEF Matches
      <4>3. Reach(c) = n
        <5>1. Valued(f, n + 1) > Len(v)
          BY <1>9, <3>4, <4>1
        <5> QED BY <1>4, <1>8, <5>1, ReachIs
      <4>4. queue' = before \o Text(f, v, Reach(c))
        BY <1>8, <4>1, <4>3
      <4> QED BY <1>1, <4>1, <4>2, <1>2, <1>3, <1>4, <1>7, <4>4 DEF TextInv, RendersFormat
    <3>6. CASE values # <<>>
      <4>1. /\ queue' = queue \o Head(values) /\ s' = Tail(s) /\ values' = Tail(values)
            /\ opc' = opc
        BY <1>16, <3>1, <3>6 DEF Log, PushValue
      <4>2. k # Len(v) /\ Head(values) = v[k + 1] /\ Tail(values) = SubSeq(v, k + 2, Len(v))
        BY <1>5, <3>6, Here
      <4>3. k + 1 \in 1 .. Len(v)
        <5>1. k <= Len(v) /\ k # Len(v) /\ k \in Nat /\ Len(v) \in Nat
          BY <1>0, <1>8, <1>9, <4>2
        <5> HIDE DEF k
        <5> QED BY <5>1
      <4>4. v[k + 1] \in Seq(STRING) /\ At(f, v, n + 1) = v[k + 1]
        BY <3>3, <3>4, <4>3 DEF At
      <4>5. queue' = before \o Text(f, v, n + 1)
        BY <1>8, <1>10, <1>14, <2>1, <4>1, <4>2, <4>4
      <4>6. values' = SubSeq(v, Valued(f, n + 1) + 1, Len(v)) /\ s' = SubSeq(f, (n + 1) + 1, Len(f))
        <5>1. (n + 1) + 1 = n + 2 /\ (k + 1) + 1 = k + 2
          BY <1>9
        <5> QED BY <2>1, <3>4, <4>1, <4>2, <5>1
      <4>7. ~(n + 1 < Len(f) /\ f[(n + 1) + 1] = "%")
        <5>1. (n + 1) + 1 = n + 2
          OBVIOUS
        <5> QED BY <2>1, <2>4, <5>1
      <4>8. opc' = "log" /\ Valued(f, n + 1) <= Len(v)
        BY <1>1, <3>4, <4>1, <4>3
      <4> QED BY <1>13, <2>1, <4>5, <4>6, <4>7, <4>8
    <3> QED BY <3>5, <3>6
  <2> QED BY <2>2, <2>3, <2>4
<1> QED BY <1>15, <1>16

\* log() puts the values in the places of the '%' that are not doubled, whatever
\* the format and however the elements of several calls follow each other; and
\* it ends the process exactly when the values do not match the format.
THEOREM FormatIsRendered == Spec => []RendersFormat
<1>1. Init => TextInv
  <2> SUFFICES ASSUME Init PROVE TextInv
    OBVIOUS
  <2>1. calls = <<>> /\ queue = <<>> /\ opc = "idle"
    BY DEF Init
  <2>2. <<>> \in Seq(LoggedCall) /\ Len(<<>>) = 0
    BY EmptySeq
  <2>3. Texts(<<>>, 0) = <<>>
    BY <2>2, TextsNext
  <2> QED BY <2>1, <2>2, <2>3 DEF TextInv, RendersFormat
<1>2. TypeInv /\ TextInv /\ [Next]_vars => TextInv'
  <2> SUFFICES ASSUME TypeInv, TextInv, [Next]_vars PROVE TextInv'
    OBVIOUS
  <2>1. ASSUME UNCHANGED <<queue, s, values, calls>>,
               \/ opc' = opc
               \/ opc \in {"idle", "joining"} /\ opc' \in {"joining", "closed"}
        PROVE  TextInv'
    BY <2>1 DEF TextInv, RendersFormat, InCall
  <2>2. CASE Thread
    BY <2>1, <2>2 DEF Thread, Test, Write, Flush, argumentVars
  <2>3. CASE Destroy
    BY <2>1, <2>3 DEF Destroy, argumentVars
  <2>4. CASE Close
    BY <2>1, <2>4 DEF Close, argumentVars
  <2>5. CASE UNCHANGED vars
    BY <2>1, <2>5 DEF vars, argumentVars
  <2> QED BY <2>2, <2>3, <2>4, <2>5, CallText, LogText DEF Next
<1>3. TextInv => RendersFormat
  BY DEF TextInv
<1> QED BY <1>1, <1>2, <1>3, TypeInvariant, PTL DEF Spec

=============================================================================
