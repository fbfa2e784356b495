------------------------------- MODULE Logger -------------------------------
(***************************************************************************)
(* Common::Logger (src/common/logging.h): log() takes a format and values  *)
(* apart into elements and pushes them into queue_; a thread of the logger *)
(* writes them to the file every 10 ms; the destructor stops that thread   *)
(* and closes the file.                                                    *)
(*                                                                         *)
(* The queue is the list of what was pushed and the number of elements     *)
(* taken from it (LFQueue is a FIFO channel).  A format is a sequence of   *)
(* characters, of which only "%" differs from the others; a value is the   *)
(* sequence of the elements pushValue() pushes for it: one for a number,   *)
(* one per character for a string.  The thread that logs is the one that   *)
(* destroys the logger, between two calls.  FATAL ends the process.        *)
(***************************************************************************)
EXTENDS Integers, Sequences, FiniteSets

CONSTANTS Format,           \* formats log() is called with
          Values,           \* and lists of values
          MaxCalls          \* bound on the calls

ASSUME CallAssumption == /\ \A s \in Format : s \in Seq(STRING)
                         /\ \A v \in Values : v \in Seq(Seq(STRING))
                         /\ MaxCalls \in Nat

VARIABLES queue,            \* history: the elements pushed into queue_
          taken,            \* how many of them the thread has written to file_
          flushed,          \* how many of them are on the disk
          running_,
          tpc,              \* where the logger's thread is
          opc,              \* where its owner is
          s, values,        \* what the call of log() has left of its arguments
          looked,           \* history: the length of queue when the thread last saw running_
          calls             \* history: the calls of log()

threadVars == <<taken, flushed, tpc, looked>>
argumentVars == <<s, values>>
vars == <<queue, threadVars, running_, opc, argumentVars, calls>>

Init == /\ queue = <<>> /\ taken = 0 /\ flushed = 0
        /\ running_ = TRUE /\ tpc = "test" /\ opc = "idle"
        /\ s = <<>> /\ values = <<>> /\ looked = 0 /\ calls = <<>>

(***************************************************************************)
(* log().                                                                  *)
(***************************************************************************)

Call == /\ opc = "idle" /\ Len(calls) < MaxCalls
        /\ \E f \in Format, v \in Values :
              /\ s' = f /\ values' = v
              /\ calls' = Append(calls, [format |-> f, values |-> v])
        /\ opc' = "log"
        /\ UNCHANGED <<queue, threadVars, running_>>

\* The '%' at the head of s stands for a character of the text.
Escapes == Len(s) > 1 /\ s[2] = "%"

PushCharacter(character, rest) ==
    /\ queue' = Append(queue, character) /\ s' = rest
    /\ UNCHANGED <<values, opc>>

\* A placeholder, in either of the two log(): the one without values exits.
PushValue == IF values = <<>>
             THEN opc' = "exited" /\ UNCHANGED <<queue, argumentVars>>
             ELSE /\ queue' = queue \o Head(values)
                  /\ s' = Tail(s) /\ values' = Tail(values)
                  /\ UNCHANGED opc

\* Placeholder without the test for the second '%'.
AnyPercent == s # <<>> /\ Head(s) = "%"

Placeholder == s # <<>> /\ Head(s) = "%" /\ ~Escapes

\* One round of while(*s), or what follows it.
Log == /\ opc = "log"
       /\ IF s = <<>>
          THEN /\ opc' = IF values = <<>> THEN "idle" ELSE "exited"
               /\ UNCHANGED <<queue, argumentVars>>
          ELSE IF Placeholder THEN PushValue
          ELSE IF Head(s) = "%" THEN PushCharacter(s[2], Tail(Tail(s)))
          ELSE PushCharacter(Head(s), Tail(s))
       /\ UNCHANGED <<threadVars, running_, calls>>

(***************************************************************************)
(* flushQueue().                                                           *)
(***************************************************************************)

Alive == opc # "exited"

\* while (running_), after the sleep.
Test == /\ Alive /\ tpc = "test"
        /\ IF running_ THEN tpc' = "drain" /\ looked' = Len(queue)
                       ELSE tpc' = "done" /\ UNCHANGED looked
        /\ UNCHANGED <<queue, taken, flushed, running_, opc, argumentVars, calls>>

\* One round of the inner loop.  The file's buffer goes to the disk when full.
Write == /\ Alive /\ tpc = "drain" /\ taken < Len(queue)
         /\ taken' = taken + 1 /\ flushed' \in {flushed, taken}
         /\ UNCHANGED <<queue, tpc, looked, running_, opc, argumentVars, calls>>

\* Flush without file_.flush().
FlushForgotten == /\ Alive /\ tpc = "drain" /\ taken = Len(queue)
                  /\ tpc' = "test"
                  /\ UNCHANGED <<queue, taken, flushed, looked, running_, opc, argumentVars, calls>>

\* The queue is found empty.
Flush == /\ Alive /\ tpc = "drain" /\ taken = Len(queue)
         /\ flushed' = taken /\ tpc' = "test"
         /\ UNCHANGED <<queue, taken, looked, running_, opc, argumentVars, calls>>

Thread == Test \/ Write \/ Flush

(***************************************************************************)
(* The destructor.                                                         *)
(***************************************************************************)

Destroy == /\ opc = "idle" /\ running_' = FALSE /\ opc' = "joining"
           /\ UNCHANGED <<queue, threadVars, argumentVars, calls>>

\* Close that does not wait for the thread.
CloseAtOnce == /\ opc = "joining"
               /\ flushed' = taken /\ opc' = "closed"
               /\ UNCHANGED <<queue, taken, tpc, looked, running_, argumentVars, calls>>

\* join() returns, and file_.close().
Close == /\ opc = "joining" /\ tpc = "done"
         /\ flushed' = taken /\ opc' = "closed"
         /\ UNCHANGED <<queue, taken, tpc, looked, running_, argumentVars, calls>>

Next == Call \/ Log \/ Thread \/ Destroy \/ Close

\* The thread wakes up and writes; a call of log(), and the destructor, go on.
Spec == Init /\ [][Next]_vars /\ WF_vars(Thread) /\ WF_vars(Log) /\ WF_vars(Close)

----------------------------------------------------------------------------
(***************************************************************************)
(* Properties.                                                             *)
(***************************************************************************)

\* The variables have the types of the members.
TypeOK == /\ queue \in Seq(STRING) /\ s \in Seq(STRING)
          /\ taken \in 0 .. Len(queue) /\ flushed \in 0 .. taken
          /\ looked \in 0 .. Len(queue) /\ running_ \in BOOLEAN
          /\ tpc \in {"test", "drain", "done"}
          /\ opc \in {"idle", "log", "joining", "closed", "exited"}

\* What the format says at each place.  In a run of '%' the first, third, ...
\* take the next one literally, or stand for a value when they are its last.
Percents(f, i) ==       \* how many '%' end at place i
    CHOOSE n \in 0 .. i : /\ \A k \in i - n + 1 .. i : f[k] = "%"
                          /\ n < i => f[i - n] # "%"
Odd(n) == n % 2 = 1
Literal(f, i) == ~Odd(Percents(f, i))
StandsForValue(f, i) == /\ Odd(Percents(f, i))
                        /\ i = Len(f) \/ f[i + 1] # "%"
Placeholders(f) == {i \in DOMAIN f : StandsForValue(f, i)}

\* How many of its first n places do.
Valued(f, n) == Cardinality({k \in Placeholders(f) : k <= n})

\* The text of the first n places of a format.
Text(f, v, n) ==
    LET at(i) == IF Literal(f, i) THEN <<f[i]>>
                 ELSE IF StandsForValue(f, i) THEN v[Valued(f, i)] ELSE <<>>
        upTo[k \in 0 .. Len(f)] == IF k = 0 THEN <<>> ELSE upTo[k - 1] \o at(k)
    IN  upTo[n]

\* A call has as many values as its format has places for them.
Matches(c) == Valued(c.format, Len(c.format)) = Len(c.values)

\* How far the values of a call reach: to the end, or to the first place that
\* has none.
Reach(c) == CHOOSE n \in 0 .. Len(c.format) :
               /\ Valued(c.format, n) <= Len(c.values)
               /\ n < Len(c.format) => Valued(c.format, n + 1) > Len(c.values)

\* The texts of the first n of some calls.
Texts(cs, n) ==
    LET whole(c) == Text(c.format, c.values, Len(c.format))
        upTo[k \in 0 .. Len(cs)] == IF k = 0 THEN <<>> ELSE upTo[k - 1] \o whole(cs[k])
    IN  upTo[n]

\* Of every call, log() pushes the text with the values in the place of the
\* '%' that are not doubled; it ends the process if and only if there are not
\* as many of them as values, and then has pushed what comes before the first
\* one that has no value.
RendersFormat ==
    LET last == calls[Len(calls)]
        ended == IF opc = "log" THEN Len(calls) - 1 ELSE Len(calls)
    IN  IF opc = "exited"
        THEN /\ ~Matches(last)
             /\ queue = Texts(calls, Len(calls) - 1) \o Text(last.format, last.values, Reach(last))
        ELSE /\ \A k \in 1 .. ended : Matches(calls[k])
             /\ opc # "log" => queue = Texts(calls, ended)

\* When the logger is destroyed, the file has all that was logged before its
\* thread last saw it running; what was logged in the 10 ms that the thread
\* slept after that is lost.
LosesOnlyTheTail == opc = "closed" => flushed >= looked

\* While the logger lives, what is logged gets to the disk, even if nothing is
\* logged after it (the first elements stand for all).
EverythingIsWritten ==
    \A n \in 1 .. 2 * MaxCalls :
       Len(queue) >= n ~> flushed >= n \/ ~running_ \/ opc = "exited"

=============================================================================
