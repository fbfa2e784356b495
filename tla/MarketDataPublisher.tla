------------------------ MODULE MarketDataPublisher ------------------------
(***************************************************************************)
(* Exchange::MarketDataPublisher                                           *)
(* (src/exchange/market_data/market_data_publisher.{h,cpp}): its thread    *)
(* takes the updates of the matching engine from outgoing_md_updates_,     *)
(* numbers them, multicasts them and hands them on to the snapshot         *)
(* synthesizer's queue.                                                    *)
(*                                                                         *)
(* outgoing_md_updates_ is an LFQueue, statement by statement: the engine  *)
(* is its producer, and this thread does its own work between the pops.    *)
(* The k-th update of the engine is the number k.  The thread's order of   *)
(* statements matters in one place: it copies the update for the snapshot  *)
(* from the slot of the ring after it has released the slot.               *)
(*                                                                         *)
(* A record in the socket's buffer is the number and the first             *)
(* sizeof(pointer) = 8 bytes of the update; the model names the update     *)
(* they were read from.  snapshot_md_updates_ is what was pushed there, by *)
(* assignment and so whole: nobody reads it, because nothing in src/       *)
(* starts the synthesizer.  An ASSERT that fails ends the process: mpc     *)
(* "exited".                                                               *)
(***************************************************************************)
EXTENDS Integers, Sequences

CONSTANTS Size, MaxBacklog, MaxWrites,  \* of outgoing_md_updates_, see LFQueue
          BufferRecords                 \* McastBufferSize, in records of 16 bytes

ASSUME QueueAssumption == Size \in Nat \ {0} /\ MaxBacklog \in Nat /\ MaxWrites \in Nat
ASSUME BufferAssumption == BufferRecords \in Nat \ {0}

VARIABLES store, next_write_index, next_read_index, num_elements,
          ppc, cpc, written, reads,     \* outgoing_md_updates_, see LFQueue
          mpc,                          \* where the publisher's thread is
          run,                          \* run_
          market_update,                \* the pointer run() works with: a slot
          next_inc_seq_num,             \* next_inc_seq_num_
          outbound,                     \* records in outbound_data_
          sent,                         \* history: the records given to ::send, in order
          snapshot_md_updates           \* history: what was pushed for the synthesizer

Queue == INSTANCE LFQueue

queueVars == <<store, next_write_index, next_read_index, num_elements, ppc, cpc, written, reads>>
socketVars == <<outbound, sent>>
vars == <<queueVars, mpc, run, market_update, next_inc_seq_num, socketVars, snapshot_md_updates>>

Record(seq, update) == [seq |-> seq, update |-> update]

Init == /\ Queue!Init
        /\ mpc = "new" /\ run = FALSE
        /\ market_update = 0 /\ next_inc_seq_num = 1
        /\ outbound = <<>> /\ sent = <<>> /\ snapshot_md_updates = <<>>

\* The constructor and start().  createSocket() hands connect()'s result to
\* ASSERT as the condition, and connect() returns 0 when it succeeds: the
\* process ends then, and otherwise goes on with an unconnected socket.
Start == /\ mpc = "new"
         /\ \E connected \in BOOLEAN :
              IF connected THEN mpc' = "exited" /\ UNCHANGED run
                           ELSE mpc' = "loop" /\ run' = TRUE
         /\ UNCHANGED <<queueVars, market_update, next_inc_seq_num, socketVars,
                        snapshot_md_updates>>

\* stop(), by the main thread.
Stop == /\ run
        /\ run' = FALSE
        /\ UNCHANGED <<queueVars, mpc, market_update, next_inc_seq_num, socketVars,
                       snapshot_md_updates>>

\* The engine pushes an update.
Push == /\ mpc # "exited"
        /\ Queue!BeginFill \/ Queue!FinishPush
        /\ UNCHANGED <<mpc, run, market_update, next_inc_seq_num, socketVars,
                       snapshot_md_updates>>

(***************************************************************************)
(* run().                                                                  *)
(***************************************************************************)

\* while (run_)
Loop == /\ mpc = "loop"
        /\ mpc' = IF run THEN "drain" ELSE "stopped"
        /\ UNCHANGED <<queueVars, run, market_update, next_inc_seq_num, socketVars,
                       snapshot_md_updates>>

\* The inner loop's getNextToRead(): a pointer to the slot.
TakeNext == /\ mpc = "drain"
            /\ Queue!Peek
            /\ market_update' = next_read_index
            /\ mpc' = "send"
            /\ UNCHANGED <<run, next_inc_seq_num, socketVars, snapshot_md_updates>>

\* The number and 8 bytes of the update go to outbound_data_; the ASSERT of
\* send() ends the process when the buffer is full.
Send == /\ mpc = "send"
        /\ outbound' = Append(outbound, Record(next_inc_seq_num, store[market_update]))
        /\ mpc' = IF Len(outbound) + 1 < BufferRecords THEN "release" ELSE "exited"
        /\ UNCHANGED <<queueVars, run, market_update, next_inc_seq_num, sent,
                       snapshot_md_updates>>

\* updateReadIndex(), its two statements; the slot is the engine's again.
Release == /\ mpc = "release"
           /\ \/ Queue!AdvanceRead /\ UNCHANGED mpc
              \/ Queue!CountRead /\ mpc' = IF cpc' = "failed" THEN "exited" ELSE "copy"
           /\ UNCHANGED <<run, market_update, next_inc_seq_num, socketVars,
                          snapshot_md_updates>>

\* Copy through a pointer that is taken anew after the release.
CopyNext == /\ mpc = "copy"
            /\ snapshot_md_updates' =
                 Append(snapshot_md_updates, Record(next_inc_seq_num, store[next_read_index]))
            /\ next_inc_seq_num' = next_inc_seq_num + 1
            /\ mpc' = "drain"
            /\ UNCHANGED <<queueVars, run, market_update, socketVars>>

\* The snapshot queue's push, from the slot that was released, and ++.
Copy == /\ mpc = "copy"
        /\ snapshot_md_updates' =
             Append(snapshot_md_updates, Record(next_inc_seq_num, store[market_update]))
        /\ next_inc_seq_num' = next_inc_seq_num + 1
        /\ mpc' = "drain"
        /\ UNCHANGED <<queueVars, run, market_update, socketVars>>

\* SendAndRecv that keeps what it has given to ::send in its buffer.
SendAndRecvKeeps ==
    /\ mpc = "drain" /\ num_elements = 0
    /\ sent' = sent \o outbound
    /\ mpc' = "loop"
    /\ UNCHANGED <<queueVars, run, market_update, next_inc_seq_num, outbound,
                   snapshot_md_updates>>

\* SendAndRecv that waits for a second record before it gives any to ::send.
SendAndRecvBatches ==
    /\ mpc = "drain" /\ num_elements = 0
    /\ IF Len(outbound) < 2 THEN UNCHANGED socketVars
       ELSE sent' = sent \o outbound /\ outbound' = <<>>
    /\ mpc' = "loop"
    /\ UNCHANGED <<queueVars, run, market_update, next_inc_seq_num, snapshot_md_updates>>

\* The queue is found empty: sendAndRecv() gives the buffer to ::send, once,
\* whatever becomes of it.  The socket of a publisher receives nothing.
SendAndRecv ==
    /\ mpc = "drain" /\ num_elements = 0
    /\ sent' = sent \o outbound
    /\ outbound' = <<>>
    /\ mpc' = "loop"
    /\ UNCHANGED <<queueVars, run, market_update, next_inc_seq_num, snapshot_md_updates>>

Publisher == Loop \/ TakeNext \/ Send \/ Release \/ Copy \/ SendAndRecv

Next == Start \/ Stop \/ Push \/ Publisher

\* The thread never blocks; a push that began is finished by the engine.
Fairness == WF_vars(Publisher) /\ WF_vars(Push /\ ppc # "idle")

Spec == Init /\ [][Next]_vars /\ Fairness

----------------------------------------------------------------------------
(***************************************************************************)
(* Properties.                                                             *)
(***************************************************************************)

\* The variables have the types of the members.
RecordType == [seq : Nat, update : Int]
TypeOK == /\ Queue!TypeOK
          /\ mpc \in {"new", "loop", "drain", "send", "release", "copy", "stopped", "exited"}
          /\ run \in BOOLEAN
          /\ market_update \in 0 .. Size - 1
          /\ next_inc_seq_num \in Nat
          /\ outbound \in Seq(RecordType) /\ sent \in Seq(RecordType)
          /\ snapshot_md_updates \in Seq(RecordType)

\* Incremental updates go "to the clients with sequence number": there was and
\* will be given to ::send one record for every update the thread took, in the
\* order of the engine and numbered from one without a gap.  A record stands for
\* the number and the first 8 bytes of the update, which is all that is sent
\* (market_data_publisher.cpp:20); which update it is of is what is checked.
StreamIsNumbered ==
    LET stream == sent \o outbound
    IN  /\ \A n \in DOMAIN stream : stream[n] = Record(n, n)
        /\ Len(stream) = reads + (IF mpc = "release" /\ cpc = "holding" THEN 1 ELSE 0)
             \/ mpc = "exited"

\* "same info and sequence number shared": the synthesizer is handed, under its
\* number, the update the subscribers were sent the beginning of, although it
\* is copied from a slot that is the engine's again.  This rests on a load that leaves one slot of the ring
\* free (MaxBacklog < Size).
SnapshotSeesTheStream ==
    \A n \in DOMAIN snapshot_md_updates : snapshot_md_updates[n] = (sent \o outbound)[n]

\* Every update the engine pushes is given to ::send in the end, unless the
\* thread is stopped or never ran, or the process ended: a burst longer than
\* the buffer ends it, because nothing is sent until the queue is empty.
EveryUpdateIsSent ==
    \A k \in 1 .. MaxWrites :
       run /\ written >= k ~> Len(sent) >= k \/ ~run \/ mpc = "exited"

\* A stop leaves no update behind that the thread has taken.
StopLeavesNothingBehind ==
    mpc = "stopped" => outbound = <<>> /\ Len(snapshot_md_updates) = reads /\ Len(sent) = reads

=============================================================================
