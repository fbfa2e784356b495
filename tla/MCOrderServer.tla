---------------------------- MODULE MCOrderServer ----------------------------
(***************************************************************************)
(* TLC instances of OrderServer with two connections: the program, and a   *)
(* server that was given the first of them.                                *)
(***************************************************************************)
EXTENDS OrderServer, TLC

CONSTANTS k1, k2

NoneRegistered == <<>>
OneRegistered == <<k1>>

\* Clients are compared for equality only.
Names == Permutations(Client)

\* What the future and the invariants depend on: of the arrival times only
\* those of requests that can still be pending together, of the events only
\* those that would be reported (a socket with nothing to read gets a new one
\* with what it gets to read).
Relevant == <<peer, wire, clock, arrivals, backlog, Reported,
              fd_open, receive_sockets, inbound, todo, recv,
              IF pc = "callback" THEN rx_time ELSE 0,
              sessionVars, handled, answers, made, streamVars,
              outbound, pc, next_out_seq_num, status, responses,
              [i \in 1 .. Len(published) |->
                  <<published[i].client, published[i].seq, published[i].conn>>]>>

\* A reduction: the thread looks at the connections in poll(), at what the
\* peers did in poll() and in recvmsg(), and at what the engine did only in its
\* loop over the responses, so the steps of others are delayed until then.
PeersLookedAt == pc = "poll" \/ (pc = "receive" /\ todo # <<>>)
WhenLookedAt == /\ backlog' # backlog => pc = "poll"
                /\ wire' # wire => PeersLookedAt
                /\ \A k \in Conn : peer'[k] # peer[k] /\ peer[k] = "open" => PeersLookedAt
                /\ <<handled, answers>>' # <<handled, answers>> => pc = "respond"
=============================================================================
