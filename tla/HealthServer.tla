----------------------------- MODULE HealthServer -----------------------------
(* The threads of the health server: one loop accepts connections and hands    *)
(* each to a worker thread if one of max_concurrent_requests slots is free,    *)
(* the worker reads one request under an idle timeout and an absolute          *)
(* deadline, lets the chain of gates decide (HealthGuards), asks the runtime   *)
(* if it must, writes one response and gives its slot back.  The deadline is a *)
(* timer thread of its own: it takes the decision to cut the connection under  *)
(* a lock and cuts it after it has let go of the lock.                         *)
(*                                                                             *)
(* Clients send a request in pieces: the request line, each field, and the     *)
(* blank line.  They may stop at any time, trickle bytes that complete no      *)
(* piece, end their half of the connection or reset it.                        *)
EXTENDS HealthGuards, FiniteSets, TLC

CONSTANTS Conn,        \* connections a client may open
          Requests,    \* the whole requests clients set out to send
          Slots        \* max_concurrent_requests

ASSUME SlotsAssumption == Slots \in Nat /\ IsFiniteSet(Conn)

(* What a client sets out to send, it sets out to end.                         *)
ASSUME RequestsAssumption ==
  Requests \subseteq [line : LineShapes, method : Methods, path : Paths, version : Versions,
                      fields : Seq(Field), ended : {TRUE}]

VARIABLES phase,     \* how far the server is with a connection
          request,   \* the request its client sets out to send
          sent,      \* pieces the client has sent
          trickle,   \* a byte that completes no piece is on its way
          client,    \* the client's half: "open", "ended" or "reset"
          read,      \* pieces the worker has read
          timer,     \* its deadline: "off", "armed", "claimed" (decided, not yet cut)
          cut,       \* somebody shut the server's socket down
          status,    \* the status of its response, 0 for none
          asked,     \* the runtime was asked on its behalf
          free,      \* the semaphore
          serving    \* serve_forever runs

conn == <<request, sent, trickle, client>>
vars == <<phase, conn, read, timer, cut, status, asked, free, serving>>

Phases == {"new", "waiting", "started", "reading", "asking", "writing", "closing",
           "releasing", "closed"}
(* A worker thread has the connection, and with it a slot.                     *)
Working == {"started", "reading", "asking", "writing", "closing", "releasing"}
Workers == {c \in Conn : phase[c] \in Working}

Pieces(r) == Len(r.fields) + 2
(* What the worker has in hand when its input ends after n pieces.             *)
Received(r, n) ==
  [r EXCEPT !.fields = SubSeq(@, 1, IF n - 1 < Len(@) THEN n - 1 ELSE Len(@)),
            !.ended = n = Pieces(r)]

(* What the parser makes of a request's first n pieces: whether it stops at    *)
(* them without asking for more, drops the connection, or answers, and how (0  *)
(* where the runtime has the answer).                                          *)
Verdict ==
  [r \in Requests |-> [n \in 1..Pieces(r) |->
     LET got == Received(r, n) IN
     [early |-> \/ Silent(got) \/ ~RequestLineBudget(got) \/ ~WellFormedLine(got)
                \/ ~ParsableVersion(got) \/ ~HeaderBytes(got) \/ ~HeaderFields(got),
      silent |-> Silent(got),
      status |-> IF Silent(got) THEN 0
                 ELSE IF Admitted(got) THEN Dispatch(got) ELSE Refusal(got)]]]

Init ==
  /\ phase = [c \in Conn |-> "new"]
  /\ request \in [Conn -> Requests]
  /\ sent = [c \in Conn |-> 0]
  /\ trickle = [c \in Conn |-> FALSE]
  /\ client = [c \in Conn |-> "open"]
  /\ read = [c \in Conn |-> 0]
  /\ timer = [c \in Conn |-> "off"]
  /\ cut = [c \in Conn |-> FALSE]
  /\ status = [c \in Conn |-> 0]
  /\ asked = [c \in Conn |-> FALSE]
  /\ free = Slots
  /\ serving = TRUE
-----------------------------------------------------------------------------
(* The clients.                                                                *)
Connect(c) ==
  /\ phase[c] = "new" /\ serving
  /\ phase' = [phase EXCEPT ![c] = "waiting"]
  /\ UNCHANGED <<conn, read, timer, cut, status, asked, free, serving>>

(* What a client does once its request is parsed changes nothing any more: a   *)
(* connection carries one request, and bytes behind it are never read.         *)
Connected(c) == phase[c] \in {"waiting", "started", "reading"} /\ client[c] = "open"

Send(c) ==
  /\ Connected(c) /\ sent[c] < Pieces(request[c]) /\ ~trickle[c]
  /\ sent' = [sent EXCEPT ![c] = @ + 1]
  /\ UNCHANGED <<phase, request, trickle, client, read, timer, cut, status, asked, free, serving>>

Trickle(c) ==
  /\ Connected(c) /\ sent[c] < Pieces(request[c]) /\ ~trickle[c]
  /\ trickle' = [trickle EXCEPT ![c] = TRUE]
  /\ UNCHANGED <<phase, request, sent, client, read, timer, cut, status, asked, free, serving>>

Leave(c) ==
  /\ Connected(c)
  /\ client' = [client EXCEPT ![c] = "ended"] \/ client' = [client EXCEPT ![c] = "reset"]
  /\ UNCHANGED <<phase, request, sent, trickle, read, timer, cut, status, asked, free, serving>>
-----------------------------------------------------------------------------
(* The loop of serve_forever.  It is one thread, and process_request returns   *)
(* once the worker runs, so each of these is a single step.                    *)
ReleasesAnyway(c) ==
  /\ serving /\ phase[c] = "waiting" /\ free = 0
  /\ phase' = [phase EXCEPT ![c] = "closed"]
  /\ cut' = [cut EXCEPT ![c] = TRUE]
  /\ free' = free + 1
  /\ UNCHANGED <<conn, read, timer, status, asked, serving>>

Refuse(c) ==
  /\ serving /\ phase[c] = "waiting" /\ free = 0
  /\ phase' = [phase EXCEPT ![c] = "closed"]
  /\ cut' = [cut EXCEPT ![c] = TRUE]
  /\ UNCHANGED <<conn, read, timer, status, asked, free, serving>>

AdmitsAnyway(c) ==
  /\ serving /\ phase[c] = "waiting"
  /\ phase' = [phase EXCEPT ![c] = "started"]
  /\ free' = IF free > 0 THEN free - 1 ELSE free
  /\ UNCHANGED <<conn, read, timer, cut, status, asked, serving>>

Admit(c) ==
  /\ serving /\ phase[c] = "waiting" /\ free > 0
  /\ phase' = [phase EXCEPT ![c] = "started"]
  /\ free' = free - 1
  /\ UNCHANGED <<conn, read, timer, cut, status, asked, serving>>

KeepsSlot(c) ==
  /\ serving /\ phase[c] = "waiting" /\ free > 0
  /\ phase' = [phase EXCEPT ![c] = "closed"]
  /\ cut' = [cut EXCEPT ![c] = TRUE]
  /\ free' = free - 1
  /\ UNCHANGED <<conn, read, timer, status, asked, serving>>

(* The slot was acquired, no thread could be started: the slot is released,    *)
(* the error goes on to the loop, which closes the connection.                 *)
StartFails(c) ==
  /\ serving /\ phase[c] = "waiting" /\ free > 0
  /\ phase' = [phase EXCEPT ![c] = "closed"]
  /\ cut' = [cut EXCEPT ![c] = TRUE]
  /\ UNCHANGED <<conn, read, timer, status, asked, free, serving>>

(* HealthServer.close: the loop ends, daemon workers go on.                    *)
Shutdown ==
  /\ serving
  /\ serving' = FALSE
  /\ UNCHANGED <<phase, conn, read, timer, cut, status, asked, free>>
-----------------------------------------------------------------------------
(* The worker.                                                                 *)
NoDeadline(c) ==
  /\ phase[c] = "started"
  /\ phase' = [phase EXCEPT ![c] = "reading"]
  /\ UNCHANGED <<conn, read, timer, cut, status, asked, free, serving>>

Begin(c) ==
  /\ phase[c] = "started"
  /\ phase' = [phase EXCEPT ![c] = "reading"]
  /\ timer' = [timer EXCEPT ![c] = "armed"]
  /\ UNCHANGED <<conn, read, cut, status, asked, free, serving>>

(* A readline gets a piece, or bytes that do not end one.  What was in flight  *)
(* when the socket was shut down or reset is gone.                             *)
Reads(c) == phase[c] = "reading" /\ ~cut[c] /\ client[c] # "reset" /\ read[c] < Pieces(request[c])

ReadPiece(c) ==
  /\ Reads(c) /\ read[c] < sent[c]
  /\ read' = [read EXCEPT ![c] = @ + 1]
  /\ UNCHANGED <<phase, conn, timer, cut, status, asked, free, serving>>

ReadByte(c) ==
  /\ Reads(c) /\ read[c] = sent[c] /\ trickle[c]
  /\ trickle' = [trickle EXCEPT ![c] = FALSE]
  /\ UNCHANGED <<phase, request, sent, client, read, timer, cut, status, asked, free, serving>>

(* _cancel_request_header_deadline: a timer that is not armed any more is      *)
(* either cancelled, or has claimed the connection already.                    *)
Cancelled(c) == [timer EXCEPT ![c] = IF @ = "armed" THEN "off" ELSE @]

(* The header section is over: its blank line was read, or the input ended.    *)
(* What is refused for its request line or for a budget does not wait for it.  *)
InputEnds(c) == cut[c] \/ (client[c] = "ended" /\ read[c] = sent[c])
HeadersOver(c) ==
  \/ read[c] = Pieces(request[c])
  \/ read[c] > 0 /\ (InputEnds(c) \/ Verdict[request[c]][read[c]].early)

(* parse_request with all its gates, and the choice of the handler method.     *)
Parse(c) ==
  LET verdict == Verdict[request[c]][read[c]] IN
  /\ phase[c] = "reading" /\ client[c] # "reset" /\ HeadersOver(c)
  /\ timer' = Cancelled(c)
  /\ phase' = [phase EXCEPT ![c] = IF verdict.silent THEN "closing"
                                   ELSE IF verdict.status = 0 THEN "asking" ELSE "writing"]
  /\ status' = [status EXCEPT ![c] = verdict.status]
  /\ UNCHANGED <<conn, read, cut, asked, free, serving>>

(* Nothing came at all, the read timed out, or the client reset: the worker    *)
(* ends without an answer; handle_one_request cancels the deadline on its way. *)
(* Part of a request line that the input ends in counts as nothing here.       *)
GiveUp(c) ==
  /\ phase[c] = "reading"
  /\ \/ read[c] = 0 /\ InputEnds(c)
     \/ client[c] = "reset"
     \/ Reads(c) /\ client[c] = "open" /\ read[c] = sent[c] /\ ~trickle[c]
  /\ timer' = Cancelled(c)
  /\ phase' = [phase EXCEPT ![c] = "closing"]
  /\ UNCHANGED <<conn, read, cut, status, asked, free, serving>>

(* _resolve_live_response on /readyz and /metrics.                             *)
Ask(c) ==
  /\ phase[c] = "asking"
  /\ asked' = [asked EXCEPT ![c] = TRUE]
  /\ \E ok \in BOOLEAN :
       status' = [status EXCEPT ![c] = IF ok THEN 200
                                       ELSE IF request[c].path = "/readyz" THEN 503 ELSE 500]
  /\ phase' = [phase EXCEPT ![c] = "writing"]
  /\ UNCHANGED <<conn, read, timer, cut, free, serving>>

(* The response is written, or the client is gone or does not take it in time. *)
Write(c) ==
  /\ phase[c] = "writing"
  /\ phase' = [phase EXCEPT ![c] = "closing"]
  /\ UNCHANGED <<conn, read, timer, cut, status, asked, free, serving>>

Close(c) ==
  /\ phase[c] = "closing"
  /\ phase' = [phase EXCEPT ![c] = "releasing"]
  /\ cut' = [cut EXCEPT ![c] = TRUE]
  /\ UNCHANGED <<conn, read, timer, status, asked, free, serving>>

Release(c) ==
  /\ phase[c] = "releasing"
  /\ phase' = [phase EXCEPT ![c] = "closed"]
  /\ free' = free + 1
  /\ UNCHANGED <<conn, read, timer, cut, status, asked, serving>>
-----------------------------------------------------------------------------
(* The deadline's timer thread: expire() claims under the lock, and shuts the  *)
(* socket down after it.                                                       *)
Claim(c) ==
  /\ timer[c] = "armed"
  /\ timer' = [timer EXCEPT ![c] = "claimed"]
  /\ UNCHANGED <<phase, conn, read, cut, status, asked, free, serving>>

Expire(c) ==
  /\ timer[c] = "claimed"
  /\ timer' = [timer EXCEPT ![c] = "off"]
  /\ cut' = [cut EXCEPT ![c] = TRUE]
  /\ UNCHANGED <<phase, conn, read, status, asked, free, serving>>
-----------------------------------------------------------------------------
Loop(c) == Refuse(c) \/ Admit(c) \/ StartFails(c)
Worker(c) ==
  \/ Begin(c) \/ ReadPiece(c) \/ ReadByte(c) \/ Parse(c)
  \/ Ask(c) \/ Write(c) \/ Close(c) \/ Release(c)
Deadline(c) == Claim(c) \/ Expire(c)

Next ==
  \/ Shutdown
  \/ \E c \in Conn : \/ Connect(c) \/ Send(c) \/ Trickle(c) \/ Leave(c)
                     \/ Loop(c) \/ Worker(c) \/ GiveUp(c) \/ Deadline(c)

Spec == Init /\ [][Next]_vars

(* The loop takes the connection at the head of the backlog, threads are       *)
(* scheduled, and timers fire; no client need ever do anything.                *)
Fairness ==
  \A c \in Conn : /\ WF_vars(Loop(c)) /\ WF_vars(Worker(c)) /\ WF_vars(GiveUp(c))
                  /\ WF_vars(Deadline(c))
FairSpec == Spec /\ Fairness
-----------------------------------------------------------------------------
(* Connections, workers and timers stay what they are declared to be.          *)
TypeOK ==
  /\ phase \in [Conn -> Phases]
  /\ request \in [Conn -> Requests]
  /\ sent \in [Conn -> Nat] /\ read \in [Conn -> Nat]
  /\ trickle \in [Conn -> BOOLEAN]
  /\ client \in [Conn -> {"open", "ended", "reset"}]
  /\ timer \in [Conn -> {"off", "armed", "claimed"}]
  /\ cut \in [Conn -> BOOLEAN] /\ asked \in [Conn -> BOOLEAN]
  /\ status \in [Conn -> Nat]
  /\ free \in 0..Slots
  /\ serving \in BOOLEAN

(* Every slot is either free or held by exactly one worker, whatever fails on  *)
(* the way: a thread that cannot be started, a handler that dies, a client     *)
(* that never speaks.  So at most Slots requests are served at once, no slot   *)
(* leaks, and the bounded semaphore is never released once too often.          *)
SlotsAccounted == free + Cardinality(Workers) = Slots

(* Seen from outside, the server is the pool of ServingPool.                   *)
Stage(c) ==
  IF c \in Workers THEN "served" ELSE IF phase[c] = "closed" THEN "over" ELSE phase[c]
Pool == INSTANCE ServingPool WITH stage <- [c \in Conn |-> Stage(c)], accepting <- serving

(* With its slots taken before a thread exists and given back after the last   *)
(* thing a worker does, the server never has more than Slots requests in hand, *)
(* serves no connection twice and takes none up again that it turned away.     *)
ServesAsPool == Pool!Spec

(* A header section that ends early, because the client left or the deadline   *)
(* cut the connection, looks to CPython's parser like a shorter request that   *)
(* lacks its last fields, and those may be the ones a gate refuses.  Whatever  *)
(* the runtime was asked on behalf of was read to its blank line, and every    *)
(* gate let the whole of it pass.                                              *)
AskedForWholeRequests ==
  \A c \in Conn : asked[c] => read[c] = Pieces(request[c]) /\ Admitted(request[c])

(* Every connection comes to an end, and its slot with it, while its client is *)
(* free to stall or to trickle bytes for ever: the idle timeout never ends the *)
(* trickling, the deadline ends nothing while it is not armed, and a           *)
(* connection in the backlog depends on the ones before it.  Only shutdown     *)
(* leaves connections waiting.                                                 *)
EveryConnectionEnds ==
  \A c \in Conn :
    phase[c] # "new" ~> phase[c] = "closed" \/ (phase[c] = "waiting" /\ ~serving)
=============================================================================
