-------------------------- MODULE HealthServerProofs --------------------------
(* The health server's slots, its refinement of ServingPool and the requests   *)
(* it asks the runtime for, for any number of connections and slots, and any   *)
(* requests.                                                                   *)
EXTENDS HealthServer, FiniteSetTheorems, TLAPS

-----------------------------------------------------------------------------
(* The gates.                                                                  *)

(* A set of indices has a least one, which Min chooses.                        *)
LEMMA LeastIndex ==
  ASSUME NEW I \in SUBSET Nat, I # {}
  PROVE  \E m \in I : \A i \in I : m <= i
<1> DEFINE Upto == {1..m : m \in I}
<1>1. ASSUME NEW S \in Upto
      PROVE  S \in FiniteSubsetsOf(Nat)
  <2>1. PICK m \in I : S = 1..m
    OBVIOUS
  <2>2. IsFiniteSet(1..m)
    BY FS_Interval
  <2> QED BY <2>1, <2>2 DEF FiniteSubsetsOf
<1>2. PICK S \in Upto : \A T \in Upto : <<T, S>> \notin StrictSubsetOrdering(Nat)
  <2>1. Upto \subseteq FiniteSubsetsOf(Nat) /\ Upto # {}
    BY <1>1
  <2> HIDE DEF Upto
  <2>2. IsWellFoundedOn(StrictSubsetOrdering(Nat), FiniteSubsetsOf(Nat))
    BY FS_StrictSubsetOrderingWellFounded
  <2> QED BY <2>1, <2>2, WFMin
<1>3. PICK m \in I : S = 1..m
  OBVIOUS
<1>4. ASSUME NEW i \in I, i < m
      PROVE  FALSE
  <2>1. (1..i) \subseteq S /\ (1..i) # S
    BY <1>3, <1>4
  <2>2. 1..i \in Upto /\ S \in SUBSET Nat /\ 1..i \in SUBSET Nat
    BY <1>3
  <2> HIDE DEF Upto
  <2>3. <<1..i, S>> \in StrictSubsetOrdering(Nat)
    BY <2>1, <2>2 DEF StrictSubsetOrdering
  <2> QED BY <1>2, <2>2, <2>3
<1> QED BY <1>4

(* Of some gates that object, one is the first.                                *)
LEMMA FirstGate ==
  ASSUME NEW I \in SUBSET (1..23), I # {}
  PROVE  Min(I) \in 1..23
<1>1. I \in SUBSET Nat
  OBVIOUS
<1>2. \E m \in I : \A i \in I : m <= i
  BY <1>1, LeastIndex
<1> QED BY <1>2 DEF Min

(* There are 23 gates, each with the status of its refusal.                    *)
LEMMA GatesAnswer ==
  ASSUME NEW r
  PROVE  /\ DOMAIN Gates(r) = 1..23 /\ Len(Gates(r)) = 23
         /\ \A i \in 1..23 : Gates(r)[i][2] \in Nat
BY DEF Gates

(* The gates that object to a request; the first of them answers.              *)
Objecting(r) == {i \in 1..23 : ~Gates(r)[i][1]}

(* A refusal has the status of the first gate that objects.                    *)
LEMMA RefusalOfFirst ==
  ASSUME NEW r
  PROVE  Refusal(r) = IF Objecting(r) = {} THEN 0 ELSE Gates(r)[Min(Objecting(r))][2]
BY GatesAnswer DEF Refusal, Objecting

(* None objecting is 0, and nothing else is.                                   *)
LEMMA RefusalIsStatus ==
  ASSUME NEW r
  PROVE  Refusal(r) \in Nat /\ (Refusal(r) = 0 => Admitted(r))
<1>1. \A i \in 1..23 : Gates(r)[i][2] # 0
  BY DEF Gates
<1>2. Objecting(r) # {} => Min(Objecting(r)) \in 1..23
  BY FirstGate DEF Objecting
<1>3. Objecting(r) = {} => Admitted(r)
  BY GatesAnswer DEF Objecting, Admitted
<1> QED BY <1>1, <1>2, <1>3, GatesAnswer, RefusalOfFirst

(* CanonicalCRLF is one of the gates: what is admitted has ended.              *)
LEMMA AdmittedEnded ==
  ASSUME NEW r, Admitted(r)
  PROVE  r.ended
<1>1. Gates(r)[17][1] = CanonicalCRLF(r)
  BY DEF Gates
<1>2. Gates(r)[17][1]
  BY GatesAnswer DEF Admitted
<1> QED BY <1>1, <1>2 DEF CanonicalCRLF

-----------------------------------------------------------------------------
(* Requests and verdicts.                                                      *)

(* A request is its line, its fields and its blank line, read in that order.   *)
LEMMA PiecesType ==
  ASSUME NEW r \in Requests
  PROVE  /\ Pieces(r) \in Nat /\ Pieces(r) >= 2
         /\ Received(r, Pieces(r)) = r
<1>1. r \in [line : LineShapes, method : Methods, path : Paths, version : Versions,
             fields : Seq(Field), ended : {TRUE}]
  BY RequestsAssumption
<1>2. Len(r.fields) \in Nat
  BY <1>1
<1>3. SubSeq(r.fields, 1, Len(r.fields)) = r.fields
  BY <1>1
<1>4. ~(Pieces(r) - 1 < Len(r.fields))
  BY <1>2 DEF Pieces
<1>5. Received(r, Pieces(r)) = [r EXCEPT !.fields = r.fields, !.ended = TRUE]
  BY <1>3, <1>4 DEF Received
<1>6. [r EXCEPT !.fields = r.fields, !.ended = TRUE] = r
  <2>1. r = [line |-> r.line, method |-> r.method, path |-> r.path, version |-> r.version,
             fields |-> r.fields, ended |-> TRUE]
    BY <1>1
  <2>2. [r EXCEPT !.fields = r.fields, !.ended = TRUE]
          = [line |-> r.line, method |-> r.method, path |-> r.path, version |-> r.version,
             fields |-> r.fields, ended |-> TRUE]
    BY <1>1
  <2> QED BY <2>1, <2>2
<1> QED BY <1>2, <1>5, <1>6 DEF Pieces

(* The runtime is to be asked about whole and admitted requests only: one that *)
(* is cut short has not ended, and no gate lets that pass.                     *)
LEMMA VerdictType ==
  ASSUME NEW r \in Requests, NEW n \in 1..Pieces(r)
  PROVE  /\ Verdict[r][n].status \in Nat
         /\ ~Verdict[r][n].silent /\ Verdict[r][n].status = 0
              => n = Pieces(r) /\ Admitted(r)
<1> DEFINE got == Received(r, n)
<1>1. /\ Verdict[r][n].silent = Silent(got)
      /\ Verdict[r][n].status = IF Silent(got) THEN 0
                                ELSE IF Admitted(got) THEN Dispatch(got) ELSE Refusal(got)
  BY DEF Verdict
<1>2. Dispatch(got) \in Nat
  BY DEF Dispatch, UnknownMethod
<1>3. Admitted(got) => n = Pieces(r)
  <2>1. got.ended = (n = Pieces(r))
    BY RequestsAssumption DEF Received
  <2> QED BY <2>1, AdmittedEnded
<1>4. Admitted(got) => got = r
  BY <1>3, PiecesType
<1> QED BY <1>1, <1>2, <1>3, <1>4, RefusalIsStatus, PiecesType

-----------------------------------------------------------------------------
(* The inductive invariant.                                                    *)

(* What the worker has read is part of the request, and it turns to the        *)
(* runtime only for a request it has read to its end and admitted.             *)
Grounds ==
  \A c \in Conn :
    /\ read[c] <= Pieces(request[c])
    /\ asked[c] => phase[c] \in {"writing", "closing", "releasing", "closed"}
    /\ phase[c] = "asking" \/ asked[c]
         => read[c] = Pieces(request[c]) /\ Admitted(request[c])

IInv == TypeOK /\ SlotsAccounted /\ Grounds

(* There are finitely many connections, and so of workers.                     *)
LEMMA WorkersFinite == IsFiniteSet(Workers) /\ Cardinality(Workers) \in Nat
<1>1. Workers \subseteq Conn
  BY DEF Workers
<1>2. IsFiniteSet(Workers)
  BY <1>1, SlotsAssumption, FS_Subset
<1> QED BY <1>2, FS_CardinalityType

(* A connection that moves takes up a worker, gives one back, or neither.      *)
LEMMA PhaseMoves ==
  ASSUME TypeOK, NEW c \in Conn, NEW p \in Phases, phase' = [phase EXCEPT ![c] = p]
  PROVE  /\ (phase[c] \in Working <=> p \in Working) => Workers' = Workers
         /\ phase[c] \notin Working /\ p \in Working
              => /\ Workers' = Workers \cup {c}
                 /\ Cardinality(Workers') = Cardinality(Workers) + 1
         /\ phase[c] \in Working /\ p \notin Working
              => /\ Workers' = Workers \ {c}
                 /\ Cardinality(Workers') = Cardinality(Workers) - 1
<1>1. \A d \in Conn : phase'[d] = IF d = c THEN p ELSE phase[d]
  BY DEF TypeOK
<1>2. (phase[c] \in Working <=> p \in Working) => Workers' = Workers
  BY <1>1 DEF Workers
<1>3. ASSUME phase[c] \notin Working, p \in Working
      PROVE  /\ Workers' = Workers \cup {c}
             /\ Cardinality(Workers') = Cardinality(Workers) + 1
  <2>1. Workers' = Workers \cup {c} /\ c \notin Workers
    BY <1>1, <1>3 DEF Workers
  <2> QED BY <2>1, WorkersFinite, FS_AddElement
<1>4. ASSUME phase[c] \in Working, p \notin Working
      PROVE  /\ Workers' = Workers \ {c}
             /\ Cardinality(Workers') = Cardinality(Workers) - 1
  <2>1. Workers' = Workers \ {c} /\ c \in Workers
    BY <1>1, <1>4 DEF Workers
  <2> QED BY <2>1, WorkersFinite, FS_RemoveElement
<1> QED BY <1>2, <1>3, <1>4

(* No connection has been accepted yet, and every slot is free.                *)
LEMMA InvHoldsInitially == Init => IInv
<1> SUFFICES ASSUME Init PROVE IInv
  OBVIOUS
<1>1. TypeOK
  BY SlotsAssumption DEF Init, TypeOK, Phases
<1>2. SlotsAccounted
  <2>1. Workers = {}
    BY DEF Init, Workers, Working
  <2> QED BY <2>1, SlotsAssumption, FS_EmptySet DEF Init, SlotsAccounted
<1>3. Grounds
  <2> SUFFICES ASSUME NEW c \in Conn
               PROVE  /\ read[c] <= Pieces(request[c])
                      /\ ~asked[c] /\ phase[c] # "asking"
    BY DEF Grounds
  <2>1. request[c] \in Requests /\ read[c] = 0
    BY DEF Init
  <2> QED BY <2>1, PiecesType DEF Init
<1> QED BY <1>1, <1>2, <1>3 DEF IInv

(* What a worker parses is of its request: the verdict is one of those above.  *)
LEMMA ParseStatus ==
  ASSUME IInv, NEW c \in Conn, Parse(c)
  PROVE  /\ Verdict[request[c]][read[c]].status \in Nat
         /\ phase'[c] = "asking" => read[c] = Pieces(request[c]) /\ Admitted(request[c])
<1>1. request[c] \in Requests /\ read[c] \in Nat /\ read[c] <= Pieces(request[c])
  BY DEF IInv, TypeOK, Grounds
<1>2. Pieces(request[c]) \in Nat /\ Pieces(request[c]) >= 2
  BY <1>1, PiecesType
<1>3. read[c] \in 1..Pieces(request[c])
  BY <1>1, <1>2 DEF Parse, HeadersOver
<1>4. phase'[c] = IF Verdict[request[c]][read[c]].silent THEN "closing"
                  ELSE IF Verdict[request[c]][read[c]].status = 0 THEN "asking" ELSE "writing"
  BY DEF Parse, IInv, TypeOK
<1> QED BY <1>1, <1>3, <1>4, VerdictType

(* Type correctness needs the slots to be accounted for: a slot is given back  *)
(* only by a worker, so never one too many.                                    *)
LEMMA TypeStep ==
  ASSUME IInv, [Next]_vars
  PROVE  TypeOK'
<1> USE DEF IInv, TypeOK, Phases, conn
<1>1. CASE Shutdown
  BY <1>1 DEF Shutdown
<1>2. ASSUME NEW c \in Conn, Connect(c)
      PROVE  TypeOK'
  BY <1>2 DEF Connect
<1>3. ASSUME NEW c \in Conn, Send(c)
      PROVE  TypeOK'
  BY <1>3 DEF Send, Connected
<1>4. ASSUME NEW c \in Conn, Trickle(c)
      PROVE  TypeOK'
  BY <1>4 DEF Trickle, Connected
<1>5. ASSUME NEW c \in Conn, Leave(c)
      PROVE  TypeOK'
  BY <1>5 DEF Leave, Connected
<1>6. ASSUME NEW c \in Conn, Refuse(c)
      PROVE  TypeOK'
  BY <1>6 DEF Refuse
<1>7. ASSUME NEW c \in Conn, Admit(c)
      PROVE  TypeOK'
  BY <1>7, SlotsAssumption DEF Admit
<1>8. ASSUME NEW c \in Conn, StartFails(c)
      PROVE  TypeOK'
  BY <1>8 DEF StartFails
<1>9. ASSUME NEW c \in Conn, Begin(c)
      PROVE  TypeOK'
  BY <1>9 DEF Begin
<1>10. ASSUME NEW c \in Conn, ReadPiece(c)
      PROVE  TypeOK'
  BY <1>10 DEF ReadPiece, Reads
<1>11. ASSUME NEW c \in Conn, ReadByte(c)
      PROVE  TypeOK'
  BY <1>11 DEF ReadByte, Reads
<1>12. ASSUME NEW c \in Conn, Parse(c)
      PROVE  TypeOK'
  BY <1>12, ParseStatus DEF Parse, Cancelled
<1>13. ASSUME NEW c \in Conn, Ask(c)
      PROVE  TypeOK'
  BY <1>13 DEF Ask
<1>14. ASSUME NEW c \in Conn, Write(c)
      PROVE  TypeOK'
  BY <1>14 DEF Write
<1>15. ASSUME NEW c \in Conn, Close(c)
      PROVE  TypeOK'
  BY <1>15 DEF Close
<1>16. ASSUME NEW c \in Conn, Release(c)
      PROVE  TypeOK'
  <2>1. c \in Workers
    BY <1>16 DEF Release, Workers, Working
  <2>2. Workers # {} /\ Cardinality(Workers) \in Nat /\ IsFiniteSet(Workers)
    BY <2>1, WorkersFinite
  <2>3. Cardinality(Workers) # 0
    BY <2>2, FS_EmptySet
  <2>4. free + 1 \in 0..Slots
    BY <2>2, <2>3, SlotsAssumption DEF SlotsAccounted
  <2> QED BY <1>16, <2>4 DEF Release
<1>17. ASSUME NEW c \in Conn, GiveUp(c)
      PROVE  TypeOK'
  BY <1>17 DEF GiveUp, Cancelled
<1>18. ASSUME NEW c \in Conn, Claim(c)
      PROVE  TypeOK'
  BY <1>18 DEF Claim
<1>19. ASSUME NEW c \in Conn, Expire(c)
      PROVE  TypeOK'
  BY <1>19 DEF Expire
<1>20. CASE UNCHANGED vars
  BY <1>20 DEF vars
<1> QED
  BY <1>1, <1>2, <1>3, <1>4, <1>5, <1>6, <1>7, <1>8, <1>9, <1>10,
     <1>11, <1>12, <1>13, <1>14, <1>15, <1>16, <1>17, <1>18, <1>19, <1>20
     DEF Next, Loop, Worker, Deadline

(* What an action does to the workers and to the semaphore, together.          *)
LEMMA SlotsStep ==
  ASSUME IInv, [Next]_vars
  PROVE  SlotsAccounted'
<1> USE DEF Working, Phases
<1>0. TypeOK /\ free + Cardinality(Workers) = Slots /\ free \in Nat
      /\ Cardinality(Workers) \in Nat
  BY WorkersFinite, SlotsAssumption DEF IInv, TypeOK, SlotsAccounted
<1>1. CASE Shutdown
  BY <1>0, <1>1 DEF Shutdown, SlotsAccounted, Workers
<1>2. ASSUME NEW c \in Conn, Connect(c)
      PROVE  SlotsAccounted'
  <2>1. phase' = [phase EXCEPT ![c] = "waiting"]
    BY <1>2 DEF Connect
  <2> QED BY <1>0, <1>2, <2>1, PhaseMoves DEF Connect, SlotsAccounted
<1>3. ASSUME NEW c \in Conn, Send(c)
      PROVE  SlotsAccounted'
  BY <1>0, <1>3 DEF Send, SlotsAccounted, Workers
<1>4. ASSUME NEW c \in Conn, Trickle(c)
      PROVE  SlotsAccounted'
  BY <1>0, <1>4 DEF Trickle, SlotsAccounted, Workers
<1>5. ASSUME NEW c \in Conn, Leave(c)
      PROVE  SlotsAccounted'
  BY <1>0, <1>5 DEF Leave, SlotsAccounted, Workers
<1>6. ASSUME NEW c \in Conn, Refuse(c)
      PROVE  SlotsAccounted'
  <2>1. phase' = [phase EXCEPT ![c] = "closed"]
    BY <1>6 DEF Refuse
  <2> QED BY <1>0, <1>6, <2>1, PhaseMoves DEF Refuse, SlotsAccounted
<1>7. ASSUME NEW c \in Conn, Admit(c)
      PROVE  SlotsAccounted'
  <2>1. phase' = [phase EXCEPT ![c] = "started"]
    BY <1>7 DEF Admit
  <2>2. free' = free - 1 /\ phase[c] \notin Working /\ "started" \in Working
    BY <1>7 DEF Admit
  <2>3. Cardinality(Workers') = Cardinality(Workers) + 1
    BY <1>0, <2>1, <2>2, PhaseMoves
  <2> QED BY <1>0, <2>2, <2>3 DEF SlotsAccounted
<1>8. ASSUME NEW c \in Conn, StartFails(c)
      PROVE  SlotsAccounted'
  <2>1. phase' = [phase EXCEPT ![c] = "closed"]
    BY <1>8 DEF StartFails
  <2> QED BY <1>0, <1>8, <2>1, PhaseMoves DEF StartFails, SlotsAccounted
<1>9. ASSUME NEW c \in Conn, Begin(c)
      PROVE  SlotsAccounted'
  <2>1. phase' = [phase EXCEPT ![c] = "reading"]
    BY <1>9 DEF Begin
  <2> QED BY <1>0, <1>9, <2>1, PhaseMoves DEF Begin, SlotsAccounted
<1>10. ASSUME NEW c \in Conn, ReadPiece(c)
      PROVE  SlotsAccounted'
  BY <1>0, <1>10 DEF ReadPiece, SlotsAccounted, Workers
<1>11. ASSUME NEW c \in Conn, ReadByte(c)
      PROVE  SlotsAccounted'
  BY <1>0, <1>11 DEF ReadByte, SlotsAccounted, Workers
<1>12. ASSUME NEW c \in Conn, Parse(c)
      PROVE  SlotsAccounted'
  <2>1. PICK p \in {"closing", "asking", "writing"} : phase' = [phase EXCEPT ![c] = p]
    BY <1>12 DEF Parse
  <2> QED BY <1>0, <1>12, <2>1, PhaseMoves DEF Parse, SlotsAccounted
<1>13. ASSUME NEW c \in Conn, Ask(c)
      PROVE  SlotsAccounted'
  <2>1. phase' = [phase EXCEPT ![c] = "writing"]
    BY <1>13 DEF Ask
  <2> QED BY <1>0, <1>13, <2>1, PhaseMoves DEF Ask, SlotsAccounted
<1>14. ASSUME NEW c \in Conn, Write(c)
      PROVE  SlotsAccounted'
  <2>1. phase' = [phase EXCEPT ![c] = "closing"]
    BY <1>14 DEF Write
  <2> QED BY <1>0, <1>14, <2>1, PhaseMoves DEF Write, SlotsAccounted
<1>15. ASSUME NEW c \in Conn, Close(c)
      PROVE  SlotsAccounted'
  <2>1. phase' = [phase EXCEPT ![c] = "releasing"]
    BY <1>15 DEF Close
  <2> QED BY <1>0, <1>15, <2>1, PhaseMoves DEF Close, SlotsAccounted
<1>16. ASSUME NEW c \in Conn, Release(c)
      PROVE  SlotsAccounted'
  <2>1. phase' = [phase EXCEPT ![c] = "closed"]
    BY <1>16 DEF Release
  <2>2. free' = free + 1 /\ phase[c] \in Working /\ "closed" \notin Working
    BY <1>16 DEF Release
  <2>3. Cardinality(Workers') = Cardinality(Workers) - 1
    BY <1>0, <2>1, <2>2, PhaseMoves
  <2> QED BY <1>0, <2>2, <2>3 DEF SlotsAccounted
<1>17. ASSUME NEW c \in Conn, GiveUp(c)
      PROVE  SlotsAccounted'
  <2>1. phase' = [phase EXCEPT ![c] = "closing"]
    BY <1>17 DEF GiveUp
  <2> QED BY <1>0, <1>17, <2>1, PhaseMoves DEF GiveUp, SlotsAccounted
<1>18. ASSUME NEW c \in Conn, Claim(c)
      PROVE  SlotsAccounted'
  BY <1>0, <1>18 DEF Claim, SlotsAccounted, Workers
<1>19. ASSUME NEW c \in Conn, Expire(c)
      PROVE  SlotsAccounted'
  BY <1>0, <1>19 DEF Expire, SlotsAccounted, Workers
<1>20. CASE UNCHANGED vars
  BY <1>0, <1>20 DEF vars, SlotsAccounted, Workers
<1> QED
  BY <1>1, <1>2, <1>3, <1>4, <1>5, <1>6, <1>7, <1>8, <1>9, <1>10,
     <1>11, <1>12, <1>13, <1>14, <1>15, <1>16, <1>17, <1>18, <1>19, <1>20
     DEF Next, Loop, Worker, Deadline


(* Only what was parsed as a whole is asked about, and it stays whole.         *)
LEMMA GroundsStep ==
  ASSUME IInv, [Next]_vars
  PROVE  Grounds'
<1> SUFFICES ASSUME NEW d \in Conn
             PROVE  /\ read'[d] <= Pieces(request[d])
                    /\ asked'[d] => phase'[d] \in {"writing", "closing", "releasing", "closed"}
                    /\ phase'[d] = "asking" \/ asked'[d]
                         => read'[d] = Pieces(request[d]) /\ Admitted(request[d])
  <2>1. ASSUME NEW c \in Conn, Connect(c) \/ Send(c) \/ Trickle(c) \/ Leave(c)
        PROVE  request' = request
    BY <2>1 DEF conn, Connect, Send, Trickle, Leave
  <2>2. ASSUME NEW c \in Conn, Loop(c) \/ GiveUp(c) \/ Deadline(c)
        PROVE  request' = request
    BY <2>2 DEF conn, Loop, Refuse, Admit, StartFails, GiveUp, Deadline, Claim, Expire
  <2>3. ASSUME NEW c \in Conn, Worker(c)
        PROVE  request' = request
    <3>1. Begin(c) \/ ReadPiece(c) \/ ReadByte(c) \/ Parse(c) => request' = request
      BY DEF conn, Begin, ReadPiece, ReadByte, Parse
    <3>2. Ask(c) \/ Write(c) \/ Close(c) \/ Release(c) => request' = request
      BY DEF conn, Ask, Write, Close, Release
    <3> QED BY <2>3, <3>1, <3>2 DEF Worker
  <2>4. Shutdown \/ UNCHANGED vars => request' = request
    BY DEF Shutdown, vars, conn
  <2>5. request' = request
    BY <2>1, <2>2, <2>3, <2>4 DEF Next
  <2> QED BY <2>5 DEF Grounds
<1> DEFINE Holds == /\ read'[d] <= Pieces(request[d])
                    /\ asked'[d] => phase'[d] \in {"writing", "closing", "releasing", "closed"}
                    /\ phase'[d] = "asking" \/ asked'[d]
                         => read'[d] = Pieces(request[d]) /\ Admitted(request[d])
<1>0. /\ read[d] <= Pieces(request[d])
      /\ asked[d] => phase[d] \in {"writing", "closing", "releasing", "closed"}
      /\ phase[d] = "asking" \/ asked[d]
           => read[d] = Pieces(request[d]) /\ Admitted(request[d])
      /\ read \in [Conn -> Nat] /\ phase \in [Conn -> Phases] /\ asked \in [Conn -> BOOLEAN]
      /\ Pieces(request[d]) \in Nat
  BY PiecesType DEF IInv, TypeOK, Grounds
<1>1. CASE Shutdown
  BY <1>0, <1>1 DEF Shutdown
<1>2. ASSUME NEW c \in Conn, Connect(c)
      PROVE  Holds
  BY <1>0, <1>2 DEF Connect
<1>3. ASSUME NEW c \in Conn, Send(c)
      PROVE  Holds
  BY <1>0, <1>3 DEF Send, Connected
<1>4. ASSUME NEW c \in Conn, Trickle(c)
      PROVE  Holds
  BY <1>0, <1>4 DEF Trickle, Connected
<1>5. ASSUME NEW c \in Conn, Leave(c)
      PROVE  Holds
  BY <1>0, <1>5 DEF Leave, Connected
<1>6. ASSUME NEW c \in Conn, Refuse(c)
      PROVE  Holds
  BY <1>0, <1>6 DEF Refuse
<1>7. ASSUME NEW c \in Conn, Admit(c)
      PROVE  Holds
  BY <1>0, <1>7 DEF Admit
<1>8. ASSUME NEW c \in Conn, StartFails(c)
      PROVE  Holds
  BY <1>0, <1>8 DEF StartFails
<1>9. ASSUME NEW c \in Conn, Begin(c)
      PROVE  Holds
  BY <1>0, <1>9 DEF Begin
<1>10. ASSUME NEW c \in Conn, ReadPiece(c)
      PROVE  Holds
  BY <1>0, <1>10 DEF ReadPiece, Reads
<1>11. ASSUME NEW c \in Conn, ReadByte(c)
      PROVE  Holds
  BY <1>0, <1>11 DEF ReadByte, Reads
<1>12. ASSUME NEW c \in Conn, Parse(c)
      PROVE  Holds
  BY <1>0, <1>12, ParseStatus DEF Parse
<1>13. ASSUME NEW c \in Conn, Ask(c)
      PROVE  Holds
  BY <1>0, <1>13 DEF Ask
<1>14. ASSUME NEW c \in Conn, Write(c)
      PROVE  Holds
  BY <1>0, <1>14 DEF Write
<1>15. ASSUME NEW c \in Conn, Close(c)
      PROVE  Holds
  BY <1>0, <1>15 DEF Close
<1>16. ASSUME NEW c \in Conn, Release(c)
      PROVE  Holds
  BY <1>0, <1>16 DEF Release
<1>17. ASSUME NEW c \in Conn, GiveUp(c)
      PROVE  Holds
  BY <1>0, <1>17 DEF GiveUp
<1>18. ASSUME NEW c \in Conn, Claim(c)
      PROVE  Holds
  BY <1>0, <1>18 DEF Claim
<1>19. ASSUME NEW c \in Conn, Expire(c)
      PROVE  Holds
  BY <1>0, <1>19 DEF Expire
<1>20. CASE UNCHANGED vars
  BY <1>0, <1>20 DEF vars
<1> QED
  BY <1>1, <1>2, <1>3, <1>4, <1>5, <1>6, <1>7, <1>8, <1>9, <1>10,
     <1>11, <1>12, <1>13, <1>14, <1>15, <1>16, <1>17, <1>18, <1>19, <1>20
     DEF Next, Loop, Worker, Deadline

(* The invariant holds in every reachable state.                               *)
LEMMA Induction == Spec => []IInv
<1>1. IInv /\ [Next]_vars => IInv'
  BY TypeStep, SlotsStep, GroundsStep DEF IInv
<1> QED BY InvHoldsInitially, <1>1, PTL DEF Spec

(* Every variable of the server stays what it is declared to be; above all the *)
(* semaphore's count stays between 0 and max_concurrent_requests.              *)
THEOREM TypeCorrect == Spec => []TypeOK
<1>1. IInv => TypeOK
  BY DEF IInv
<1> QED BY Induction, <1>1, PTL

(* No slot leaks and none is released twice, whatever fails on the way.        *)
THEOREM NoSlotLeaks == Spec => []SlotsAccounted
<1>1. IInv => SlotsAccounted
  BY DEF IInv
<1> QED BY Induction, <1>1, PTL

(* The runtime is asked for requests only that were read to their blank line   *)
(* and that every gate let pass, whatever the requests are.                    *)
THEOREM WholeRequests == Spec => []AskedForWholeRequests
<1>1. IInv => AskedForWholeRequests
  BY DEF IInv, Grounds, AskedForWholeRequests
<1> QED BY Induction, <1>1, PTL

-----------------------------------------------------------------------------
(* The server implements the pool.                                             *)
Stages == [c \in Conn |-> Stage(c)]

(* What the pool serves are the connections with a worker thread.              *)
LEMMA ServedAreWorkers ==
  ASSUME TypeOK
  PROVE  Pool!Served = Workers
BY DEF TypeOK, Pool!Served, Stage, Workers, Working, Phases

(* The pool counts with an instance of its own of the library's Cardinality.   *)
LEMMA PoolCounts == ASSUME NEW S PROVE Pool!Cardinality(S) = Cardinality(S)
BY DEF Pool!Cardinality, Cardinality

(* A connection whose phase changes is in the stage of its new phase.          *)
LEMMA StageMoves ==
  ASSUME TypeOK, NEW c \in Conn, NEW p \in Phases, phase' = [phase EXCEPT ![c] = p]
  PROVE  Stages' = [Stages EXCEPT ![c] = IF p \in Working THEN "served"
                                         ELSE IF p = "closed" THEN "over" ELSE p]
<1>1. \A d \in Conn : phase'[d] = IF d = c THEN p ELSE phase[d]
  BY DEF TypeOK
<1>2. \A d \in Conn : d \in Workers' <=> IF d = c THEN p \in Working ELSE d \in Workers
  BY <1>1 DEF Workers
<1>3. \A d \in Conn : Stage(d)' = IF d # c THEN Stage(d)
                                  ELSE IF p \in Working THEN "served"
                                  ELSE IF p = "closed" THEN "over" ELSE p
  BY <1>1, <1>2 DEF Stage
<1> QED BY <1>3 DEF Stages

(* Where no phase changes, no stage does.                                      *)
LEMMA StageStays ==
  ASSUME phase' = phase
  PROVE  Stages' = Stages
BY DEF Stages, Stage, Workers

(* Every connection begins as a new one of the pool.                           *)
LEMMA PoolInit == Init => Pool!Init
<1> SUFFICES ASSUME Init PROVE Pool!Init
  OBVIOUS
<1>1. \A c \in Conn : Stage(c) = "new"
  BY DEF Init, Stage, Workers, Working
<1> QED BY <1>1 DEF Init, Pool!Init

(* Admission takes a slot while one is free, so fewer than Slots are served.   *)
LEMMA PoolStep ==
  ASSUME IInv, [Next]_vars
  PROVE  [Pool!Next]_(Pool!pool)
<1> USE DEF Working, Phases
<1>0. TypeOK /\ Stages = [c \in Conn |-> Stage(c)]
  BY DEF IInv, Stages
<1>1. CASE Shutdown
  BY <1>0, <1>1, StageStays DEF Shutdown, Pool!Stop, Pool!Next, Stages
<1>2. ASSUME NEW c \in Conn, Connect(c)
      PROVE  [Pool!Next]_(Pool!pool)
  <2>1. phase' = [phase EXCEPT ![c] = "waiting"] /\ serving' = serving
    BY <1>2 DEF Connect
  <2>2. Stages[c] = "new" /\ Stages' = [Stages EXCEPT ![c] = "waiting"]
    BY <1>0, <1>2, <2>1, StageMoves DEF Connect, Stages, Stage, Workers
  <2>3. Pool!Arrive(c)
    BY <1>0, <1>2, <2>1, <2>2 DEF Connect, Pool!Arrive, Stages
  <2> QED BY <2>3 DEF Pool!Next
<1>3. ASSUME NEW c \in Conn, Send(c)
      PROVE  [Pool!Next]_(Pool!pool)
  BY <1>3, StageStays DEF Send, Pool!pool, Stages
<1>4. ASSUME NEW c \in Conn, Trickle(c)
      PROVE  [Pool!Next]_(Pool!pool)
  BY <1>4, StageStays DEF Trickle, Pool!pool, Stages
<1>5. ASSUME NEW c \in Conn, Leave(c)
      PROVE  [Pool!Next]_(Pool!pool)
  BY <1>5, StageStays DEF Leave, Pool!pool, Stages
<1>6. ASSUME NEW c \in Conn, Refuse(c)
      PROVE  [Pool!Next]_(Pool!pool)
  <2>1. phase' = [phase EXCEPT ![c] = "closed"] /\ serving' = serving
    BY <1>6 DEF Refuse
  <2>2. Stages[c] = "waiting" /\ Stages' = [Stages EXCEPT ![c] = "over"]
    BY <1>0, <1>6, <2>1, StageMoves DEF Refuse, Stages, Stage, Workers
  <2>3. Pool!TurnAway(c)
    BY <1>0, <1>6, <2>1, <2>2 DEF Refuse, Pool!TurnAway, Stages
  <2> QED BY <2>3 DEF Pool!Next
<1>7. ASSUME NEW c \in Conn, Admit(c)
      PROVE  [Pool!Next]_(Pool!pool)
  <2>1. phase' = [phase EXCEPT ![c] = "started"] /\ serving' = serving
    BY <1>7 DEF Admit
  <2>2. Stages[c] = "waiting" /\ Stages' = [Stages EXCEPT ![c] = "served"]
    BY <1>0, <1>7, <2>1, StageMoves DEF Admit, Stages, Stage, Workers
  <2>3. Pool!Cardinality(Pool!Served) < Slots
    <3>1. free > 0 /\ free \in Nat /\ free + Cardinality(Workers) = Slots
      BY <1>0, <1>7 DEF Admit, TypeOK, IInv, SlotsAccounted
    <3>2. Cardinality(Workers) < Slots
      BY <3>1, WorkersFinite, SlotsAssumption
    <3> QED BY <1>0, <3>2, ServedAreWorkers, PoolCounts
  <2>4. serving
    BY <1>7 DEF Admit
  <2>5. Pool!Serve(c)
    BY <1>0, <2>1, <2>2, <2>3, <2>4 DEF Pool!Serve, Stages
  <2> QED BY <2>5 DEF Pool!Next
<1>8. ASSUME NEW c \in Conn, StartFails(c)
      PROVE  [Pool!Next]_(Pool!pool)
  <2>1. phase' = [phase EXCEPT ![c] = "closed"] /\ serving' = serving
    BY <1>8 DEF StartFails
  <2>2. Stages[c] = "waiting" /\ Stages' = [Stages EXCEPT ![c] = "over"]
    BY <1>0, <1>8, <2>1, StageMoves DEF StartFails, Stages, Stage, Workers
  <2>3. Pool!TurnAway(c)
    BY <1>0, <1>8, <2>1, <2>2 DEF StartFails, Pool!TurnAway, Stages
  <2> QED BY <2>3 DEF Pool!Next
<1>9. ASSUME NEW c \in Conn, Begin(c)
      PROVE  [Pool!Next]_(Pool!pool)
  <2>1. phase' = [phase EXCEPT ![c] = "reading"] /\ serving' = serving
    BY <1>9 DEF Begin
  <2>2. Stages[c] = "served" /\ Stages' = [Stages EXCEPT ![c] = "served"]
    BY <1>0, <1>9, <2>1, StageMoves DEF Begin, Stages, Stage, Workers
  <2>3. Stages' = Stages
    BY <2>2 DEF Stages
  <2> QED BY <2>1, <2>3 DEF Pool!pool, Stages
<1>10. ASSUME NEW c \in Conn, ReadPiece(c)
      PROVE  [Pool!Next]_(Pool!pool)
  BY <1>10, StageStays DEF ReadPiece, Pool!pool, Stages
<1>11. ASSUME NEW c \in Conn, ReadByte(c)
      PROVE  [Pool!Next]_(Pool!pool)
  BY <1>11, StageStays DEF ReadByte, Pool!pool, Stages
<1>12. ASSUME NEW c \in Conn, Parse(c)
      PROVE  [Pool!Next]_(Pool!pool)
  <2>1. PICK p \in {"closing", "asking", "writing"} :
           phase' = [phase EXCEPT ![c] = p] /\ serving' = serving
    BY <1>12 DEF Parse
  <2>2. Stages[c] = "served" /\ Stages' = [Stages EXCEPT ![c] = "served"]
    BY <1>0, <1>12, <2>1, StageMoves DEF Parse, Stages, Stage, Workers
  <2>3. Stages' = Stages
    BY <2>2 DEF Stages
  <2> QED BY <2>1, <2>3 DEF Pool!pool, Stages
<1>13. ASSUME NEW c \in Conn, Ask(c)
      PROVE  [Pool!Next]_(Pool!pool)
  <2>1. phase' = [phase EXCEPT ![c] = "writing"] /\ serving' = serving
    BY <1>13 DEF Ask
  <2>2. Stages[c] = "served" /\ Stages' = [Stages EXCEPT ![c] = "served"]
    BY <1>0, <1>13, <2>1, StageMoves DEF Ask, Stages, Stage, Workers
  <2>3. Stages' = Stages
    BY <2>2 DEF Stages
  <2> QED BY <2>1, <2>3 DEF Pool!pool, Stages
<1>14. ASSUME NEW c \in Conn, Write(c)
      PROVE  [Pool!Next]_(Pool!pool)
  <2>1. phase' = [phase EXCEPT ![c] = "closing"] /\ serving' = serving
    BY <1>14 DEF Write
  <2>2. Stages[c] = "served" /\ Stages' = [Stages EXCEPT ![c] = "served"]
    BY <1>0, <1>14, <2>1, StageMoves DEF Write, Stages, Stage, Workers
  <2>3. Stages' = Stages
    BY <2>2 DEF Stages
  <2> QED BY <2>1, <2>3 DEF Pool!pool, Stages
<1>15. ASSUME NEW c \in Conn, Close(c)
      PROVE  [Pool!Next]_(Pool!pool)
  <2>1. phase' = [phase EXCEPT ![c] = "releasing"] /\ serving' = serving
    BY <1>15 DEF Close
  <2>2. Stages[c] = "served" /\ Stages' = [Stages EXCEPT ![c] = "served"]
    BY <1>0, <1>15, <2>1, StageMoves DEF Close, Stages, Stage, Workers
  <2>3. Stages' = Stages
    BY <2>2 DEF Stages
  <2> QED BY <2>1, <2>3 DEF Pool!pool, Stages
<1>16. ASSUME NEW c \in Conn, Release(c)
      PROVE  [Pool!Next]_(Pool!pool)
  <2>1. phase' = [phase EXCEPT ![c] = "closed"] /\ serving' = serving
    BY <1>16 DEF Release
  <2>2. Stages[c] = "served" /\ Stages' = [Stages EXCEPT ![c] = "over"]
    BY <1>0, <1>16, <2>1, StageMoves DEF Release, Stages, Stage, Workers
  <2>3. Pool!Finish(c)
    BY <1>0, <1>16, <2>1, <2>2 DEF Release, Pool!Finish, Stages
  <2> QED BY <2>3 DEF Pool!Next
<1>17. ASSUME NEW c \in Conn, GiveUp(c)
      PROVE  [Pool!Next]_(Pool!pool)
  <2>1. phase' = [phase EXCEPT ![c] = "closing"] /\ serving' = serving
    BY <1>17 DEF GiveUp
  <2>2. Stages[c] = "served" /\ Stages' = [Stages EXCEPT ![c] = "served"]
    BY <1>0, <1>17, <2>1, StageMoves DEF GiveUp, Stages, Stage, Workers
  <2>3. Stages' = Stages
    BY <2>2 DEF Stages
  <2> QED BY <2>1, <2>3 DEF Pool!pool, Stages
<1>18. ASSUME NEW c \in Conn, Claim(c)
      PROVE  [Pool!Next]_(Pool!pool)
  BY <1>18, StageStays DEF Claim, Pool!pool, Stages
<1>19. ASSUME NEW c \in Conn, Expire(c)
      PROVE  [Pool!Next]_(Pool!pool)
  BY <1>19, StageStays DEF Expire, Pool!pool, Stages
<1>20. CASE UNCHANGED vars
  BY <1>20, StageStays DEF vars, Pool!pool, Stages
<1> QED
  BY <1>1, <1>2, <1>3, <1>4, <1>5, <1>6, <1>7, <1>8, <1>9, <1>10,
     <1>11, <1>12, <1>13, <1>14, <1>15, <1>16, <1>17, <1>18, <1>19, <1>20
     DEF Next, Loop, Worker, Deadline


(* Seen from outside, the server is a pool of Slots workers that serves no     *)
(* connection twice, for any number of connections and slots.                  *)
THEOREM PoolRefinement == Spec => ServesAsPool
<1>1. IInv /\ [Next]_vars => [Pool!Next]_(Pool!pool)
  BY PoolStep
<1> QED BY Induction, PoolInit, <1>1, PTL DEF Spec, ServesAsPool, Pool!Spec
===============================================================================
