------------------------- MODULE ReadinessProbeProofs -------------------------
(* The readiness of one replica, for any number of threads of the health       *)
(* server, any window, and any number of probes, failures and ticks.           *)
EXTENDS ReadinessProbe, TLAPS

-----------------------------------------------------------------------------
(* The inductive invariant.                                                    *)

(* Nothing writes that the process goes on, or that nothing is stored.         *)
Writable == {w \in (Flags \cup {"proof"}) \X BOOLEAN :
               w[1] \in {"terminating", "stop", "stored"} => w[2]}

Fields == [preflight : BOOLEAN, inventory : BOOLEAN, api : BOOLEAN, leader : BOOLEAN,
           stored : BOOLEAN, terminating : BOOLEAN, stop : BOOLEAN, verified : Nat]

Places == {"pause", "checking", "gate", "asked", "listing", "items", "watch", "over"} \cup Asking

LoopState == [pc : Places, why : Asking, todo : Seq(Writable), signalled : BOOLEAN, deferred : BOOLEAN]

ProbeState == [pc : 0..22, now : Nat, proof : Nat, status : {0, 200, 503}]

TypeOK ==
  /\ stats \in Fields /\ loop \in LoopState /\ probe \in [Thread -> ProbeState]
  /\ clock \in Nat \ {0} /\ proven \in Nat /\ proven <= clock /\ stats.verified <= clock
  /\ \A t \in Thread : probe[t].now <= clock
  /\ seen \in [Thread -> SUBSET {"serving", "leading", "delay"}]
  /\ faults \in Nat /\ probes \in Nat

(* The writes still to do, one by one.                                         *)
Pending(w) == \E i \in 1..Len(loop.todo) : loop.todo[i] = w

PastGate == {"list", "listing", "items", "item", "watch", "event"}

Asks(places) == loop.pc \in places \/ (loop.pc = "asked" /\ loop.why \in places)

(* The cycle has settled its list and has begun no other.                      *)
Past ==
  /\ Asks({"watch", "event", "pause", "over"})
  /\ ~Pending(<<"api", TRUE>>) /\ ~Pending(<<"inventory", TRUE>>) /\ ~Pending(<<"preflight", FALSE>>)

(* stop() has begun: its first write is the next one of the main thread.       *)
Stopping ==
  loop.signalled /\ ~stats.terminating =>
    loop.todo # <<>> /\ Head(loop.todo) = <<"terminating", TRUE>>

(* The leadership is written before its proof, and so is its loss.             *)
LeaderBeforeProof ==
  ~loop.signalled =>
    \A i \in 1..Len(loop.todo) : loop.todo[i] = <<"proof", FALSE>> =>
       /\ ~stats.leader \/ \E j \in 1..i-1 : loop.todo[j] = <<"leader", FALSE>>
       /\ \A j \in 1..i-1 : loop.todo[j] # <<"leader", TRUE>>

(* Where the loop is says what it has passed.                                  *)
Passed ==
  ~loop.signalled =>
    /\ Asks(PastGate) => stats.stored \/ Pending(<<"stored", TRUE>>)
    /\ Asks(PastGate \cup {"gate", "save"}) =>
         /\ stats.preflight \/ (loop.pc = "gate" /\ Pending(<<"preflight", TRUE>>))
         /\ ~Pending(<<"preflight", FALSE>>)
    /\ Pending(<<"inventory", TRUE>>) => loop.pc = "watch" /\ Len(loop.todo) = 1
    /\ Pending(<<"api", TRUE>>) => loop.pc = "items"
    /\ stats.inventory => Past /\ (loop.pc \in {"pause", "over"} => Pending(<<"inventory", FALSE>>))

(* A leader was confirmed, at its proof or later.                              *)
Confirmed ==
  /\ ~stats.terminating /\ stats.leader => proven > 0
  /\ proven > 0 => stats.verified <= proven

Listed == ~stats.terminating /\ stats.inventory => stats.preflight /\ stats.stored

(* Evaluation t cannot find the leadership fresh as it stands: its proof was   *)
(* too old already when the leader flag was read.                              *)
TooOld(t) ==
  /\ stats.verified + Window < clock
  /\ probe[t].pc = 10 => stats.verified + Window < probe[t].now

(* What evaluation t has found so far, as far as `what' is concerned, while    *)
(* `hope' is still true.                                                       *)
Found(t, what, hope) ==
  probe[t].pc \in 8..12 /\ hope /\ what \notin seen[t] => probe[t].pc \in 8..10 /\ TooOld(t)

FoundLeading(t) ==
  /\ Found(t, "leading", ~stats.terminating)
  /\ probe[t].pc \in 12..20 => "leading" \in seen[t]

Undelayed(t) == Evaluating(t) /\ "delay" \notin seen[t]

FoundServing(t) ==
  Undelayed(t) =>
    /\ probe[t].pc \in 6..20 /\ ~stats.terminating => loop.signalled \/ Past
    /\ Found(t, "serving", ~stats.terminating /\ stats.api /\ stats.inventory)
    /\ probe[t].pc = 13 /\ ~stats.terminating /\ stats.api /\ stats.inventory => "serving" \in seen[t]
    /\ probe[t].pc \in {14, 15} /\ ~stats.terminating /\ stats.inventory => "serving" \in seen[t]
    /\ probe[t].pc = 16 /\ ~stats.terminating => "serving" \in seen[t]
    /\ probe[t].pc \in 17..20 => "serving" \in seen[t]

Unanswered(t) == Evaluating(t) => probe[t].status = 0

IInv ==
  /\ TypeOK
  /\ Stopping /\ LeaderBeforeProof /\ Passed /\ Confirmed /\ Listed
  /\ \A t \in Thread : FoundLeading(t) /\ FoundServing(t) /\ Unanswered(t)

-----------------------------------------------------------------------------
(* The reads and the writes.                                                   *)

(* The reads of an evaluation, in their order.                                 *)
LEMMA ReadsAre ==
  /\ Len(Reads) = 20
  /\ Reads[1] = "preflight" /\ Reads[2] = "inventory" /\ Reads[3] = "api" /\ Reads[4] = "api"
  /\ Reads[5] = "inventory" /\ Reads[6] = "running" /\ Reads[7] = "leader" /\ Reads[8] = "verified"
  /\ Reads[9] = "now" /\ Reads[10] = "age" /\ Reads[11] = "running" /\ Reads[12] = "stored"
  /\ Reads[13] = "api" /\ Reads[14] = "leader" /\ Reads[15] = "inventory" /\ Reads[16] = "running"
  /\ Reads[17] = "preflight" /\ Reads[18] = "proof" /\ Reads[19] = "fresh" /\ Reads[20] = "stored"
BY DEF Reads, ReadyReads, CaptureReads

(* The writes of the loop and of stop() are of these.                          *)
LEMMA WritesAre ==
  /\ <<"preflight", TRUE>> \in Writable /\ <<"preflight", FALSE>> \in Writable
  /\ <<"inventory", TRUE>> \in Writable /\ <<"inventory", FALSE>> \in Writable
  /\ <<"api", TRUE>> \in Writable /\ <<"api", FALSE>> \in Writable
  /\ <<"leader", TRUE>> \in Writable /\ <<"leader", FALSE>> \in Writable
  /\ <<"proof", TRUE>> \in Writable /\ <<"proof", FALSE>> \in Writable
  /\ <<"stored", TRUE>> \in Writable
  /\ <<"terminating", TRUE>> \in Writable /\ <<"stop", TRUE>> \in Writable
BY DEF Writable, Flags

(* A write is its field and its value.                                         *)
LEMMA WriteIs ==
  ASSUME NEW w \in Writable
  PROVE  /\ w[1] \in Flags \cup {"proof"} /\ w[2] \in BOOLEAN
         /\ \A f, v : w = <<f, v>> <=> w[1] = f /\ w[2] = v
BY DEF Writable

(* Two lists of writes, one after the other.                                   *)
LEMMA TwoThenOne ==
  ASSUME NEW S, NEW a \in S, NEW b \in S, NEW c \in S, NEW s, s = <<a, b>> \o <<c>>
  PROVE  s \in Seq(S) /\ Len(s) = 3 /\ s[1] = a /\ s[2] = b /\ s[3] = c
OBVIOUS

(* Two writes followed by two writes are four.                                 *)
LEMMA TwoThenTwo ==
  ASSUME NEW S, NEW a \in S, NEW b \in S, NEW c \in S, NEW d \in S, NEW s, s = <<a, b>> \o <<c, d>>
  PROVE  s \in Seq(S) /\ Len(s) = 4 /\ s[1] = a /\ s[2] = b /\ s[3] = c /\ s[4] = d
OBVIOUS

(* A step that leaves everything an evaluation depends on at least as bad.     *)
Drift ==
  /\ stats.terminating => stats'.terminating
  /\ stats'.verified \in {stats.verified, 0} \/ (stats'.verified = clock' /\ proven' = clock')
  /\ clock <= clock'
  /\ /\ ~stats'.terminating /\ (loop.signalled \/ Past)
     /\ clock' = clock /\ ~(At("pause") /\ loop' # loop)
     => /\ loop'.signalled \/ Past'
        /\ stats'.api => stats.api
        /\ stats'.inventory => stats.inventory

LoopInv == Stopping /\ LeaderBeforeProof /\ Passed /\ Confirmed /\ Listed

(* What the evaluations have seen after a step.                                *)
LEMMA ObservedStep ==
  ASSUME seen \in [Thread -> SUBSET {"serving", "leading", "delay"}], Observed
  PROVE  /\ seen' \in [Thread -> SUBSET {"serving", "leading", "delay"}]
         /\ \A t \in Thread : probe'[t].pc > 0 =>
              /\ \A what \in seen[t] : what \in seen'[t]
              /\ Serving' => "serving" \in seen'[t]
              /\ Leading' => "leading" \in seen'[t]
              /\ /\ probe[t].pc > 0
                 /\ clock' # clock \/ (At("pause") /\ loop' # loop)
                 => "delay" \in seen'[t]
BY DEF Observed, Evaluating

(* A step that an evaluation takes no part in.                                 *)
LEMMA DriftStep ==
  ASSUME IInv, Drift, Observed, Confirmed', Listed', NEW t \in Thread, probe'[t] = probe[t],
         clock' \in Nat \ {0}, stats' \in Fields
  PROVE  FoundLeading(t)' /\ FoundServing(t)' /\ Unanswered(t)'
<1>1. /\ probe[t] \in ProbeState /\ probe[t].pc \in Nat /\ probe[t].now \in Nat
      /\ stats.verified \in Nat /\ stats'.verified \in Nat
      /\ clock \in Nat /\ clock' \in Nat /\ clock' > 0
      /\ Window \in Nat
  BY BoundsAssumption DEF IInv, TypeOK, ProbeState, Fields
<1>2. probe'[t].pc > 0 =>
        /\ \A what \in seen[t] : what \in seen'[t]
        /\ Serving' => "serving" \in seen'[t]
        /\ Leading' => "leading" \in seen'[t]
        /\ /\ probe[t].pc > 0
           /\ clock' # clock \/ (At("pause") /\ loop' # loop)
           => "delay" \in seen'[t]
  BY ObservedStep DEF IInv, TypeOK
<1>3. ASSUME TooOld(t), ~TooOld(t)'
      PROVE  ~stats'.terminating => Leading'
  BY <1>1, <1>3 DEF TooOld, Leading, Drift
<1>4. FoundLeading(t)'
  <2>1. FoundLeading(t)
    BY DEF IInv
  <2> QED BY <1>1, <1>2, <1>3, <2>1 DEF FoundLeading, Found, Drift
<1>5. FoundServing(t)'
  <2>1. SUFFICES ASSUME Undelayed(t)' PROVE FoundServing(t)'
    BY DEF FoundServing
  <2>2. Undelayed(t) /\ clock' = clock /\ ~(At("pause") /\ loop' # loop)
    BY <1>2, <2>1 DEF Undelayed, Evaluating
  <2>3. ASSUME probe[t].pc \in 6..20, ~stats'.terminating
        PROVE  /\ ~stats.terminating
               /\ loop'.signalled \/ Past'
               /\ stats'.api => stats.api
               /\ stats'.inventory => stats.inventory
    BY <2>2, <2>3 DEF IInv, FoundServing, Drift
  <2>4. Leading' /\ stats'.api /\ stats'.inventory => Serving'
    BY DEF Leading, Listed, Serving
  <2>5. Found(t, "serving", ~stats.terminating /\ stats.api /\ stats.inventory)'
    <3>1. Found(t, "serving", ~stats.terminating /\ stats.api /\ stats.inventory)
      BY <2>2 DEF IInv, FoundServing
    <3> QED BY <1>1, <1>2, <1>3, <2>3, <2>4, <3>1 DEF Found
  <2>6. probe[t].pc > 0 /\ probe'[t].pc > 0
    BY <2>1 DEF Undelayed, Evaluating
  <2> QED BY <1>1, <1>2, <2>2, <2>3, <2>5, <2>6 DEF IInv, FoundServing
<1>6. Unanswered(t)'
  BY DEF IInv, Unanswered, Evaluating
<1> QED BY <1>4, <1>5, <1>6

-----------------------------------------------------------------------------
(* The threads of the health server.                                           *)

(* What a read that goes on has found, and where it goes.                      *)
LEMMA LookEffect ==
  ASSUME IInv, NEW t \in Thread, Look(t)
  PROVE  /\ UNCHANGED <<stats, loop, clock, proven, faults, probes>>
         /\ \A u \in Thread : u # t => probe'[u] = probe[u]
         /\ probe' \in [Thread -> ProbeState] /\ probe'[t].now <= clock
         /\ probe[t].pc \in 1..20
         /\ \/ probe'[t].pc \in {0, 21} /\ probe'[t].status # 200
            \/ /\ Open(t, Reads[probe[t].pc])
               /\ probe'[t].pc = IF probe[t].pc = 20 THEN 0 ELSE probe[t].pc + 1
               /\ probe'[t].now = IF probe[t].pc = 9 THEN clock ELSE probe[t].now
               /\ probe'[t].status = IF probe[t].pc = 20 THEN 200 ELSE 0
         /\ probe'[t].pc > 0 => probe'[t].status = 0
<1> DEFINE i == probe[t].pc
           n == IF Open(t, Reads[i])
                THEN [pc |-> IF i = 20 THEN 0 ELSE i + 1,
                      now |-> IF Reads[i] = "now" THEN clock ELSE probe[t].now,
                      proof |-> IF Reads[i] = "proof" THEN stats.verified ELSE probe[t].proof,
                      status |-> IF i = 20 THEN 200 ELSE 0]
                ELSE IF Invalidates(i) THEN [NoProbe EXCEPT !.pc = 21]
                ELSE [NoProbe EXCEPT !.status = 503]
<1>1. probe \in [Thread -> ProbeState] /\ probe[t] \in ProbeState /\ clock \in Nat
      /\ stats.verified \in Nat /\ probe[t].now <= clock
  BY DEF IInv, TypeOK, Fields
<1>2. i \in 1..20 /\ probe' = [probe EXCEPT ![t] = n]
  BY ReadsAre DEF Look
<1>3. Reads[i] = "now" <=> i = 9
  BY <1>2, ReadsAre
<1>4. /\ n \in ProbeState /\ n.now <= clock
      /\ \/ n.pc \in {0, 21} /\ n.status # 200
         \/ /\ Open(t, Reads[i])
            /\ n.pc = IF i = 20 THEN 0 ELSE i + 1
            /\ n.now = IF i = 9 THEN clock ELSE probe[t].now
            /\ n.status = IF i = 20 THEN 200 ELSE 0
      /\ n.pc > 0 => n.status = 0
  <2>1. CASE Open(t, Reads[i])
    <3>1. n = [pc |-> IF i = 20 THEN 0 ELSE i + 1,
               now |-> IF Reads[i] = "now" THEN clock ELSE probe[t].now,
               proof |-> IF Reads[i] = "proof" THEN stats.verified ELSE probe[t].proof,
               status |-> IF i = 20 THEN 200 ELSE 0]
      BY <2>1
    <3>2. probe[t].now \in Nat /\ probe[t].proof \in Nat
      BY <1>1 DEF ProbeState
    <3> QED BY <1>1, <1>2, <1>3, <2>1, <3>1, <3>2 DEF ProbeState
  <2>2. CASE ~Open(t, Reads[i])
    <3>1. n \in {[NoProbe EXCEPT !.pc = 21], [NoProbe EXCEPT !.status = 503]}
      BY <2>2
    <3> HIDE DEF n
    <3> QED BY <1>1, <3>1 DEF NoProbe, ProbeState
  <2> QED BY <2>1, <2>2
<1> HIDE DEF n
<1>5. probe'[t] = n /\ probe' \in [Thread -> ProbeState]
      /\ \A u \in Thread : u # t => probe'[u] = probe[u]
  BY <1>1, <1>2, <1>4
<1> QED BY <1>2, <1>4, <1>5 DEF Look

(* A read keeps what the evaluation knows.                                     *)
LEMMA LookStep ==
  ASSUME IInv, NEW t \in Thread, Look(t), Observed
  PROVE  FoundLeading(t)' /\ FoundServing(t)' /\ Unanswered(t)'
<1> DEFINE i == probe[t].pc
<1>1. /\ UNCHANGED <<stats, loop, clock, proven>> /\ i \in 1..20
      /\ probe[t] \in ProbeState /\ probe[t].now \in Nat
      /\ stats \in Fields /\ stats.verified \in Nat /\ clock \in Nat /\ proven \in Nat /\ Window \in Nat
  BY LookEffect, BoundsAssumption DEF IInv, TypeOK, ProbeState, Fields
<1>2. probe'[t].pc > 0 =>
        /\ \A what \in seen[t] : what \in seen'[t]
        /\ Serving' => "serving" \in seen'[t]
        /\ Leading' => "leading" \in seen'[t]
  BY ObservedStep DEF IInv, TypeOK
<1>3. (Serving' <=> Serving) /\ (Leading' <=> Leading) /\ (Past' <=> Past)
  BY <1>1 DEF Serving, Leading, Past, Asks, Pending
<1>4. CASE probe'[t].pc \in {0, 21} /\ probe'[t].status # 200
  <2>1. probe'[t].pc > 0 => probe'[t].status = 0
    BY LookEffect
  <2> QED BY <1>4, <2>1 DEF FoundLeading, FoundServing, Found, Undelayed, Evaluating, Unanswered
<1>5. CASE /\ Open(t, Reads[i])
           /\ probe'[t].pc = IF i = 20 THEN 0 ELSE i + 1
           /\ probe'[t].now = IF i = 9 THEN clock ELSE probe[t].now
           /\ probe'[t].status = IF i = 20 THEN 200 ELSE 0
  <2>1. CASE i = 20
    BY <1>5, <2>1 DEF FoundLeading, FoundServing, Found, Undelayed, Evaluating, Unanswered
  <2>2. CASE i # 20
    <3>1. probe'[t].pc = i + 1 /\ i + 1 \in 2..20 /\ Evaluating(t) /\ Evaluating(t)' /\ Unanswered(t)'
      BY <1>1, <1>5, <2>2 DEF Evaluating, Unanswered
    <3>2. i = 7 /\ ~stats.terminating /\ ~Leading => TooOld(t)'
      <4>1. i = 7 => stats.leader
        BY <1>5, ReadsAre DEF Open
      <4> QED BY <1>1, <3>1, <4>1 DEF IInv, Confirmed, Leading, TooOld
    <3>3. i \in 8..9 /\ TooOld(t) => TooOld(t)'
      BY <1>1, <1>5, <3>1 DEF TooOld
    <3>4. i = 10 => ~TooOld(t)
      <4>1. i = 10 => stats.verified <= probe[t].now /\ probe[t].now - stats.verified <= Window
        BY <1>5, ReadsAre DEF Open
      <4> QED BY <1>1, <4>1 DEF TooOld
    <3>5. i \in {11, 16} => ~stats.terminating
      BY <1>5, ReadsAre DEF Open
    <3>6. (i \in {5, 15} => stats.inventory) /\ (i = 13 => stats.api)
      BY <1>5, ReadsAre DEF Open
    <3>7. ASSUME NEW what, NEW hope \in BOOLEAN, Found(t, what, hope), hope => ~stats.terminating,
                 hope /\ Leading => what \in seen'[t]
          PROVE  probe'[t].pc \in 8..12 /\ hope /\ what \notin seen'[t]
                 => probe'[t].pc \in 8..10 /\ TooOld(t)'
      BY <1>1, <1>2, <3>1, <3>2, <3>3, <3>4, <3>7 DEF Found
    <3>8. FoundLeading(t)'
      <4>1. FoundLeading(t) /\ stats.terminating \in BOOLEAN
        BY <1>1 DEF IInv, Fields
      <4>2. Found(t, "leading", ~stats.terminating)'
        <5>1. probe'[t].pc \in 8..12 /\ ~stats.terminating /\ "leading" \notin seen'[t]
                 => probe'[t].pc \in 8..10 /\ TooOld(t)'
          BY <1>2, <1>3, <3>1, <3>7, <4>1 DEF FoundLeading, Evaluating
        <5> QED BY <1>1, <5>1 DEF Found
      <4> QED BY <1>1, <1>2, <3>1, <3>5, <4>1, <4>2 DEF FoundLeading, Found, Evaluating
    <3>9. FoundServing(t)'
      <4>1. SUFFICES ASSUME Undelayed(t)' PROVE FoundServing(t)'
        BY DEF FoundServing
      <4>2. Undelayed(t) /\ FoundServing(t)
        BY <1>2, <3>1, <4>1 DEF IInv, Undelayed, Evaluating
      <4>3. probe'[t].pc \in 6..20 /\ ~stats.terminating => loop.signalled \/ Past
        BY <1>1, <3>1, <3>6, <4>2 DEF FoundServing, IInv, Passed
      <4> DEFINE hope == ~stats.terminating /\ stats.api /\ stats.inventory
      <4>4. hope \in BOOLEAN
        BY <1>1 DEF Fields
      <4>5. hope /\ Leading => Serving
        BY DEF IInv, Listed, Serving
      <4>6. Found(t, "serving", hope)
        BY <4>2 DEF FoundServing
      <4>7. probe'[t].pc \in 8..12 /\ hope /\ "serving" \notin seen'[t]
                 => probe'[t].pc \in 8..10 /\ TooOld(t)'
        <5> HIDE DEF hope
        <5>1. hope => ~stats.terminating
          BY DEF hope
        <5> QED BY <1>2, <1>3, <3>1, <3>7, <4>4, <4>5, <4>6, <5>1 DEF Evaluating
      <4>8. Found(t, "serving", ~stats.terminating /\ stats.api /\ stats.inventory)'
        BY <1>1, <4>7 DEF Found
      <4> QED BY <1>1, <1>2, <1>3, <3>1, <3>5, <3>6, <4>2, <4>3, <4>6, <4>8 DEF FoundServing, Found, Evaluating
    <3> QED BY <3>1, <3>8, <3>9
  <2> QED BY <2>1, <2>2
<1> QED BY <1>4, <1>5, LookEffect

(* A step that leaves the fields and the loop keeps what they say.             *)
LEMMA LoopUnchanged ==
  ASSUME LoopInv, UNCHANGED <<stats, loop, proven>>
  PROVE  LoopInv'
<1>1. Stopping' /\ LeaderBeforeProof' /\ Confirmed' /\ Listed'
  BY DEF LoopInv, Stopping, LeaderBeforeProof, Confirmed, Listed
<1>2. (\A w : Pending(w)' <=> Pending(w)) /\ (\A places : Asks(places)' <=> Asks(places))
  BY DEF Pending, Asks
<1>3. Past' <=> Past
  BY <1>2 DEF Past
<1>4. Passed'
  BY <1>2, <1>3 DEF LoopInv, Passed
<1> QED BY <1>1, <1>4 DEF LoopInv

(* A thread of the server writes the leadership only.                          *)
LEMMA ServerDrift ==
  ASSUME TypeOK, UNCHANGED <<loop, clock>>, stats'.verified \in {stats.verified, 0},
         stats'.terminating = stats.terminating, stats'.api = stats.api,
         stats'.inventory = stats.inventory
  PROVE  Drift
<1>1. Past' <=> Past
  BY DEF Past, Asks, Pending
<1>2. clock <= clock'
  BY DEF TypeOK
<1> QED BY <1>1, <1>2 DEF Drift

(* An evaluation keeps the invariant, and so do those beside it.               *)
LEMMA EvaluationStep ==
  ASSUME IInv, NEW t \in Thread, Evaluation(t), Observed
  PROVE  IInv'
<1> USE DEF LoopInv
<1>1. seen' \in [Thread -> SUBSET {"serving", "leading", "delay"}]
  BY ObservedStep DEF IInv, TypeOK
<1>2. CASE Look(t)
  <2>1. TypeOK'
    BY <1>1, <1>2, LookEffect DEF IInv, TypeOK
  <2>2. LoopInv'
    BY <1>2, LookEffect, LoopUnchanged DEF IInv
  <2>3. Drift
    BY <1>2, LookEffect, ServerDrift DEF IInv
  <2>4. ASSUME NEW u \in Thread, u # t
        PROVE  FoundLeading(u)' /\ FoundServing(u)' /\ Unanswered(u)'
    <3>1. probe'[u] = probe[u]
      BY <1>2, <2>4, LookEffect
    <3> QED BY <2>1, <2>2, <2>3, <3>1, DriftStep DEF TypeOK
  <2>5. FoundLeading(t)' /\ FoundServing(t)' /\ Unanswered(t)'
    BY <1>2, LookStep
  <2> QED BY <2>1, <2>2, <2>4, <2>5 DEF IInv
<1>3. CASE Begin(t)
  <2>1. /\ UNCHANGED <<stats, loop, clock, proven, faults>> /\ probes' = probes + 1
        /\ probe' = [probe EXCEPT ![t] = [NoProbe EXCEPT !.pc = 1]]
    BY <1>3 DEF Begin
  <2>2. [NoProbe EXCEPT !.pc = 1] = [pc |-> 1, now |-> 0, proof |-> 0, status |-> 0]
    BY DEF NoProbe
  <2>3. /\ probe'[t] = [pc |-> 1, now |-> 0, proof |-> 0, status |-> 0]
        /\ probe' \in [Thread -> ProbeState]
        /\ \A u \in Thread : u # t => probe'[u] = probe[u]
    BY <2>1, <2>2 DEF IInv, TypeOK, ProbeState
  <2>4. TypeOK'
    <3>1. \A u \in Thread : probe'[u].now <= clock'
      BY <2>1, <2>3 DEF IInv, TypeOK
    <3> QED BY <1>1, <2>1, <2>3, <3>1 DEF IInv, TypeOK
  <2>5. LoopInv'
    BY <2>1, LoopUnchanged DEF IInv
  <2>6. Drift
    BY <2>1, ServerDrift DEF IInv
  <2>7. ASSUME NEW u \in Thread, u # t
        PROVE  FoundLeading(u)' /\ FoundServing(u)' /\ Unanswered(u)'
    BY <2>3, <2>4, <2>5, <2>6, <2>7, DriftStep DEF TypeOK
  <2>8. FoundLeading(t)' /\ FoundServing(t)' /\ Unanswered(t)'
    BY <2>3 DEF FoundLeading, FoundServing, Found, Unanswered
  <2> QED BY <2>4, <2>5, <2>7, <2>8 DEF IInv
<1>4. CASE Invalidate(t)
  <2>1. UNCHANGED <<loop, clock, proven, faults, probes>>
    BY <1>4 DEF Invalidate
  <2>2. probe \in [Thread -> ProbeState] /\ probe[t] \in ProbeState /\ stats \in Fields
    BY DEF IInv, TypeOK
  <2>3. /\ probe' \in [Thread -> ProbeState]
        /\ \A u \in Thread : u # t => probe'[u] = probe[u]
        /\ probe'[t].pc \in {0, 22} /\ probe'[t].now <= clock
        /\ probe'[t].pc = 22 => probe'[t].status = probe[t].status
        /\ probe[t].pc > 20
    <3>1. CASE probe[t].pc = 21
      <4>1. probe' = [probe EXCEPT ![t] = [probe[t] EXCEPT !.pc = 22]]
        BY <1>4, <3>1, ReadsAre DEF Invalidate
      <4>2. /\ [probe[t] EXCEPT !.pc = 22] \in ProbeState
            /\ [probe[t] EXCEPT !.pc = 22].pc = 22
            /\ [probe[t] EXCEPT !.pc = 22].now = probe[t].now
            /\ [probe[t] EXCEPT !.pc = 22].status = probe[t].status
        BY <2>2 DEF ProbeState
      <4> DEFINE n == [probe[t] EXCEPT !.pc = 22]
      <4> HIDE DEF n
      <4> QED BY <2>2, <3>1, <4>1, <4>2 DEF IInv, TypeOK, n
    <3>2. CASE probe[t].pc = 22
      <4>1. probe' = [probe EXCEPT ![t] = [NoProbe EXCEPT !.status = 503]]
        BY <1>4, <3>2, ReadsAre DEF Invalidate
      <4>2. [NoProbe EXCEPT !.status = 503] = [pc |-> 0, now |-> 0, proof |-> 0, status |-> 503]
        BY DEF NoProbe
      <4> QED BY <2>2, <3>2, <4>1, <4>2 DEF IInv, TypeOK, ProbeState
    <3>3. probe[t].pc \in {21, 22}
      BY <1>4, <2>2, ReadsAre DEF Invalidate, ProbeState
    <3> QED BY <3>1, <3>2, <3>3
  <2>4. /\ stats' \in Fields
        /\ stats'.verified \in {stats.verified, 0}
        /\ stats'.leader => stats.leader
        /\ stats'.terminating = stats.terminating /\ stats'.api = stats.api
        /\ stats'.inventory = stats.inventory /\ stats'.preflight = stats.preflight
        /\ stats'.stored = stats.stored
    <3>1. \/ stats' = [stats EXCEPT !.leader = FALSE]
          \/ stats' = [stats EXCEPT !.verified = 0]
      BY <1>4 DEF Invalidate
    <3>2. CASE stats' = [stats EXCEPT !.leader = FALSE]
      BY <2>2, <3>2 DEF Fields
    <3>3. CASE stats' = [stats EXCEPT !.verified = 0]
      BY <2>2, <3>3 DEF Fields
    <3> QED BY <3>1, <3>2, <3>3
  <2>5. TypeOK'
    <3>1. \A u \in Thread : probe'[u].now <= clock'
      BY <2>1, <2>3 DEF IInv, TypeOK
    <3> QED BY <1>1, <2>1, <2>3, <2>4, <3>1 DEF IInv, TypeOK
  <2>6. LoopInv'
    <3>1. Stopping' /\ LeaderBeforeProof'
      BY <2>1, <2>4 DEF IInv, Stopping, LeaderBeforeProof
    <3>2. Passed'
      BY <2>1, <2>4 DEF IInv, Passed, Past, Asks, Pending
    <3>3. Confirmed' /\ Listed'
      BY <2>1, <2>4 DEF IInv, TypeOK, Confirmed, Listed
    <3> QED BY <3>1, <3>2, <3>3
  <2>7. Drift
    BY <2>1, <2>4, ServerDrift DEF IInv
  <2>8. ASSUME NEW u \in Thread, u # t
        PROVE  FoundLeading(u)' /\ FoundServing(u)' /\ Unanswered(u)'
    BY <2>3, <2>5, <2>6, <2>7, <2>8, DriftStep DEF TypeOK
  <2>9. FoundLeading(t)' /\ FoundServing(t)' /\ Unanswered(t)'
    <3>1. FoundLeading(t)' /\ FoundServing(t)'
      BY <2>3 DEF FoundLeading, FoundServing, Found
    <3>2. Unanswered(t) /\ Evaluating(t)
      BY <2>2, <2>3 DEF IInv, Evaluating, ProbeState
    <3> QED BY <2>3, <3>1, <3>2 DEF Unanswered, Evaluating
  <2> QED BY <2>5, <2>6, <2>8, <2>9 DEF IInv
<1> QED BY <1>2, <1>3, <1>4 DEF Evaluation

(* Time passes: no proof gets any younger.                                     *)
LEMMA TickStep ==
  ASSUME IInv, Tick, Observed
  PROVE  IInv'
<1>1. UNCHANGED <<stats, loop, probe, proven, faults, probes>> /\ clock' = clock + 1
  BY DEF Tick
<1>2. TypeOK'
  <2>1. seen' \in [Thread -> SUBSET {"serving", "leading", "delay"}]
    BY ObservedStep DEF IInv, TypeOK
  <2>2. ASSUME NEW t \in Thread PROVE probe[t].now \in Nat
    <3>1. probe[t] \in ProbeState
      BY DEF IInv, TypeOK
    <3> QED BY <3>1 DEF ProbeState
  <2>3. stats.verified \in Nat
    BY DEF IInv, TypeOK, Fields
  <2> QED BY <1>1, <2>1, <2>2, <2>3 DEF IInv, TypeOK
<1>3. LoopInv'
  BY <1>1, LoopUnchanged DEF IInv, LoopInv
<1>4. Drift
  BY <1>1 DEF Drift, IInv, TypeOK
<1>5. ASSUME NEW t \in Thread PROVE FoundLeading(t)' /\ FoundServing(t)' /\ Unanswered(t)'
  BY <1>1, <1>2, <1>3, <1>4, DriftStep DEF TypeOK, LoopInv
<1> QED BY <1>2, <1>3, <1>5 DEF IInv, LoopInv

-----------------------------------------------------------------------------
(* The main thread.                                                            *)

(* What a handler leaves.                                                      *)
LEMMA WritesEffect ==
  ASSUME IInv, NEW s \in Seq(Writable), NEW place \in Places, Writes(s, place)
  PROVE  /\ loop' \in LoopState /\ loop'.pc = place /\ loop'.todo = s
         /\ loop'.why = loop.why /\ loop'.signalled = loop.signalled
BY DEF IInv, TypeOK, LoopState, Writes

(* Where nothing is left to write.                                             *)
LEMMA NothingPending ==
  ASSUME IInv, loop.todo = <<>>, ~loop.signalled
  PROVE  /\ Asks(PastGate) => stats.stored
         /\ Asks(PastGate \cup {"gate", "save"}) => stats.preflight
         /\ stats.inventory => Asks({"watch", "event"})
<1>1. \A w : ~Pending(w)
  BY DEF Pending
<1>2. loop.why \in Asking
  BY DEF IInv, TypeOK, LoopState
<1> QED BY <1>1, <1>2 DEF IInv, Passed, Past, Asks, Asking

(* A handler writes no field: what it plans to write decides.                  *)
LEMMA HandlerStep ==
  ASSUME IInv, Observed, loop.todo = <<>>,
         loop' \in LoopState, loop'.signalled = loop.signalled,
         UNCHANGED <<stats, probe, clock, proven, probes>>, faults' \in Nat,
         ~loop.signalled => /\ LeaderBeforeProof' /\ Passed'
                            /\ Past /\ ~(At("pause") /\ loop' # loop) => Past'
  PROVE  IInv'
<1>1. TypeOK'
  BY ObservedStep DEF IInv, TypeOK
<1>2. Stopping' /\ LeaderBeforeProof' /\ Passed'
  BY DEF IInv, Stopping, LeaderBeforeProof, Passed
<1>3. Confirmed' /\ Listed'
  BY DEF IInv, Confirmed, Listed
<1>4. Drift
  BY DEF Drift, IInv, TypeOK
<1>5. ASSUME NEW t \in Thread PROVE FoundLeading(t)' /\ FoundServing(t)' /\ Unanswered(t)'
  BY <1>1, <1>3, <1>4, DriftStep DEF TypeOK
<1> QED BY <1>1, <1>2, <1>3, <1>5 DEF IInv


(* The writes that end a cycle: the inventory is not any more to be shown as    *)
(* complete, and the leadership, if it is lost, before its proof.              *)
InventoryLost == <<"inventory", FALSE>>
LeaderLost    == <<"leader", FALSE>>
ProofLost     == <<"proof", FALSE>>
ApiLost       == <<"api", FALSE>>
PreflightLost == <<"preflight", FALSE>>

Losses == {InventoryLost, LeaderLost, ProofLost, ApiLost, PreflightLost}

Ending(s) ==
  /\ s \in Seq(Losses)
  /\ \E i \in 1..Len(s) : s[i] = InventoryLost
  /\ \A i \in 1..Len(s) : s[i] = ProofLost => \E j \in 1..i-1 : s[j] = LeaderLost

Confident(s) == \A i \in 1..Len(s) : s[i] # PreflightLost

(* What the losses write, and that they are told apart.                        *)
LEMMA LossesAre ==
  /\ Losses \subseteq Writable
  /\ <<"leader", TRUE>> \notin Losses /\ <<"api", TRUE>> \notin Losses
  /\ <<"inventory", TRUE>> \notin Losses
  /\ InventoryLost \notin {LeaderLost, ProofLost, ApiLost, PreflightLost}
  /\ LeaderLost \notin {ProofLost, ApiLost, PreflightLost}
  /\ ProofLost \notin {ApiLost, PreflightLost}
  /\ ApiLost # PreflightLost
BY WritesAre DEF Losses, InventoryLost, LeaderLost, ProofLost, ApiLost, PreflightLost

(* The cycle is over, out of the watch or before it.                           *)
LEMMA CycleEnds ==
  ASSUME IInv, Observed, loop.todo = <<>>, NEW s,
         loop' \in LoopState, loop'.signalled = loop.signalled,
         loop'.pc \in {"pause", "over"}, loop'.todo = s,
         UNCHANGED <<stats, probe, clock, proven, probes>>, faults' \in Nat,
         Ending(s),
         Asks({"watch", "event", "pause", "over"}) => Confident(s)
  PROVE  IInv'
<1> SUFFICES ASSUME ~loop.signalled
             PROVE  /\ LeaderBeforeProof' /\ Passed'
                    /\ Past /\ ~(At("pause") /\ loop' # loop) => Past'
  BY HandlerStep
<1>1. /\ Len(s) \in Nat
      /\ \A i \in 1..Len(s) : /\ s[i] # <<"leader", TRUE>> /\ s[i] # <<"api", TRUE>>
                              /\ s[i] # <<"inventory", TRUE>>
  <2>1. Len(s) \in Nat /\ \A i \in 1..Len(s) : s[i] \in Losses
    BY DEF Ending
  <2> QED BY <2>1, LossesAre
<1>2. LeaderBeforeProof'
  <2> SUFFICES ASSUME NEW i \in 1..Len(s), s[i] = <<"proof", FALSE>>
               PROVE  /\ \E j \in 1..i-1 : s[j] = <<"leader", FALSE>>
                      /\ \A j \in 1..i-1 : s[j] # <<"leader", TRUE>>
    BY DEF LeaderBeforeProof
  <2>1. \A j \in 1..i-1 : j \in 1..Len(s)
    BY <1>1
  <2> QED BY <1>1, <2>1 DEF Ending, ProofLost, LeaderLost
<1>3. /\ ~Pending(<<"api", TRUE>>)' /\ ~Pending(<<"inventory", TRUE>>)'
      /\ Pending(<<"inventory", FALSE>>)'
      /\ Asks({"watch", "event", "pause", "over"}) => ~Pending(<<"preflight", FALSE>>)'
  BY <1>1 DEF Pending, Ending, Confident, InventoryLost, PreflightLost
<1>4. Asks({"watch", "event", "pause", "over"})' /\ ~Asks(PastGate \cup {"gate", "save"})' /\ ~Asks(PastGate)'
  BY DEF Asks, PastGate
<1>5. Past => Past'
  BY <1>3, <1>4 DEF Past
<1>6. stats.inventory => Past
  BY DEF IInv, Passed
<1>7. loop'.pc # "gate" /\ loop'.pc # "items" /\ loop'.pc # "watch"
  OBVIOUS
<1> QED BY <1>2, <1>3, <1>4, <1>5, <1>6, <1>7 DEF Passed

(* The lists of writes by which the handlers end a cycle.                      *)
LEMMA Endings ==
  /\ Ending(LosesInventory)
     /\ Confident(LosesInventory)
  /\ Ending(<< <<"preflight", FALSE>> >> \o LosesInventory)
  /\ Ending(LosesInventory \o LosesLeadership \o << <<"api", FALSE>> >>)
     /\ Confident(LosesInventory \o LosesLeadership \o << <<"api", FALSE>> >>)
  /\ Ending(LosesInventory \o LosesLeadership)
     /\ Confident(LosesInventory \o LosesLeadership)
  /\ Ending(<< <<"api", FALSE>> >> \o LosesLeadership \o LosesInventory)
     /\ Confident(<< <<"api", FALSE>> >> \o LosesLeadership \o LosesInventory)
  /\ Ending(LosesLeadership \o (<< <<"preflight", FALSE>> >> \o LosesInventory))
  /\ Ending(LosesLeadership \o LosesInventory)
     /\ Confident(LosesLeadership \o LosesInventory)
<1>1. ASSUME NEW s, s = LosesInventory
      PROVE  Ending(s) /\ Confident(s)
  <2>1. s = <<InventoryLost>>
    BY <1>1 DEF LosesInventory, LosesLeadership, InventoryLost
  <2>2. /\ s \in Seq(Losses) /\ Len(s) = 1
        /\ s[1] = InventoryLost
    BY <2>1 DEF Losses
  <2> QED BY <2>2, LossesAre DEF Ending, Confident
<1>2. ASSUME NEW s, s = << <<"preflight", FALSE>> >> \o LosesInventory
      PROVE  Ending(s)
  <2>1. s = <<PreflightLost>> \o <<InventoryLost>>
    BY <1>2 DEF LosesInventory, LosesLeadership, PreflightLost, InventoryLost
  <2>2. /\ s \in Seq(Losses) /\ Len(s) = 2
        /\ s[1] = PreflightLost /\ s[2] = InventoryLost
    BY <2>1 DEF Losses
  <2> QED BY <2>2, LossesAre DEF Ending, Confident
<1>3. ASSUME NEW s, s = LosesInventory \o LosesLeadership \o << <<"api", FALSE>> >>
      PROVE  Ending(s) /\ Confident(s)
  <2>1. s = <<InventoryLost>> \o <<LeaderLost, ProofLost>> \o <<ApiLost>>
    BY <1>3 DEF LosesInventory, LosesLeadership, InventoryLost, LeaderLost, ProofLost, ApiLost
  <2>2. /\ s \in Seq(Losses) /\ Len(s) = 4
        /\ s[1] = InventoryLost /\ s[2] = LeaderLost /\ s[3] = ProofLost /\ s[4] = ApiLost
    BY <2>1 DEF Losses
  <2> QED BY <2>2, LossesAre DEF Ending, Confident
<1>4. ASSUME NEW s, s = LosesInventory \o LosesLeadership
      PROVE  Ending(s) /\ Confident(s)
  <2>1. s = <<InventoryLost>> \o <<LeaderLost, ProofLost>>
    BY <1>4 DEF LosesInventory, LosesLeadership, InventoryLost, LeaderLost, ProofLost
  <2>2. /\ s \in Seq(Losses) /\ Len(s) = 3
        /\ s[1] = InventoryLost /\ s[2] = LeaderLost /\ s[3] = ProofLost
    BY <2>1 DEF Losses
  <2> QED BY <2>2, LossesAre DEF Ending, Confident
<1>5. ASSUME NEW s, s = << <<"api", FALSE>> >> \o LosesLeadership \o LosesInventory
      PROVE  Ending(s) /\ Confident(s)
  <2>1. s = <<ApiLost>> \o <<LeaderLost, ProofLost>> \o <<InventoryLost>>
    BY <1>5 DEF LosesInventory, LosesLeadership, ApiLost, LeaderLost, ProofLost, InventoryLost
  <2>2. /\ s \in Seq(Losses) /\ Len(s) = 4
        /\ s[1] = ApiLost /\ s[2] = LeaderLost /\ s[3] = ProofLost /\ s[4] = InventoryLost
    BY <2>1 DEF Losses
  <2> QED BY <2>2, LossesAre DEF Ending, Confident
<1>6. ASSUME NEW s, s = LosesLeadership \o (<< <<"preflight", FALSE>> >> \o LosesInventory)
      PROVE  Ending(s)
  <2>1. s = <<LeaderLost, ProofLost>> \o (<<PreflightLost>> \o <<InventoryLost>>)
    BY <1>6 DEF LosesInventory, LosesLeadership, LeaderLost, ProofLost, PreflightLost, InventoryLost
  <2>2. /\ s \in Seq(Losses) /\ Len(s) = 4
        /\ s[1] = LeaderLost /\ s[2] = ProofLost /\ s[3] = PreflightLost /\ s[4] = InventoryLost
    BY <2>1 DEF Losses
  <2> QED BY <2>2, LossesAre DEF Ending, Confident
<1>7. ASSUME NEW s, s = LosesLeadership \o LosesInventory
      PROVE  Ending(s) /\ Confident(s)
  <2>1. s = <<LeaderLost, ProofLost>> \o <<InventoryLost>>
    BY <1>7 DEF LosesInventory, LosesLeadership, LeaderLost, ProofLost, InventoryLost
  <2>2. /\ s \in Seq(Losses) /\ Len(s) = 3
        /\ s[1] = LeaderLost /\ s[2] = ProofLost /\ s[3] = InventoryLost
    BY <2>1 DEF Losses
  <2> QED BY <2>2, LossesAre DEF Ending, Confident
<1> QED BY <1>1, <1>2, <1>3, <1>4, <1>5, <1>6, <1>7

(* A handler that writes an end to the cycle and goes back to its beginning.    *)
LEMMA WritesEnding ==
  ASSUME IInv, Observed, loop.todo = <<>>, NEW s, NEW place \in {"pause", "over"}, Writes(s, place),
         UNCHANGED <<stats, probe, clock, proven, probes>>, faults' \in Nat,
         Ending(s),
         Asks({"watch", "event", "pause", "over"}) => Confident(s)
  PROVE  IInv'
<1>1. s \in Seq(Writable)
  BY LossesAre DEF Ending
<1>2. place \in Places
  BY DEF Places
<1> QED BY <1>1, <1>2, WritesEffect, CycleEnds

(* The handlers that end the cycle.                                            *)
LEMMA EndingStep ==
  ASSUME IInv, Observed,
         CheckFails \/ GateRefuses \/ ListFails \/ ListDeferred \/ WatchEnds \/ WatchFails
  PROVE  IInv'
<1> USE Endings
<1>1. ASSUME Fails PROVE faults' \in Nat
  BY <1>1 DEF Fails, IInv, TypeOK
<1>2. faults \in Nat
  BY DEF IInv, TypeOK
<1>3. CASE CheckFails
  BY <1>1, <1>3, WritesEnding DEF CheckFails, At
<1>4. CASE GateRefuses
  <2>1. ~Asks({"watch", "event", "pause", "over"})
    BY <1>4 DEF GateRefuses, At, Asks
  <2> QED BY <1>1, <1>4, <2>1, WritesEnding DEF GateRefuses, At
<1>5. CASE ListFails
  BY <1>1, <1>5, WritesEnding DEF ListFails
<1>6. CASE ListDeferred
  BY <1>2, <1>6, WritesEnding DEF ListDeferred, At
<1>7. CASE WatchEnds
  BY <1>2, <1>7, WritesEnding DEF WatchEnds, At
<1>8. CASE WatchFails
  BY <1>1, <1>8, WritesEnding DEF WatchFails, At
<1> QED BY <1>3, <1>4, <1>5, <1>6, <1>7, <1>8

(* The answer that this replica does not lead.                                 *)
LEMMA NotLeaderStep ==
  ASSUME IInv, Observed, loop.todo = <<>>, NEW purpose \in Asking, NotLeader(purpose),
         Asks({purpose}), UNCHANGED <<stats, probe, clock, proven, probes>>, faults' \in Nat
  PROVE  IInv'
<1> DEFINE s == LosesLeadership \o Without(purpose).todo
           place == Without(purpose).pc
<1>1. s \in Seq(Writable) /\ place \in Places
  <2>1. \A e : Ending(e) => e \in Seq(Writable)
    BY LossesAre DEF Ending
  <2>2. CASE purpose \in {"save", "event"}
    BY <2>1, <2>2, Endings DEF Without, Places
  <2>3. CASE purpose \in {"list", "item"}
    BY <2>3, WritesAre DEF Without, Places, LosesLeadership
  <2> QED BY <2>2, <2>3 DEF Asking
<1>2. /\ loop' \in LoopState /\ loop'.pc = place /\ loop'.todo = s
      /\ loop'.why = loop.why /\ loop'.signalled = loop.signalled
  <2>1. loop' = [loop EXCEPT !.todo = s, !.pc = place, !.deferred = @ \/ purpose = "item"]
    BY DEF NotLeader
  <2> HIDE DEF s, place
  <2> QED BY <1>1, <2>1 DEF IInv, TypeOK, LoopState
<1>3. CASE purpose = "save"
  <2>1. ~Asks({"watch", "event", "pause", "over"})
    BY <1>3 DEF Asks
  <2>2. s = LosesLeadership \o (<< <<"preflight", FALSE>> >> \o LosesInventory) /\ place = "pause"
    BY <1>3 DEF Without
  <2> HIDE DEF s, place
  <2> QED BY <1>2, <2>1, <2>2, Endings, CycleEnds
<1>4. CASE purpose = "event"
  <2>1. s = LosesLeadership \o LosesInventory /\ place = "pause"
    BY <1>4 DEF Without
  <2> HIDE DEF s, place
  <2> QED BY <1>2, <2>1, Endings, CycleEnds
<1>5. CASE purpose \in {"list", "item"}
  <2>1. /\ loop'.pc = IF purpose = "list" THEN "listing" ELSE "items"
        /\ loop'.todo = <<LeaderLost, ProofLost>>
    <3>1. LosesLeadership \o <<>> = <<LeaderLost, ProofLost>>
      BY DEF LosesLeadership, LeaderLost, ProofLost
    <3>2. purpose \in {"list", "item"} => /\ Without(purpose).todo = <<>>
                                         /\ place = IF purpose = "list" THEN "listing" ELSE "items"
      BY DEF Without
    <3> HIDE DEF place
    <3> QED BY <1>2, <1>5, <3>1, <3>2
  <2>2. SUFFICES ASSUME ~loop.signalled PROVE LeaderBeforeProof' /\ Passed' /\ ~Past
    BY <1>2, HandlerStep
  <2>3. ~Past
    BY <1>5 DEF Past, Asks
  <2>4. LeaderBeforeProof'
    <3>1. Len(loop'.todo) = 2 /\ loop'.todo[1] = LeaderLost /\ loop'.todo[2] = ProofLost
      BY <2>1
    <3>2. LeaderLost # ProofLost /\ LeaderLost # <<"leader", TRUE>>
      BY LossesAre DEF LeaderLost
    <3>3. ASSUME NEW i \in 1..Len(loop'.todo), loop'.todo[i] = ProofLost
          PROVE  /\ \E j \in 1..i-1 : loop'.todo[j] = LeaderLost
                 /\ \A j \in 1..i-1 : loop'.todo[j] # <<"leader", TRUE>>
      <4>1. i = 2
        BY <3>1, <3>2, <3>3
      <4>2. \A j \in 1..i-1 : j = 1
        BY <4>1
      <4>3. 1 \in 1..i-1
        BY <4>1
      <4> QED BY <3>1, <3>2, <4>2, <4>3
    <3> QED BY <3>3 DEF LeaderBeforeProof, LeaderLost, ProofLost
  <2>5. /\ ~Pending(<<"inventory", TRUE>>)' /\ ~Pending(<<"api", TRUE>>)'
        /\ ~Pending(<<"preflight", FALSE>>)'
    <3>1. \A i \in 1..Len(loop'.todo) : loop'.todo[i] \in {LeaderLost, ProofLost}
      BY <2>1
    <3>2. /\ <<"inventory", TRUE>> \notin {LeaderLost, ProofLost}
          /\ <<"api", TRUE>> \notin {LeaderLost, ProofLost}
          /\ <<"preflight", FALSE>> \notin {LeaderLost, ProofLost}
      BY DEF LeaderLost, ProofLost
    <3> QED BY <3>1, <3>2 DEF Pending
  <2>6. Asks(PastGate) /\ Asks(PastGate \cup {"gate", "save"})
    BY <1>5 DEF Asks, PastGate
  <2>7. stats.stored /\ stats.preflight /\ ~stats.inventory
    BY <1>5, <2>2, <2>6, NothingPending DEF Asks
  <2> QED BY <2>3, <2>4, <2>5, <2>7 DEF Passed
<1> QED BY <1>3, <1>4, <1>5 DEF Asking

(* A handler that goes on with nothing left to write.                          *)
LEMMA NothingToWrite ==
  ASSUME loop'.todo = <<>>
  PROVE  LeaderBeforeProof' /\ \A w : ~Pending(w)'
BY DEF LeaderBeforeProof, Pending

(* A handler that goes on with one write or two, none the loss of a proof.     *)
LEMMA OneToWrite ==
  ASSUME Len(loop'.todo) = 1, loop'.todo[1] # ProofLost
  PROVE  LeaderBeforeProof' /\ \A w : Pending(w)' <=> w = loop'.todo[1]
<1>1. \A i \in 1..Len(loop'.todo) : loop'.todo[i] # ProofLost
  OBVIOUS
<1>2. \A w : Pending(w)' <=> w = loop'.todo[1]
  BY DEF Pending
<1> QED BY <1>1, <1>2 DEF LeaderBeforeProof, ProofLost

(* With two writes to go, neither of them the loss of the proof, these two are *)
(* pending.                                                                    *)
LEMMA TwoToWrite ==
  ASSUME Len(loop'.todo) = 2, loop'.todo[1] # ProofLost, loop'.todo[2] # ProofLost
  PROVE  LeaderBeforeProof' /\ \A w : Pending(w)' <=> w \in {loop'.todo[1], loop'.todo[2]}
<1>1. \A i \in 1..Len(loop'.todo) : loop'.todo[i] # ProofLost
  OBVIOUS
<1>2. \A w : Pending(w)' <=> w \in {loop'.todo[1], loop'.todo[2]}
  BY DEF Pending
<1> QED BY <1>1, <1>2 DEF LeaderBeforeProof, ProofLost

(* A sequence of one element.                                                  *)
LEMMA Single ==
  ASSUME NEW s, NEW a, s = <<a>>
  PROVE  Len(s) = 1 /\ s[1] = a
OBVIOUS

(* A sequence of two elements.                                                 *)
LEMMA Couple ==
  ASSUME NEW s, NEW a, NEW b, s = <<a, b>>
  PROVE  Len(s) = 2 /\ s[1] = a /\ s[2] = b
OBVIOUS

(* The writes are told apart.                                                  *)
LEMMA WritesDiffer ==
  /\ <<"preflight", FALSE>> \notin {<<"inventory", TRUE>>, <<"api", TRUE>>, ProofLost}
  /\ <<"preflight", TRUE>> \notin
       {<<"inventory", TRUE>>, <<"api", TRUE>>, <<"preflight", FALSE>>, ProofLost}
  /\ <<"stored", TRUE>> \notin
       {<<"inventory", TRUE>>, <<"api", TRUE>>, <<"preflight", FALSE>>, ProofLost}
  /\ <<"inventory", FALSE>> \notin
       {<<"inventory", TRUE>>, <<"api", TRUE>>, <<"preflight", FALSE>>, ProofLost}
  /\ <<"api", TRUE>> \notin {<<"inventory", TRUE>>, <<"preflight", FALSE>>, ProofLost}
  /\ <<"inventory", TRUE>> \notin {<<"api", TRUE>>, <<"preflight", FALSE>>, ProofLost}
  /\ <<"leader", TRUE>> \notin
       {<<"inventory", TRUE>>, <<"api", TRUE>>, <<"preflight", FALSE>>, ProofLost}
  /\ <<"proof", TRUE>> \notin
       {<<"inventory", TRUE>>, <<"api", TRUE>>, <<"preflight", FALSE>>, ProofLost}
BY DEF ProofLost

(* The handlers before the list.                                               *)
LEMMA BeforeListStep ==
  ASSUME IInv, Observed, Cycle \/ CheckPasses \/ GateAccepts \/ GateSaves
  PROVE  IInv'
<1>1. /\ loop.todo = <<>> /\ loop.pc \in {"pause", "checking", "gate"}
      /\ UNCHANGED <<stats, probe, clock, proven, probes>> /\ faults' \in Nat
  BY DEF Cycle, CheckPasses, GateAccepts, GateSaves, At, IInv, TypeOK
<1>2. /\ <<>> \in Seq(Writable)
      /\ << <<"preflight", FALSE>> >> \in Seq(Writable)
      /\ << <<"preflight", TRUE>> >> \in Seq(Writable)
      /\ << <<"stored", TRUE>>, <<"inventory", FALSE>> >> \in Seq(Writable)
  BY WritesAre
<1>3. ~loop.signalled => ~stats.inventory
  BY <1>1, NothingPending DEF Asks
<1>4. Past => loop.pc = "pause"
  BY <1>1 DEF Past, Asks
<1>5. CASE Cycle
  <2>1. /\ At("pause")
        /\ \/ Writes(<<>>, "over")
           \/ Writes(<< <<"preflight", FALSE>> >>, "checking")
    BY <1>5 DEF Cycle
  <2>2. /\ loop' \in LoopState /\ loop'.signalled = loop.signalled
        /\ \/ loop'.todo = <<>> /\ loop'.pc = "over"
           \/ loop'.todo = << <<"preflight", FALSE>> >> /\ loop'.pc = "checking"
    <3>1. CASE Writes(<<>>, "over")
      BY <1>2, <3>1, WritesEffect DEF Places
    <3>2. CASE Writes(<< <<"preflight", FALSE>> >>, "checking")
      BY <1>2, <3>2, WritesEffect DEF Places
    <3> QED BY <2>1, <3>1, <3>2
  <2>3. LeaderBeforeProof' /\ ~Pending(<<"inventory", TRUE>>)' /\ ~Pending(<<"api", TRUE>>)'
    <3>1. CASE loop'.todo = <<>>
      BY <3>1, NothingToWrite
    <3>2. CASE loop'.todo = << <<"preflight", FALSE>> >>
      <4>1. Len(loop'.todo) = 1 /\ loop'.todo[1] = <<"preflight", FALSE>>
        BY <3>2, Single
      <4>2. loop'.todo[1] # ProofLost
        BY <4>1, WritesDiffer
      <4>3. LeaderBeforeProof' /\ \A w : Pending(w)' <=> w = loop'.todo[1]
        BY <4>1, <4>2, OneToWrite
      <4> QED BY <4>1, <4>3, WritesDiffer
    <3> QED BY <2>2, <3>1, <3>2
  <2>4. ~loop.signalled => Passed'
    BY <1>1, <1>3, <2>2, <2>3 DEF Passed, Asks, PastGate
  <2>5. At("pause") /\ loop' # loop
    BY <2>1, <2>2 DEF At
  <2> QED BY <1>1, <2>2, <2>3, <2>4, <2>5, HandlerStep
<1>6. CASE CheckPasses
  <2>1. loop.pc = "checking" /\ Writes(<< <<"preflight", TRUE>> >>, "gate")
    BY <1>6 DEF CheckPasses, At
  <2>2. /\ loop' \in LoopState /\ loop'.signalled = loop.signalled
        /\ loop'.todo = << <<"preflight", TRUE>> >> /\ loop'.pc = "gate"
    BY <1>2, <2>1, WritesEffect DEF Places
  <2>3. /\ LeaderBeforeProof' /\ ~Pending(<<"inventory", TRUE>>)' /\ ~Pending(<<"api", TRUE>>)'
        /\ ~Pending(<<"preflight", FALSE>>)' /\ Pending(<<"preflight", TRUE>>)'
    <3>1. Len(loop'.todo) = 1 /\ loop'.todo[1] = <<"preflight", TRUE>>
      BY <2>2, Single
    <3>2. loop'.todo[1] # ProofLost
      BY <3>1, WritesDiffer
    <3>3. LeaderBeforeProof' /\ \A w : Pending(w)' <=> w = loop'.todo[1]
      BY <3>1, <3>2, OneToWrite
    <3> QED BY <3>1, <3>3, WritesDiffer
  <2>4. ~loop.signalled => Passed'
    BY <1>1, <1>3, <2>2, <2>3 DEF Passed, Asks, PastGate
  <2> QED BY <1>1, <1>4, <2>1, <2>2, <2>3, <2>4, HandlerStep
<1>7. CASE GateAccepts
  <2>1. loop.pc = "gate" /\ Writes(<< <<"stored", TRUE>>, <<"inventory", FALSE>> >>, "list")
    BY <1>7 DEF GateAccepts, At
  <2>2. /\ loop' \in LoopState /\ loop'.signalled = loop.signalled
        /\ loop'.todo = << <<"stored", TRUE>>, <<"inventory", FALSE>> >> /\ loop'.pc = "list"
    BY <1>2, <2>1, WritesEffect DEF Places, Asking
  <2>3. /\ LeaderBeforeProof' /\ ~Pending(<<"inventory", TRUE>>)' /\ ~Pending(<<"api", TRUE>>)'
        /\ ~Pending(<<"preflight", FALSE>>)' /\ Pending(<<"stored", TRUE>>)'
    <3>0. ASSUME NEW a, NEW b, loop'.todo = <<a, b>>
          PROVE  Len(loop'.todo) = 2 /\ loop'.todo[1] = a /\ loop'.todo[2] = b
      BY <3>0, Couple
    <3>1. Len(loop'.todo) = 2 /\ loop'.todo[1] = <<"stored", TRUE>> /\ loop'.todo[2] = <<"inventory", FALSE>>
      BY <2>2, <3>0
    <3>2. loop'.todo[1] # ProofLost /\ loop'.todo[2] # ProofLost
      BY <3>1, WritesDiffer
    <3>3. LeaderBeforeProof' /\ \A w : Pending(w)' <=> w \in {loop'.todo[1], loop'.todo[2]}
      BY <3>1, <3>2, TwoToWrite
    <3> QED BY <3>1, <3>3, WritesDiffer
  <2>4. ~loop.signalled => stats.preflight
    BY <1>1, <2>1, NothingPending DEF Asks
  <2>5. ~loop.signalled => Passed'
    BY <1>1, <1>3, <2>2, <2>3, <2>4 DEF Passed, Asks, PastGate
  <2> QED BY <1>1, <1>4, <2>1, <2>2, <2>3, <2>5, HandlerStep
<1>8. CASE GateSaves
  <2>1. loop.pc = "gate" /\ Writes(<<>>, "save")
    BY <1>8 DEF GateSaves, At
  <2>2. /\ loop' \in LoopState /\ loop'.signalled = loop.signalled
        /\ loop'.todo = <<>> /\ loop'.pc = "save"
    BY <1>2, <2>1, WritesEffect DEF Places, Asking
  <2>3. LeaderBeforeProof' /\ \A w : ~Pending(w)'
    BY <2>2, NothingToWrite
  <2>4. ~loop.signalled => stats.preflight
    BY <1>1, <2>1, NothingPending DEF Asks
  <2>5. ~loop.signalled => Passed'
    BY <1>1, <1>3, <2>2, <2>3, <2>4 DEF Passed, Asks, PastGate
  <2> QED BY <1>1, <1>4, <2>1, <2>2, <2>3, <2>5, HandlerStep
<1> QED BY <1>5, <1>6, <1>7, <1>8

(* The handlers of the list and of the watch.                                  *)
LEMMA ListStep ==
  ASSUME IInv, Observed,
         ListAnswers \/ ItemDeferred \/ ListSettled \/ Fleet("items", "item") \/ Fleet("watch", "event")
  PROVE  IInv'
<1>1. /\ loop.todo = <<>> /\ loop.pc \in {"listing", "items", "watch"}
      /\ UNCHANGED <<stats, probe, clock, proven, probes>> /\ faults' \in Nat /\ faults \in Nat
  BY DEF ListAnswers, ItemDeferred, ListSettled, Fleet, At, Fails, IInv, TypeOK
<1>2. loop \in LoopState
  BY DEF IInv, TypeOK
<1>3. /\ <<>> \in Seq(Writable)
      /\ << <<"api", TRUE>> >> \in Seq(Writable)
      /\ << <<"inventory", TRUE>> >> \in Seq(Writable)
  BY WritesAre
<1>4. /\ ~loop.signalled => stats.stored /\ stats.preflight
      /\ ~loop.signalled /\ stats.inventory => loop.pc = "watch"
  <2>1. Asks(PastGate) /\ Asks(PastGate \cup {"gate", "save"})
    BY <1>1 DEF Asks, PastGate
  <2> QED BY <1>1, <2>1, NothingPending DEF Asks, PastGate
<1>5. Past => loop.pc = "watch"
  BY <1>1 DEF Past, Asks
<1>6. CASE ListAnswers
  <2>1. /\ loop.pc = "listing"
        /\ loop' = [loop EXCEPT !.todo = << <<"api", TRUE>> >>, !.pc = "items", !.deferred = FALSE]
    BY <1>6 DEF ListAnswers, At
  <2>2. /\ loop' \in LoopState /\ loop'.signalled = loop.signalled
        /\ loop'.todo = << <<"api", TRUE>> >> /\ loop'.pc = "items"
    BY <1>2, <1>3, <2>1 DEF LoopState, Places
  <2>3. /\ LeaderBeforeProof' /\ ~Pending(<<"inventory", TRUE>>)'
        /\ ~Pending(<<"preflight", FALSE>>)'
    <3>1. Len(loop'.todo) = 1 /\ loop'.todo[1] = <<"api", TRUE>>
      BY <2>2, Single
    <3>2. loop'.todo[1] # ProofLost
      BY <3>1, WritesDiffer
    <3>3. LeaderBeforeProof' /\ \A w : Pending(w)' <=> w = loop'.todo[1]
      BY <3>1, <3>2, OneToWrite
    <3> QED BY <3>1, <3>3, WritesDiffer
  <2>4. ~loop.signalled => Passed'
    BY <1>1, <1>4, <2>1, <2>2, <2>3 DEF Passed, Asks, PastGate
  <2> QED BY <1>1, <1>5, <2>1, <2>2, <2>3, <2>4, HandlerStep
<1>7. CASE ItemDeferred
  <2>1. loop.pc = "items" /\ loop' = [loop EXCEPT !.deferred = TRUE]
    BY <1>7 DEF ItemDeferred, At
  <2>2. /\ loop' \in LoopState /\ loop'.signalled = loop.signalled
        /\ loop'.todo = <<>> /\ loop'.pc = "items"
    BY <1>1, <1>2, <2>1 DEF LoopState
  <2>3. LeaderBeforeProof' /\ \A w : ~Pending(w)'
    BY <2>2, NothingToWrite
  <2>4. ~loop.signalled => Passed'
    BY <1>1, <1>4, <2>1, <2>2, <2>3 DEF Passed, Asks, PastGate
  <2> QED BY <1>1, <1>5, <2>1, <2>2, <2>3, <2>4, HandlerStep
<1>8. CASE ListSettled
  <2>1. loop.pc = "items" /\ Writes(<< <<"inventory", TRUE>> >>, "watch")
    BY <1>8 DEF ListSettled, At
  <2>2. /\ loop' \in LoopState /\ loop'.signalled = loop.signalled
        /\ loop'.todo = << <<"inventory", TRUE>> >> /\ loop'.pc = "watch"
    BY <1>3, <2>1, WritesEffect DEF Places
  <2>3. /\ LeaderBeforeProof' /\ ~Pending(<<"api", TRUE>>)' /\ Len(loop'.todo) = 1
        /\ ~Pending(<<"preflight", FALSE>>)'
    <3>1. Len(loop'.todo) = 1 /\ loop'.todo[1] = <<"inventory", TRUE>>
      BY <2>2, Single
    <3>2. loop'.todo[1] # ProofLost
      BY <3>1, WritesDiffer
    <3>3. LeaderBeforeProof' /\ \A w : Pending(w)' <=> w = loop'.todo[1]
      BY <3>1, <3>2, OneToWrite
    <3> QED BY <3>1, <3>3, WritesDiffer
  <2>4. ~loop.signalled => Passed'
    BY <1>1, <1>4, <2>1, <2>2, <2>3 DEF Passed, Asks, PastGate
  <2> QED BY <1>1, <1>5, <2>1, <2>2, <2>3, <2>4, HandlerStep
<1>9. ASSUME NEW pc \in {"items", "watch"}, Fleet(pc, IF pc = "items" THEN "item" ELSE "event")
      PROVE  IInv'
  <2>1. /\ loop.pc = pc
        /\ \/ Writes(LosesInventory, "over")
           \/ Writes(<<>>, IF pc = "items" THEN "item" ELSE "event")
    BY <1>9 DEF Fleet, At
  <2>2. CASE Writes(LosesInventory, "over")
    BY <1>1, <2>2, Endings, WritesEnding
  <2>3. CASE Writes(<<>>, IF pc = "items" THEN "item" ELSE "event")
    <3>1. /\ loop' \in LoopState /\ loop'.signalled = loop.signalled
          /\ loop'.todo = <<>> /\ loop'.pc = IF pc = "items" THEN "item" ELSE "event"
      <4>1. (IF pc = "items" THEN "item" ELSE "event") \in Places
        BY DEF Places, Asking
      <4> QED BY <1>3, <2>3, <4>1, WritesEffect
    <3>2. LeaderBeforeProof' /\ \A w : ~Pending(w)'
      BY <3>1, NothingToWrite
    <3>3. pc = "watch" => Past'
      BY <3>1, <3>2 DEF Past, Asks
    <3>4. ~loop.signalled => Passed'
      BY <1>1, <1>4, <2>1, <3>1, <3>2, <3>3 DEF Passed, Asks, PastGate
    <3> QED BY <1>1, <1>5, <2>1, <3>1, <3>2, <3>3, <3>4, HandlerStep
  <2> QED BY <2>1, <2>2, <2>3
<1> QED BY <1>6, <1>7, <1>8, <1>9

(* The question whether this replica leads, and its answers.                   *)
LEMMA AskStep ==
  ASSUME IInv, Observed, AskLease \/ DoesNotLead
  PROVE  IInv'
<1>1. /\ loop.todo = <<>> /\ UNCHANGED <<stats, probe, clock, proven, probes>> /\ faults' \in Nat
      /\ loop \in LoopState
  BY DEF AskLease, DoesNotLead, At, Fails, IInv, TypeOK
<1>2. CASE DoesNotLead
  <2>1. NotLeader(loop.why) /\ Asks({loop.why}) /\ loop.why \in Asking
    BY <1>1, <1>2 DEF DoesNotLead, At, Asks, LoopState
  <2> QED BY <1>1, <2>1, NotLeaderStep
<1>3. CASE AskLease
  <2>1. Asks({loop.pc}) /\ loop.pc \in Asking
    BY <1>3 DEF AskLease, Asks
  <2>2. CASE NotLeader(loop.pc)
    BY <1>1, <2>1, <2>2, NotLeaderStep
  <2>3. CASE loop' = [loop EXCEPT !.pc = "asked", !.why = loop.pc]
    <3>1. /\ loop' \in LoopState /\ loop'.signalled = loop.signalled
          /\ loop'.todo = <<>> /\ loop'.pc = "asked" /\ loop'.why = loop.pc
      BY <1>1, <2>1, <2>3 DEF LoopState, Places
    <3>2. LeaderBeforeProof' /\ \A w : ~Pending(w)'
      BY <3>1, NothingToWrite
    <3>3. \A places : Asks(places)' => Asks(places) \/ "asked" \in places
      BY <3>1 DEF Asks
    <3>4. Past => Past'
      BY <2>1, <3>1, <3>2 DEF Past, Asks, Asking
    <3>5. ~loop.signalled => Passed'
      <4> SUFFICES ASSUME ~loop.signalled PROVE Passed'
        OBVIOUS
      <4>1. Asks(PastGate)' => stats'.stored
        BY <1>1, <3>3, NothingPending DEF PastGate
      <4>2. Asks(PastGate \cup {"gate", "save"})' => stats'.preflight
        BY <1>1, <3>3, NothingPending DEF PastGate
      <4>3. stats'.inventory => Past'
        BY <1>1, <3>4 DEF IInv, Passed
      <4> QED BY <3>1, <3>2, <4>1, <4>2, <4>3 DEF Passed
    <3> QED BY <1>1, <3>1, <3>2, <3>4, <3>5, HandlerStep
  <2> QED BY <1>3, <2>2, <2>3 DEF AskLease
<1> QED BY <1>2, <1>3

(* A confirmed Lease keeps the invariant.                                      *)
LEMMA LeadsStep ==
  ASSUME IInv, Observed, Leads
  PROVE  IInv'
<1> DEFINE confirmed == << <<"leader", TRUE>>, <<"proof", TRUE>> >>
           saved == confirmed \o << <<"stored", TRUE>>, <<"inventory", FALSE>> >>
           goes == {<<"leader", TRUE>>, <<"proof", TRUE>>, <<"stored", TRUE>>, <<"inventory", FALSE>>}
<1>1. /\ loop.todo = <<>> /\ loop.pc = "asked" /\ loop.why \in Asking
      /\ UNCHANGED <<stats, probe, clock, proven, probes>> /\ faults' \in Nat
  BY DEF Leads, At, IInv, TypeOK, LoopState
<1>2. /\ confirmed \in Seq(goes) /\ saved \in Seq(goes)
      /\ Len(saved) = 4 /\ saved[3] = <<"stored", TRUE>>
  <2> DEFINE a == <<"leader", TRUE>>
             b == <<"proof", TRUE>>
             c == <<"stored", TRUE>>
             d == <<"inventory", FALSE>>
  <2>1. a \in goes /\ b \in goes /\ c \in goes /\ d \in goes
    OBVIOUS
  <2>2. /\ <<a, b>> \in Seq(goes) /\ <<a, b>> \o <<c, d>> \in Seq(goes)
        /\ Len(<<a, b>> \o <<c, d>>) = 4 /\ (<<a, b>> \o <<c, d>>)[3] = c
    <3> HIDE DEF a, b, c, d, goes
    <3> QED BY <2>1
  <2> QED BY <2>2
<1>3. goes \subseteq Writable /\ <<"proof", FALSE>> \notin goes
      /\ <<"api", TRUE>> \notin goes /\ <<"inventory", TRUE>> \notin goes
      /\ <<"preflight", FALSE>> \notin goes
  BY WritesAre
<1> DEFINE s == IF loop.why = "save" THEN saved ELSE confirmed
           place == CASE loop.why = "save" -> "list" [] loop.why = "list" -> "listing"
                      [] loop.why = "item" -> "items" [] loop.why = "event" -> "watch"
<1>4. Writes(s, place)
  BY <1>1 DEF Leads, Asking
<1>5. s \in Seq(goes) /\ (loop.why = "save" => Len(s) = 4 /\ s[3] = <<"stored", TRUE>>)
  BY <1>2
<1>6. place \in Places /\ place \in PastGate /\ (place = "watch" <=> loop.why = "event")
  BY <1>1 DEF Asking, Places, PastGate
<1> HIDE DEF saved, confirmed, s, place, goes
<1>7. /\ loop' \in LoopState /\ loop'.signalled = loop.signalled
      /\ loop'.todo = s /\ loop'.pc = place
  <2>1. s \in Seq(Writable)
    BY <1>3, <1>5
  <2> QED BY <1>4, <1>6, <2>1, WritesEffect
<1>8. \A i \in 1..Len(s) : s[i] \in goes
  BY <1>5
<1>9. LeaderBeforeProof'
  <2>1. \A i \in 1..Len(loop'.todo) : loop'.todo[i] # <<"proof", FALSE>>
    BY <1>3, <1>7, <1>8
  <2> QED BY <2>1 DEF LeaderBeforeProof
<1>10. /\ ~Pending(<<"api", TRUE>>)' /\ ~Pending(<<"inventory", TRUE>>)' /\ ~Pending(<<"preflight", FALSE>>)'
       /\ loop.why = "save" => Pending(<<"stored", TRUE>>)'
  <2>1. \A i \in 1..Len(loop'.todo) : loop'.todo[i] \in goes
    BY <1>7, <1>8
  <2>2. loop.why = "save" => Len(loop'.todo) = 4 /\ loop'.todo[3] = <<"stored", TRUE>>
    BY <1>5, <1>7
  <2>3. /\ ~Pending(<<"api", TRUE>>)' /\ ~Pending(<<"inventory", TRUE>>)'
        /\ ~Pending(<<"preflight", FALSE>>)'
    BY <1>3, <2>1 DEF Pending
  <2>4. loop.why = "save" => Pending(<<"stored", TRUE>>)'
    <3> SUFFICES ASSUME loop.why = "save"
                 PROVE  \E i \in 1..Len(loop'.todo) : loop'.todo[i] = <<"stored", TRUE>>
      BY DEF Pending
    <3>1. Len(loop'.todo) = 4 /\ loop'.todo[3] = <<"stored", TRUE>>
      BY <2>2
    <3>2. 3 \in 1..Len(loop'.todo)
      BY <3>1
    <3> QED BY <3>1, <3>2
  <2> QED BY <2>3, <2>4
<1>11. Past => Past'
  BY <1>1, <1>6, <1>7, <1>10 DEF Past, Asks, Asking
<1>12. ~loop.signalled => Passed'
  <2> SUFFICES ASSUME ~loop.signalled PROVE Passed'
    OBVIOUS
  <2>1. loop.why # "save" => stats.stored
    BY <1>1, NothingPending DEF Asks, PastGate, Asking
  <2>2. stats.preflight
    BY <1>1, NothingPending DEF Asks, PastGate, Asking
  <2>3. stats.inventory => Past /\ loop'.pc \notin {"pause", "over"}
    BY <1>6, <1>7 DEF IInv, Passed, PastGate
  <2> QED BY <1>1, <1>7, <1>10, <1>11, <2>1, <2>2, <2>3 DEF Passed
<1> QED BY <1>1, <1>7, <1>9, <1>11, <1>12, HandlerStep

(* stop() puts its writes before all others.                                   *)
LEMMA StopStep ==
  ASSUME IInv, Observed, Stop
  PROVE  IInv'
<1> DEFINE a == <<"terminating", TRUE>>
           b == <<"leader", FALSE>>
           c == <<"stop", TRUE>>
           d == <<"proof", FALSE>>
           e == <<"inventory", FALSE>>
           s == <<a, b, c, d, e>> \o loop.todo
<1>1. /\ loop' = [loop EXCEPT !.signalled = TRUE, !.todo = s]
      /\ UNCHANGED <<stats, probe, clock, proven, faults, probes>>
      /\ loop \in LoopState /\ loop.todo \in Seq(Writable)
  BY DEF Stop, IInv, TypeOK, LoopState
<1>2. a \in Writable /\ b \in Writable /\ c \in Writable /\ d \in Writable /\ e \in Writable
  BY WritesAre
<1>3. s \in Seq(Writable) /\ s # <<>> /\ Head(s) = a
  <2> HIDE DEF a, b, c, d, e
  <2> QED BY <1>1, <1>2
<1>4. loop' \in LoopState /\ loop'.signalled /\ loop'.todo = s
  <2> HIDE DEF s
  <2> QED BY <1>1, <1>3 DEF LoopState
<1>5. TypeOK'
  BY <1>1, <1>4, ObservedStep DEF IInv, TypeOK
<1>6. Stopping'
  <2> HIDE DEF s
  <2> QED BY <1>3, <1>4 DEF Stopping
<1>7. LeaderBeforeProof' /\ Passed' /\ Confirmed' /\ Listed'
  BY <1>1, <1>4 DEF IInv, LeaderBeforeProof, Passed, Confirmed, Listed
<1>8. Drift
  BY <1>1, <1>4 DEF Drift, IInv, TypeOK
<1>9. ASSUME NEW t \in Thread PROVE FoundLeading(t)' /\ FoundServing(t)' /\ Unanswered(t)'
  BY <1>1, <1>5, <1>7, <1>8, DriftStep DEF TypeOK
<1> QED BY <1>5, <1>6, <1>7, <1>9 DEF IInv

-----------------------------------------------------------------------------
(* The writes of the main thread.                                              *)

(* What a write leaves: one field, and the other writes.                       *)
LEMMA WriteEffect ==
  ASSUME IInv, DoWrite
  PROVE  /\ UNCHANGED <<probe, clock, faults, probes>>
         /\ Len(loop.todo) \in Nat \ {0} /\ loop.todo[1] \in Writable
         /\ loop' \in LoopState /\ loop'.pc = loop.pc /\ loop'.why = loop.why
         /\ loop'.signalled = loop.signalled
         /\ Len(loop'.todo) = Len(loop.todo) - 1
         /\ \A i \in 1..Len(loop.todo)-1 : loop'.todo[i] = loop.todo[i+1]
         /\ \A f \in Flags : stats'[f] = IF loop.todo[1][1] = f THEN loop.todo[1][2] ELSE stats[f]
         /\ stats'.verified = IF loop.todo[1][1] # "proof" THEN stats.verified
                              ELSE IF loop.todo[1][2] THEN clock ELSE 0
         /\ proven' = IF loop.todo[1][1] \notin {"leader", "proof"} THEN proven
                      ELSE IF loop.todo[1][2] THEN clock ELSE 0
         /\ stats' \in Fields
<1>1. /\ loop.todo \in Seq(Writable) /\ loop.todo # <<>> /\ loop \in LoopState
      /\ stats \in Fields /\ clock \in Nat
  BY DEF DoWrite, IInv, TypeOK, LoopState
<1>2. /\ Len(loop.todo) \in Nat \ {0} /\ loop.todo[1] \in Writable /\ Head(loop.todo) = loop.todo[1]
      /\ Tail(loop.todo) \in Seq(Writable) /\ Len(Tail(loop.todo)) = Len(loop.todo) - 1
      /\ \A i \in 1..Len(loop.todo)-1 : Tail(loop.todo)[i] = loop.todo[i+1]
  BY <1>1
<1>3. loop' = [loop EXCEPT !.todo = Tail(loop.todo)]
  BY DEF DoWrite
<1>4. /\ loop' \in LoopState /\ loop'.pc = loop.pc /\ loop'.why = loop.why
      /\ loop'.signalled = loop.signalled /\ loop'.todo = Tail(loop.todo)
  BY <1>1, <1>2, <1>3 DEF LoopState
<1> DEFINE field == loop.todo[1][1]
           value == loop.todo[1][2]
<1>5. field \in Flags \cup {"proof"} /\ value \in BOOLEAN
  BY <1>2 DEF Writable
<1>6. /\ stats' = IF field = "proof" THEN [stats EXCEPT !.verified = IF value THEN clock ELSE 0]
                                     ELSE [stats EXCEPT ![field] = value]
      /\ proven' = IF field \notin {"leader", "proof"} THEN proven ELSE IF value THEN clock ELSE 0
      /\ UNCHANGED <<probe, clock, faults, probes>>
  BY <1>2 DEF DoWrite
<1> HIDE DEF field, value
<1>7. /\ \A f \in Flags : stats'[f] = IF field = f THEN value ELSE stats[f]
      /\ stats'.verified = IF field # "proof" THEN stats.verified ELSE IF value THEN clock ELSE 0
      /\ stats' \in Fields
  <2>1. CASE field = "proof"
    <3>1. stats' = [stats EXCEPT !.verified = IF value THEN clock ELSE 0]
      BY <1>6, <2>1
    <3>2. stats' \in Fields /\ stats'.verified = IF value THEN clock ELSE 0
      BY <1>1, <3>1 DEF Fields
    <3>3. \A f \in Flags : stats'[f] = stats[f] /\ f # "proof"
      BY <1>1, <3>1 DEF Fields, Flags
    <3> QED BY <2>1, <3>2, <3>3
  <2>2. CASE field # "proof"
    <3>1. stats' = [stats EXCEPT ![field] = value] /\ field \in Flags
      BY <1>5, <1>6, <2>2
    <3>2. stats' \in Fields /\ stats'.verified = stats.verified
      BY <1>1, <1>5, <3>1 DEF Fields, Flags
    <3>3. \A f \in Flags : stats'[f] = IF field = f THEN value ELSE stats[f]
      BY <1>1, <3>1 DEF Fields, Flags
    <3> QED BY <2>2, <3>2, <3>3
  <2> QED BY <2>1, <2>2
<1> QED BY <1>2, <1>4, <1>6, <1>7 DEF field, value

(* A write keeps the invariant: none that is still to do is undone by it.      *)
LEMMA WriteStep ==
  ASSUME IInv, Observed, DoWrite
  PROVE  IInv'
<1> DEFINE w == loop.todo[1]
           n == Len(loop.todo)
<1>1. /\ UNCHANGED <<probe, clock, faults, probes>>
      /\ n \in Nat \ {0} /\ w \in Writable
      /\ loop' \in LoopState /\ loop'.pc = loop.pc /\ loop'.why = loop.why
      /\ loop'.signalled = loop.signalled
      /\ Len(loop'.todo) = n - 1
      /\ \A i \in 1..n-1 : loop'.todo[i] = loop.todo[i+1]
      /\ \A f \in Flags : stats'[f] = IF w[1] = f THEN w[2] ELSE stats[f]
      /\ stats'.verified = IF w[1] # "proof" THEN stats.verified ELSE IF w[2] THEN clock ELSE 0
      /\ proven' = IF w[1] \notin {"leader", "proof"} THEN proven ELSE IF w[2] THEN clock ELSE 0
      /\ stats' \in Fields
  BY WriteEffect
<1>2. /\ stats.verified \in Nat /\ proven \in Nat /\ clock \in Nat \ {0}
      /\ stats.verified <= clock /\ proven <= clock
  BY DEF IInv, TypeOK, Fields
<1> HIDE DEF w, n
<1>3. /\ w[2] \in BOOLEAN /\ w[1] \in Flags \cup {"proof"}
      /\ w[1] \in {"terminating", "stop", "stored"} => w[2]
  BY <1>1, WriteIs DEF Writable
<1>4. \A f, v : w = <<f, v>> <=> w[1] = f /\ w[2] = v
  BY <1>1, WriteIs
<1>5. /\ stats.terminating => stats'.terminating
      /\ stats.stored => stats'.stored
  BY <1>1, <1>3 DEF Flags
<1>6. TypeOK'
  <2>1. stats'.verified <= clock' /\ proven' \in Nat /\ proven' <= clock'
    BY <1>1, <1>2
  <2> QED BY <1>1, <2>1, ObservedStep DEF IInv, TypeOK
<1>7. ~loop.signalled \/ stats'.terminating
  <2>1. SUFFICES ASSUME loop.signalled, ~stats.terminating PROVE stats'.terminating
    BY <1>5
  <2>2. Head(loop.todo) = <<"terminating", TRUE>> /\ loop.todo # <<>>
    BY <2>1 DEF IInv, Stopping
  <2>3. w = <<"terminating", TRUE>>
    <3>1. loop.todo \in Seq(Writable)
      BY DEF IInv, TypeOK, LoopState
    <3>2. loop.todo # <<>> => Head(loop.todo) = loop.todo[1]
      BY <3>1
    <3> QED BY <2>2, <3>2 DEF w
  <2>4. w[1] = "terminating" /\ w[2]
    BY <1>4, <2>3
  <2> QED BY <1>1, <2>4 DEF Flags
<1>8. Stopping'
  BY <1>1, <1>7 DEF Stopping
<1>9. \A v : /\ Pending(v)' => Pending(v)
             /\ Pending(v) => v = w \/ Pending(v)'
  <2> SUFFICES ASSUME NEW v PROVE (Pending(v)' => Pending(v)) /\ (Pending(v) => v = w \/ Pending(v)')
    OBVIOUS
  <2>1. ASSUME NEW i \in 1..Len(loop'.todo), loop'.todo[i] = v PROVE Pending(v)
    <3>1. i + 1 \in 1..n /\ loop.todo[i+1] = v
      BY <1>1, <2>1
    <3> QED BY <3>1 DEF Pending, n
  <2>2. ASSUME NEW i \in 1..n, loop.todo[i] = v, v # w PROVE Pending(v)'
    <3>1. i # 1
      BY <2>2 DEF w
    <3>2. i - 1 \in 1..Len(loop'.todo) /\ loop'.todo[i-1] = v
      BY <1>1, <2>2, <3>1
    <3> QED BY <3>2 DEF Pending
  <2> QED BY <2>1, <2>2 DEF Pending, n
<1>10. Pending(w) /\ w = loop.todo[1] /\ n = Len(loop.todo)
  BY <1>1 DEF Pending, w, n
<1>11. LeaderBeforeProof'
  <2>1. SUFFICES ASSUME ~loop.signalled, NEW i \in 1..n-1, loop.todo[i+1] = <<"proof", FALSE>>
                 PROVE  /\ ~stats'.leader \/ \E j \in 1..i-1 : loop'.todo[j] = <<"leader", FALSE>>
                        /\ \A j \in 1..i-1 : loop'.todo[j] # <<"leader", TRUE>>
    BY <1>1 DEF LeaderBeforeProof
  <2>2. i + 1 \in 1..n
    BY <1>1
  <2>3. /\ ~stats.leader \/ \E j \in 1..i : loop.todo[j] = <<"leader", FALSE>>
        /\ \A j \in 1..i : loop.todo[j] # <<"leader", TRUE>>
    <3>1. (i + 1) - 1 = i
      OBVIOUS
    <3> QED BY <1>10, <2>1, <2>2, <3>1 DEF IInv, LeaderBeforeProof
  <2>4. \A j \in 1..i-1 : j + 1 \in 1..i /\ loop'.todo[j] = loop.todo[j+1]
    BY <1>1, <2>2
  <2>5. w # <<"leader", TRUE>>
    <3>1. 1 \in 1..i
      BY <1>1, <2>2
    <3> QED BY <1>10, <2>3, <3>1
  <2>6. stats'.leader => stats.leader /\ w # <<"leader", FALSE>>
    <3>1. stats'.leader = IF w[1] = "leader" THEN w[2] ELSE stats.leader
      BY <1>1 DEF Flags
    <3>2. ~(w[1] = "leader" /\ w[2])
      BY <1>3, <1>4, <2>5
    <3>3. w = <<"leader", FALSE>> => w[1] = "leader" /\ ~w[2]
      BY <1>4
    <3> QED BY <1>3, <3>1, <3>2, <3>3
  <2>7. ASSUME NEW j \in 1..i, loop.todo[j] = <<"leader", FALSE>>, stats'.leader
        PROVE  j - 1 \in 1..i-1 /\ loop'.todo[j-1] = <<"leader", FALSE>>
    <3>1. j # 1
      BY <1>10, <2>6, <2>7
    <3>2. j \in Nat /\ i \in Nat /\ j - 1 \in 1..i-1 /\ (j - 1) + 1 = j
      BY <1>1, <2>1, <2>7, <3>1
    <3> QED BY <2>4, <2>7, <3>2
  <2>8. ~stats'.leader \/ \E j \in 1..i-1 : loop'.todo[j] = <<"leader", FALSE>>
    BY <2>3, <2>6, <2>7
  <2>9. \A j \in 1..i-1 : loop'.todo[j] # <<"leader", TRUE>>
    BY <2>3, <2>4
  <2> QED BY <2>8, <2>9
<1>12. Confirmed'
  <2>1. ~stats'.terminating /\ stats'.leader => proven' > 0
    <3> SUFFICES ASSUME ~stats'.terminating, stats'.leader PROVE proven' > 0
      OBVIOUS
    <3>1. CASE w[1] \notin {"leader", "proof"}
      <4>1. stats.leader /\ ~stats.terminating
        BY <1>1, <1>5, <3>1 DEF Flags
      <4> QED BY <1>1, <3>1, <4>1 DEF IInv, Confirmed
    <3>2. CASE w[1] \in {"leader", "proof"} /\ w[2]
      BY <1>1, <1>2, <3>2
    <3>3. CASE w[1] = "leader" /\ ~w[2]
      BY <1>1, <3>3 DEF Flags
    <3>4. CASE w[1] = "proof" /\ ~w[2]
      <4>1. w = <<"proof", FALSE>> /\ stats.leader
        <5>1. w[2] = FALSE
          BY <1>3, <3>4
        <5>2. w = <<"proof", FALSE>>
          BY <1>4, <3>4, <5>1
        <5>3. stats.leader
          BY <1>1, <3>4 DEF Flags
        <5> QED BY <5>2, <5>3
      <4>2. 1 \in 1..n /\ ~\E j \in 1..1-1 : loop.todo[j] = <<"leader", FALSE>>
        BY <1>1
      <4>3. ~loop.signalled
        BY <1>7
      <4> QED BY <1>10, <4>1, <4>2, <4>3 DEF IInv, LeaderBeforeProof
    <3> QED BY <1>3, <3>1, <3>2, <3>3, <3>4
  <2>2. proven' > 0 => stats'.verified <= proven'
    BY <1>1, <1>2 DEF IInv, Confirmed
  <2> QED BY <2>1, <2>2 DEF Confirmed
<1>13. ~loop.signalled => Passed'
  <2> SUFFICES ASSUME ~loop.signalled PROVE Passed'
    OBVIOUS
  <2>1. \A places : Asks(places)' <=> Asks(places)
    BY <1>1 DEF Asks
  <2>2. Asks(PastGate)' => stats'.stored \/ Pending(<<"stored", TRUE>>)'
    <3>1. Asks(PastGate) => stats.stored \/ Pending(<<"stored", TRUE>>)
      BY DEF IInv, Passed
    <3>2. w = <<"stored", TRUE>> => stats'.stored
      BY <1>1, <1>4 DEF Flags
    <3> QED BY <1>5, <1>9, <2>1, <3>1, <3>2
  <2>3. Asks(PastGate \cup {"gate", "save"})' =>
          /\ stats'.preflight \/ (loop'.pc = "gate" /\ Pending(<<"preflight", TRUE>>)')
          /\ ~Pending(<<"preflight", FALSE>>)'
    <3>1. Asks(PastGate \cup {"gate", "save"}) =>
            /\ stats.preflight \/ (loop.pc = "gate" /\ Pending(<<"preflight", TRUE>>))
            /\ ~Pending(<<"preflight", FALSE>>)
      BY DEF IInv, Passed
    <3>2. w = <<"preflight", TRUE>> => stats'.preflight
      BY <1>1, <1>4 DEF Flags
    <3>3. stats.preflight /\ w # <<"preflight", FALSE>> => stats'.preflight
      <4>1. stats'.preflight = IF w[1] = "preflight" THEN w[2] ELSE stats.preflight
        BY <1>1 DEF Flags
      <4> QED BY <1>3, <1>4, <4>1
    <3> QED BY <1>1, <1>9, <1>10, <2>1, <3>1, <3>2, <3>3
  <2>4. ~Pending(<<"inventory", TRUE>>)'
    <3>1. Pending(<<"inventory", TRUE>>) => n = 1
      BY <1>10 DEF IInv, Passed
    <3>2. n = 1 => \A v : ~Pending(v)'
      BY <1>1 DEF Pending
    <3> QED BY <1>9, <3>1, <3>2
  <2>5. Pending(<<"api", TRUE>>)' => loop'.pc = "items"
    BY <1>1, <1>9 DEF IInv, Passed
  <2>6. Past => Past'
    BY <1>9, <2>1 DEF Past
  <2>7. ASSUME stats'.inventory
        PROVE  Past' /\ (loop'.pc \in {"pause", "over"} => Pending(<<"inventory", FALSE>>)')
    <3>1. CASE w = <<"inventory", TRUE>>
      <4>1. loop.pc = "watch" /\ n = 1
        BY <1>10, <3>1 DEF IInv, Passed
      <4>2. \A v : ~Pending(v)'
        BY <1>1, <4>1 DEF Pending
      <4> QED BY <1>1, <4>1, <4>2 DEF Past, Asks
    <3>2. CASE w # <<"inventory", TRUE>>
      <4>1. stats.inventory /\ w # <<"inventory", FALSE>>
        BY <1>1, <1>3, <1>4, <2>7, <3>2 DEF Flags
      <4>2. Past /\ (loop.pc \in {"pause", "over"} => Pending(<<"inventory", FALSE>>))
        BY <4>1 DEF IInv, Passed
      <4> QED BY <1>1, <1>9, <2>6, <4>1, <4>2
    <3> QED BY <3>1, <3>2
  <2> QED BY <2>2, <2>3, <2>4, <2>5, <2>7 DEF Passed
<1>14. Passed'
  BY <1>1, <1>13 DEF Passed
<1>15. Listed'
  <2> SUFFICES ASSUME ~stats'.terminating, stats'.inventory PROVE stats'.preflight /\ stats'.stored
    BY DEF Listed
  <2>1. ~loop.signalled /\ ~stats.terminating
    BY <1>5, <1>7
  <2>2. CASE w = <<"inventory", TRUE>>
    <3>1. loop.pc = "watch" /\ n = 1
      BY <1>10, <2>1, <2>2 DEF IInv, Passed
    <3>2. \A v : Pending(v) => v = w
      BY <1>10, <3>1 DEF Pending
    <3>3. Asks(PastGate) /\ Asks(PastGate \cup {"gate", "save"})
      BY <3>1 DEF Asks, PastGate
    <3>4. w # <<"stored", TRUE>>
      BY <2>2
    <3>5. stats.stored /\ stats.preflight
      BY <2>1, <3>1, <3>2, <3>3, <3>4 DEF IInv, Passed
    <3> QED BY <1>1, <2>2, <3>5 DEF Flags
  <2>3. CASE w # <<"inventory", TRUE>>
    <3>1. stats.inventory
      BY <1>1, <1>3, <1>4, <2>3 DEF Flags
    <3>2. stats.preflight /\ stats.stored
      BY <2>1, <3>1 DEF IInv, Listed
    <3>3. ~Pending(<<"preflight", FALSE>>)
      BY <2>1, <3>1 DEF IInv, Passed, Past
    <3>4. w # <<"preflight", FALSE>>
      BY <1>10, <3>3
    <3>5. stats'.preflight = IF w[1] = "preflight" THEN w[2] ELSE stats.preflight
      BY <1>1 DEF Flags
    <3> QED BY <1>3, <1>4, <1>5, <3>2, <3>4, <3>5
  <2> QED BY <2>2, <2>3
<1>16. Drift
  <2>1. stats'.verified \in {stats.verified, 0} \/ (stats'.verified = clock' /\ proven' = clock')
    BY <1>1
  <2>2. ASSUME ~stats'.terminating, loop.signalled \/ Past
        PROVE  Past' /\ (stats'.api => stats.api) /\ (stats'.inventory => stats.inventory)
    <3>1. Past
      BY <1>7, <2>2
    <3>2. Past'
      <4>1. \A places : Asks(places)' <=> Asks(places)
        BY <1>1 DEF Asks
      <4> QED BY <1>9, <3>1, <4>1 DEF Past
    <3>3. w # <<"api", TRUE>> /\ w # <<"inventory", TRUE>>
      BY <1>10, <3>1 DEF Past
    <3> QED BY <1>1, <1>3, <1>4, <3>2, <3>3 DEF Flags
  <2> QED BY <1>1, <1>2, <1>5, <2>1, <2>2 DEF Drift
<1>17. ASSUME NEW t \in Thread PROVE FoundLeading(t)' /\ FoundServing(t)' /\ Unanswered(t)'
  BY <1>1, <1>6, <1>12, <1>15, <1>16, DriftStep DEF TypeOK
<1> QED BY <1>6, <1>8, <1>11, <1>12, <1>14, <1>15, <1>17 DEF IInv

-----------------------------------------------------------------------------
(* The theorems.                                                               *)

(* The invariant holds of a replica that has just begun.                       *)
LEMMA InitIInv == Init => IInv
<1> SUFFICES ASSUME Init PROVE IInv
  OBVIOUS
<1>1. TypeOK
  <2>1. stats \in Fields /\ stats.verified = 0
    BY DEF Init, Fields
  <2>2. loop \in LoopState
    BY DEF Init, LoopState, Places, Asking
  <2>3. NoProbe \in ProbeState /\ NoProbe.now = 0
    BY DEF NoProbe, ProbeState
  <2>4. probe \in [Thread -> ProbeState] /\ \A t \in Thread : probe[t].now = 0
    BY <2>3 DEF Init
  <2> QED BY <2>1, <2>2, <2>4 DEF Init, TypeOK
<1>2. Stopping /\ LeaderBeforeProof /\ Passed /\ Confirmed /\ Listed
  BY DEF Init, Stopping, LeaderBeforeProof, Passed, Confirmed, Listed, Asks, PastGate, Pending
<1>3. ASSUME NEW t \in Thread PROVE FoundLeading(t) /\ FoundServing(t) /\ Unanswered(t)
  <2>1. probe[t].pc = 0
    BY DEF Init, NoProbe
  <2> QED BY <2>1 DEF FoundLeading, FoundServing, Found, Undelayed, Evaluating, Unanswered
<1> QED BY <1>1, <1>2, <1>3 DEF IInv

(* Every step keeps it.                                                        *)
LEMMA StepIInv == IInv /\ [Next]_vars => IInv'
<1> SUFFICES ASSUME IInv, [Next]_vars PROVE IInv'
  OBVIOUS
<1>1. CASE UNCHANGED vars
  <2>1. UNCHANGED <<stats, loop, probe, clock, proven, seen, faults, probes>>
    BY <1>1 DEF vars
  <2>2. TypeOK' /\ LoopInv'
    BY <2>1, LoopUnchanged DEF IInv, LoopInv, TypeOK
  <2>3. ASSUME NEW t \in Thread PROVE FoundLeading(t)' /\ FoundServing(t)' /\ Unanswered(t)'
    BY <2>1 DEF IInv, FoundLeading, FoundServing, Found, TooOld, Undelayed, Evaluating, Unanswered,
                Past, Asks, Pending
  <2> QED BY <2>2, <2>3 DEF IInv, LoopInv
<1>2. CASE Loop /\ Observed
  BY <1>2, WriteStep, BeforeListStep, AskStep, LeadsStep, ListStep, EndingStep DEF Loop
<1>3. CASE Failure /\ Observed
  BY <1>3, AskStep, ListStep, EndingStep DEF Failure
<1>4. CASE Stop /\ Observed
  BY <1>4, StopStep
<1>5. CASE Tick /\ Observed
  BY <1>5, TickStep
<1>6. ASSUME NEW t \in Thread, Evaluation(t), Observed PROVE IInv'
  BY <1>6, EvaluationStep
<1> QED BY <1>1, <1>2, <1>3, <1>4, <1>5, <1>6 DEF Next

(* The invariant holds in every behaviour.                                     *)
LEMMA Invariant == Spec => []IInv
<1>1. Init => IInv
  BY InitIInv
<1>2. IInv /\ [Next]_vars => IInv'
  BY StepIInv
<1> QED BY <1>1, <1>2, PTL DEF Spec

(* What an answer of 200 has behind it, in any step.                           *)
LEMMA AnswerStep ==
  ASSUME IInv, [Next]_vars, NEW t \in Thread, Answers(t, 200)
  PROVE  /\ "leading" \in seen[t]
         /\ "delay" \notin seen[t] => "serving" \in seen[t]
<1>1. probe[t].pc > 0 /\ probe'[t].status = 200 /\ probe[t].status = 0
  BY DEF Answers, Evaluating, IInv, Unanswered
<1>2. probe'[t] # probe[t]
  BY <1>1
<1>3. Look(t)
  <2>1. probe' # probe
    BY <1>2
  <2>2. \E u \in Thread : Evaluation(u)
    BY <2>1
       DEF Next, vars, Loop, Failure, DoWrite, Cycle, CheckPasses, GateAccepts, GateSaves, AskLease,
           Leads, ListAnswers, Fleet, ListSettled, ListDeferred, WatchEnds, CheckFails, GateRefuses,
           DoesNotLead, ListFails, ItemDeferred, WatchFails, Stop, Tick
  <2>3. PICK u \in Thread : Evaluation(u)
    BY <2>2
  <2>4. probe \in [Thread -> ProbeState]
    BY DEF IInv, TypeOK
  <2>5. u = t
    <3>1. CASE Look(u)
      BY <1>2, <3>1, LookEffect
    <3>2. CASE Begin(u)
      BY <1>2, <2>4, <3>2 DEF Begin
    <3>3. CASE Invalidate(u)
      BY <1>2, <2>4, <3>3 DEF Invalidate
    <3> QED BY <2>3, <3>1, <3>2, <3>3 DEF Evaluation
  <2>6. ~Begin(t)
    BY <1>1 DEF Begin
  <2>7. ~Invalidate(t)
    <3> SUFFICES ASSUME Invalidate(t) PROVE FALSE
      OBVIOUS
    <3>1. CASE probe[t].pc = Len(Reads) + 1
      <4>1. probe' = [probe EXCEPT ![t] = [probe[t] EXCEPT !.pc = @ + 1]]
        BY <3>1 DEF Invalidate
      <4>2. probe'[t] = [probe[t] EXCEPT !.pc = @ + 1] /\ probe[t] \in ProbeState
        BY <2>4, <4>1
      <4> QED BY <1>1, <4>2 DEF ProbeState
    <3>2. CASE probe[t].pc # Len(Reads) + 1
      <4>1. probe'[t] = [NoProbe EXCEPT !.status = 503]
        BY <2>4, <3>2 DEF Invalidate
      <4> QED BY <1>1, <4>1 DEF NoProbe
    <3> QED BY <3>1, <3>2
  <2> QED BY <2>3, <2>5, <2>6, <2>7 DEF Evaluation
<1>4. probe[t].pc = 20
  BY <1>1, <1>3, LookEffect
<1> QED BY <1>1, <1>4 DEF IInv, FoundLeading, FoundServing, Undelayed, Evaluating

(* A 200 on /readyz is never the answer of a replica that led at no time while *)
(* it was asked (runtime_v16.py, health_v16.py): ready() reads the flag of the *)
(* leadership, then its proof, then the clock, and looks at the age last.      *)
THEOREM ReadyOnlyWhileLeading == Spec => ReadyWasLeading
<1>1. IInv /\ [Next]_vars => [\A t \in Thread : Answers(t, 200) => "leading" \in seen[t]]_vars
  BY AnswerStep
<1>2. Spec => [][\A t \in Thread : Answers(t, 200) => "leading" \in seen[t]]_vars
  BY <1>1, Invariant, PTL DEF Spec
<1> QED BY <1>2 DEF ReadyWasLeading

(* A 200 that no tick of the clock and no cycle went by was true: at one        *)
(* instant of the evaluation every gate was open, though no lock keeps the      *)
(* fields still while they are read (readiness_diagnosis).                     *)
THEOREM ReadyOnlyWhileServing == Spec => ReadyWasTrue
<1>1. IInv /\ [Next]_vars =>
        [\A t \in Thread : Answers(t, 200) /\ "delay" \notin seen[t] => "serving" \in seen[t]]_vars
  BY AnswerStep
<1>2. Spec => [][\A t \in Thread : Answers(t, 200) /\ "delay" \notin seen[t] => "serving" \in seen[t]]_vars
  BY <1>1, Invariant, PTL DEF Spec
<1> QED BY <1>2 DEF ReadyWasTrue
=============================================================================
