------------------------- MODULE FleetReconcileProofs -------------------------
(* For any fleets, versions, size of the watch cache and bounds:               *)
(*                                                                             *)
(* What the operator writes to a fleet was planned from the very object it     *)
(* writes to.  This follows from one fact about optimistic concurrency: two    *)
(* copies of a fleet, wherever they are held, that carry the same              *)
(* resourceVersion are equal.                                                  *)
(*                                                                             *)
(* While the inventory counts as fresh, no version of a fleet is missed: from  *)
(* the moment a list is taken, every version is in somebody's hands, and the   *)
(* cache suppresses only what is settled.  The cache is pruned and seeded one  *)
(* entry at a time, by recursive functions; what those return is proved from   *)
(* the least-number principle, in its form without an operator parameter       *)
(* (WFMin).                                                                    *)
EXTENDS FleetReconcile, TLAPS, WellFoundedInduction

Statuses == {NoStatus} \cup [gen : Nat, approved : BOOLEAN]
ObjectsOf(versions) ==
  {o \in [name : Fleets, uid : Fleets \X Nat, gen : Nat, rv : versions, approved : BOOLEAN,
          deleting : BOOLEAN, held : BOOLEAN, guarded : BOOLEAN, status : Statuses] :
     o.uid[1] = o.name}
Objects == ObjectsOf(Versions)
Types == {"ADDED", "MODIFIED", "DELETED"}
Events == [type : Types, obj : Objects]

(* Who holds copies.                                                           *)
Served == {fleet[n] : n \in {m \in Fleets : Exists(m)}}
Listed == {listed[i] : i \in DOMAIN listed}
Streamed == {stream[i].obj : i \in DOMAIN stream}
Repeatable == IF past = NoEvent THEN {} ELSE {past.obj}
Worked == IF step = "idle" THEN {} ELSE {work.obj}
Fetched == IF step = "retry" THEN {fresh} ELSE {}

(* Copies is what all of these hold, before and after a step.                  *)
LEMMA CopiesParts ==
  /\ Copies = Served \cup todo \cup Listed \cup Streamed \cup Repeatable \cup Worked \cup Fetched
  /\ Copies' = Served' \cup todo' \cup Listed' \cup Streamed' \cup Repeatable' \cup Worked'
                 \cup Fetched'
BY DEF Copies, Served, Listed, Streamed, Repeatable, Worked, Fetched

-----------------------------------------------------------------------------
(* The inductive invariant.                                                    *)
Typed ==
  /\ edits \in Nat
  /\ fleet \in [Fleets -> Objects \cup {NoFleet}]
  /\ \A n \in Fleets : Exists(n) => fleet[n].name = n
  /\ stream \in Seq(Events)
  /\ past \in Events \cup {NoEvent}
  /\ todo \subseteq Objects
  /\ listed \in Seq(Objects)
  /\ step # "idle" => work.obj \in Objects
  /\ step = "retry" => fresh \in Objects

(* A resourceVersion names one state of one object.                            *)
VersionsIdentify ==
  \A o, p \in Copies : o.name = p.name /\ o.rv = p.rv => o = p

(* A retry is of a write that the fresh object calls for, too, on the same     *)
(* incarnation and with the same decision.                                     *)
RetryJustified ==
  step = "retry" => /\ fresh.uid = work.obj.uid /\ Planned(fresh)
                    /\ fresh.deleting = work.obj.deleting
                    /\ ~fresh.deleting => fresh.approved = work.obj.approved

IInv == Typed /\ VersionsIdentify /\ RetryJustified

-----------------------------------------------------------------------------
(* Lemmas about copies.                                                        *)

(* An absent fleet is told from any object.                                    *)
LEMMA NoFleetIsNoObject == NoFleet \notin Objects
<1>1. ASSUME NEW o \in Objects PROVE o # NoFleet
  <2>1. "name" \in DOMAIN o
    BY DEF Objects, ObjectsOf
  <2>2. DOMAIN NoFleet = {"uid"}
    BY DEF NoFleet
  <2> QED BY <2>1, <2>2
<1> QED BY <1>1

(* All copies are objects.                                                     *)
LEMMA CopiesTyped == Typed => Copies \subseteq Objects
<1> SUFFICES ASSUME Typed PROVE Copies \subseteq Objects
  OBVIOUS
<1>1. Served \subseteq Objects
  BY DEF Typed, Served, Exists
<1>2. Listed \subseteq Objects /\ Streamed \subseteq Objects
  <2>1. \A i \in DOMAIN listed : listed[i] \in Objects
    BY DEF Typed
  <2>2. \A i \in DOMAIN stream : stream[i] \in Events
    BY DEF Typed
  <2> QED BY <2>1, <2>2 DEF Listed, Streamed, Events
<1>3. Repeatable \subseteq Objects /\ Worked \subseteq Objects /\ Fetched \subseteq Objects
  BY DEF Typed, Repeatable, Worked, Fetched, Events
<1> QED BY <1>1, <1>2, <1>3, CopiesParts DEF Typed

(* A step at most adds one copy, of a version that nobody held.                *)
Novel(o) == o \in Objects /\ \A c \in Copies : c.name = o.name => c.rv # o.rv
Grows == Copies' \subseteq Copies \/ \E o \in Objects : Novel(o) /\ Copies' \subseteq Copies \cup {o}

(* Such a step leaves versions unambiguous.                                    *)
LEMMA GrowingIdentifies ==
  ASSUME VersionsIdentify, Grows
  PROVE  VersionsIdentify'
<1>1. CASE Copies' \subseteq Copies
  BY <1>1 DEF VersionsIdentify
<1>2. ASSUME NEW o \in Objects, Novel(o), Copies' \subseteq Copies \cup {o}
      PROVE  VersionsIdentify'
  BY <1>2 DEF VersionsIdentify, Novel
<1> QED BY <1>1, <1>2 DEF Grows

(* A fleet with the resourceVersion of a copy is that copy.                    *)
LEMMA MatchIsEqual ==
  ASSUME IInv, NEW o \in Copies, Matches(o)
  PROVE  o.name \in Fleets /\ Exists(o.name) /\ fleet[o.name] = o
<1>1. o \in Objects /\ o.name \in Fleets
  BY CopiesTyped DEF IInv, Objects, ObjectsOf
<1>2. Exists(o.name) /\ fleet[o.name] \in Copies
  BY <1>1, CopiesParts DEF Matches, Served
<1> QED BY <1>1, <1>2 DEF IInv, Typed, VersionsIdentify, Matches

(* What Append does to a sequence.                                             *)
LEMMA Appended ==
  ASSUME NEW S, NEW s \in Seq(S), NEW x \in S
  PROVE  /\ Append(s, x) \in Seq(S)
         /\ \A i \in DOMAIN Append(s, x) :
              \/ Append(s, x)[i] = x
              \/ i \in DOMAIN s /\ Append(s, x)[i] = s[i]
OBVIOUS

(* What one write of the API server does: the object it makes is novel.        *)
LEMMA BecomesNovel ==
  ASSUME Typed, NEW n \in Fleets, NEW type \in Types,
         NEW o \in ObjectsOf(Versions \cup {0}), o.name = n, Becomes(n, type, o)
  PROVE  LET new == [o EXCEPT !.rv = NewVersion(n)]
         IN  /\ new \in Objects /\ new.name = n /\ Novel(new)
             /\ fleet' = [fleet EXCEPT ![n] = IF type = "DELETED" THEN NoFleet ELSE new]
             /\ fleet' \in [Fleets -> Objects \cup {NoFleet}]
             /\ \A m \in Fleets : Exists(m)' => fleet'[m].name = m
             /\ Served' \subseteq Served \cup {new}
             /\ stream' \in Seq(Events)
             /\ Streamed' \subseteq Streamed \cup {new}
<1> DEFINE new == [o EXCEPT !.rv = NewVersion(n)]
<1>1. NewVersion(n) \in Versions /\ NewVersion(n) \notin InUse(n)
  BY DEF Becomes, NewVersion, Free
<1>2. new \in Objects /\ new.name = n /\ new.rv = NewVersion(n)
  BY <1>1 DEF Objects, ObjectsOf
<1>3. Novel(new)
  BY <1>1, <1>2 DEF Novel, InUse
<1>4. fleet' = [fleet EXCEPT ![n] = IF type = "DELETED" THEN NoFleet ELSE new]
      /\ stream' = IF stage = "list" THEN <<>> ELSE Append(stream, Event(type, new))
  BY DEF Becomes, Publish
<1> HIDE DEF new
<1>5. fleet' \in [Fleets -> Objects \cup {NoFleet}]
  BY <1>2, <1>4 DEF Typed
<1>6. \A m \in Fleets : fleet'[m] = IF m # n THEN fleet[m]
                                    ELSE IF type = "DELETED" THEN NoFleet ELSE new
  BY <1>4 DEF Typed
<1>7. \A m \in Fleets : Exists(m)' => fleet'[m].name = m
  BY <1>2, <1>6 DEF Typed, Exists
<1>8. Served' \subseteq Served \cup {new}
  BY <1>6 DEF Served, Exists
<1>9. Event(type, new) \in Events /\ Event(type, new).obj = new
  BY <1>2 DEF Event, Events
<1>10. stream' \in Seq(Events)
  BY <1>4, <1>9, Appended DEF Typed
<1>11. Streamed' \subseteq Streamed \cup {new}
  <2>1. \A i \in DOMAIN stream' : stream'[i].obj = new
                                  \/ (i \in DOMAIN stream /\ stream'[i] = stream[i])
    BY <1>4, <1>9, Appended DEF Typed
  <2> QED BY <2>1 DEF Streamed
<1> QED BY <1>2, <1>3, <1>4, <1>5, <1>7, <1>8, <1>10, <1>11 DEF new

(* The same of a write of any kind, with what it makes left open.              *)
Written ==
  /\ fleet' \in [Fleets -> Objects \cup {NoFleet}]
  /\ \A m \in Fleets : Exists(m)' => fleet'[m].name = m
  /\ stream' \in Seq(Events)
  /\ \E new \in Objects : /\ Novel(new)
                          /\ Served' \subseteq Served \cup {new}
                          /\ Streamed' \subseteq Streamed \cup {new}

(* One write of the API server is of that kind.                                *)
LEMMA BecomesWritten ==
  ASSUME Typed, NEW n \in Fleets, NEW type \in Types,
         NEW o \in ObjectsOf(Versions \cup {0}), o.name = n, Becomes(n, type, o)
  PROVE  Written
<1> DEFINE new == [o EXCEPT !.rv = NewVersion(n)]
<1>1. /\ new \in Objects /\ Novel(new)
      /\ fleet' \in [Fleets -> Objects \cup {NoFleet}]
      /\ \A m \in Fleets : Exists(m)' => fleet'[m].name = m
      /\ Served' \subseteq Served \cup {new}
      /\ stream' \in Seq(Events)
      /\ Streamed' \subseteq Streamed \cup {new}
  BY BecomesNovel
<1> HIDE DEF new
<1> QED BY <1>1 DEF Written

(* A PATCH of the object it was planned from: a finalizer goes, and perhaps    *)
(* the object with it, or the status of what is there is written.              *)
LEMMA PatchWritten ==
  ASSUME Typed, NEW n \in Fleets, Exists(n), NEW o, fleet[n] = o, Patch(n, o)
  PROVE  /\ Written
         /\ \A m \in Fleets \ {n} : fleet'[m] = fleet[m]
         /\ o.deleting => fleet'[n] = NoFleet \/ fleet'[n].status = o.status
         /\ ~o.deleting => /\ fleet'[n] \in Objects
                           /\ fleet'[n].guarded = o.guarded
                           /\ fleet'[n].status = Status(fleet'[n])
<1>1. o \in Objects /\ o.name = n
  BY DEF Typed, Exists
<1>2. ASSUME o.deleting, NEW type \in {"DELETED", "MODIFIED"},
             Becomes(n, type, [o EXCEPT !.guarded = FALSE])
      PROVE  /\ Written
             /\ \A m \in Fleets \ {n} : fleet'[m] = fleet[m]
             /\ fleet'[n] = NoFleet \/ fleet'[n].status = o.status
  <2> DEFINE free == [o EXCEPT !.guarded = FALSE]
             new == [free EXCEPT !.rv = NewVersion(n)]
  <2>1. free \in ObjectsOf(Versions \cup {0}) /\ free.name = n /\ new.status = o.status
    BY <1>1 DEF Objects, ObjectsOf
  <2>2. fleet' = [fleet EXCEPT ![n] = IF type = "DELETED" THEN NoFleet ELSE new]
    BY <1>2 DEF Becomes
  <2>3. type \in Types
    BY <1>2 DEF Types
  <2>4. Becomes(n, type, free)
    BY <1>2, Zenon
  <2> HIDE DEF free
  <2>5. Written
    BY <2>1, <2>3, <2>4, BecomesWritten
  <2> HIDE DEF new
  <2> QED BY <2>1, <2>2, <2>5 DEF Typed
<1>3. ASSUME ~o.deleting, Becomes(n, "MODIFIED", [o EXCEPT !.status = Status(o)])
      PROVE  /\ Written
             /\ \A m \in Fleets \ {n} : fleet'[m] = fleet[m]
             /\ fleet'[n] \in Objects
             /\ fleet'[n].guarded = o.guarded
             /\ fleet'[n].status = Status(fleet'[n])
  <2> DEFINE told == [o EXCEPT !.status = Status(o)]
             new == [told EXCEPT !.rv = NewVersion(n)]
  <2>1. Status(o) \in Statuses
    BY <1>1 DEF Status, Statuses, Objects, ObjectsOf
  <2>2. told \in ObjectsOf(Versions \cup {0}) /\ told.name = n
    BY <1>1, <2>1 DEF Objects, ObjectsOf
  <2>3. new.guarded = o.guarded /\ new.status = Status(new)
    BY <1>1 DEF Objects, ObjectsOf, Status
  <2>4. fleet' = [fleet EXCEPT ![n] = new]
    BY <1>3 DEF Becomes
  <2>5. Becomes(n, "MODIFIED", told)
    BY <1>3, Zenon
  <2> HIDE DEF told
  <2>6. "MODIFIED" \in Types
    BY DEF Types
  <2>7. Written
    BY <2>2, <2>5, <2>6, BecomesWritten
  <2>8. new \in Objects
    BY <2>2, <2>5, <2>6, BecomesNovel
  <2> HIDE DEF new
  <2> QED BY <2>3, <2>4, <2>7, <2>8 DEF Typed
<1>4. \/ o.deleting /\ \E type \in {"DELETED", "MODIFIED"} :
                         Becomes(n, type, [o EXCEPT !.guarded = FALSE])
      \/ ~o.deleting /\ Becomes(n, "MODIFIED", [o EXCEPT !.status = Status(o)])
  BY DEF Patch
<1> QED BY <1>2, <1>3, <1>4

-----------------------------------------------------------------------------
(* How reconcile_object ends: nothing is held that was not held before.        *)
LEMMA Ends ==
  ASSUME Typed, step # "idle", Settle \/ Defer \/ Abort
  PROVE  /\ todo' \subseteq todo /\ listed' \in Seq(Objects)
         /\ Listed' \subseteq Listed \cup Worked
         /\ step' = "idle" /\ Worked' = {} /\ Fetched' = {}
<1>1. work.obj \in Objects /\ Worked = {work.obj}
  BY DEF Typed, Worked
<1>2. step' = "idle"
  BY DEF Settle, Defer, Abort, Idle
<1>3. todo' \subseteq todo
  BY DEF Settle, Defer, Abort
<1>4. listed' = listed \/ listed' = Append(listed, work.obj)
  BY DEF Settle, Defer, Abort
<1>5. listed' \in Seq(Objects)
  BY <1>1, <1>4, Appended DEF Typed
<1>6. \A i \in DOMAIN listed' : \/ listed'[i] = work.obj
                                \/ i \in DOMAIN listed /\ listed'[i] = listed[i]
  BY <1>1, <1>4, Appended DEF Typed
<1>7. Listed' \subseteq Listed \cup Worked
  BY <1>1, <1>6 DEF Listed
<1> QED BY <1>2, <1>3, <1>5, <1>7 DEF Worked, Fetched

(* It ends without having written anything.                                    *)
LEMMA QuietEnd ==
  ASSUME Typed, step # "idle", Settle \/ Defer \/ Abort,
         fleet' = fleet, stream' = stream, edits' = edits, past' = past
  PROVE  Typed' /\ Grows
<1>1. Served' = Served /\ Streamed' = Streamed /\ Repeatable' = Repeatable
  BY DEF Served, Exists, Streamed, Repeatable
<1>2. Copies' \subseteq Copies
  BY <1>1, Ends, CopiesParts
<1>3. Typed'
  BY Ends DEF Typed, Exists
<1> QED BY <1>2, <1>3 DEF Grows

(* It ends in the step that writes.                                            *)
LEMMA WritingEnd ==
  ASSUME Typed, step # "idle", Settle \/ Defer \/ Abort,
         Written, edits' = edits, past' = past
  PROVE  Typed' /\ Grows
<1>1. PICK new \in Objects : /\ Novel(new)
                             /\ Served' \subseteq Served \cup {new}
                             /\ Streamed' \subseteq Streamed \cup {new}
  BY DEF Written
<1>2. Repeatable' = Repeatable
  BY DEF Repeatable
<1>3. Copies' \subseteq Copies \cup {new}
  BY <1>1, <1>2, Ends, CopiesParts
<1>4. Typed'
  BY Ends DEF Typed, Written
<1> QED BY <1>1, <1>3, <1>4 DEF Grows

-----------------------------------------------------------------------------
(* The environment's writes.                                                   *)
LEMMA EditWritten ==
  ASSUME Typed, NEW n \in Fleets, Edit(n)
  PROVE  Written
<1>1. ASSUME Exists(n), Becomes(n, "MODIFIED", [fleet[n] EXCEPT !.gen = @ + 1])
      PROVE  Written
  <2> DEFINE o == [fleet[n] EXCEPT !.gen = @ + 1]
  <2>1. fleet[n] \in Objects /\ fleet[n].name = n
    BY <1>1 DEF Typed, Exists
  <2>2. o \in ObjectsOf(Versions \cup {0}) /\ o.name = n
    BY <2>1 DEF Objects, ObjectsOf
  <2>3. Becomes(n, "MODIFIED", o)
    BY <1>1, Zenon
  <2>4. "MODIFIED" \in Types
    BY DEF Types
  <2> HIDE DEF o
  <2> QED BY <2>2, <2>3, <2>4, BecomesWritten
<1>2. ASSUME Exists(n), Becomes(n, "MODIFIED", [fleet[n] EXCEPT !.approved = ~@])
      PROVE  Written
  <2> DEFINE o == [fleet[n] EXCEPT !.approved = ~@]
  <2>1. fleet[n] \in Objects /\ fleet[n].name = n
    BY <1>2 DEF Typed, Exists
  <2>2. o \in ObjectsOf(Versions \cup {0}) /\ o.name = n
    BY <2>1 DEF Objects, ObjectsOf
  <2>3. Becomes(n, "MODIFIED", o)
    BY <1>2, Zenon
  <2>4. "MODIFIED" \in Types
    BY DEF Types
  <2> HIDE DEF o
  <2> QED BY <2>2, <2>3, <2>4, BecomesWritten
<1>3. ASSUME Exists(n), Becomes(n, "MODIFIED", [fleet[n] EXCEPT !.deleting = TRUE, !.gen = @ + 1])
      PROVE  Written
  <2> DEFINE o == [fleet[n] EXCEPT !.deleting = TRUE, !.gen = @ + 1]
  <2>1. fleet[n] \in Objects /\ fleet[n].name = n
    BY <1>3 DEF Typed, Exists
  <2>2. o \in ObjectsOf(Versions \cup {0}) /\ o.name = n
    <3> DEFINE marked == [fleet[n] EXCEPT !.deleting = TRUE]
    <3>1. marked \in Objects /\ marked.name = n
      BY <2>1 DEF Objects, ObjectsOf
    <3>2. fleet[n].gen + 1 \in Nat
      BY <2>1 DEF Objects, ObjectsOf
    <3>3. o = [marked EXCEPT !.gen = fleet[n].gen + 1]
      OBVIOUS
    <3> HIDE DEF marked, o
    <3> QED BY <3>1, <3>2, <3>3 DEF Objects, ObjectsOf
  <2>3. Becomes(n, "MODIFIED", o)
    BY <1>3, Zenon
  <2>4. "MODIFIED" \in Types
    BY DEF Types
  <2> HIDE DEF o
  <2> QED BY <2>2, <2>3, <2>4, BecomesWritten
<1>4. ASSUME Exists(n), Becomes(n, "MODIFIED", [fleet[n] EXCEPT !.held = ~@])
      PROVE  Written
  <2> DEFINE o == [fleet[n] EXCEPT !.held = ~@]
  <2>1. fleet[n] \in Objects /\ fleet[n].name = n
    BY <1>4 DEF Typed, Exists
  <2>2. o \in ObjectsOf(Versions \cup {0}) /\ o.name = n
    BY <2>1 DEF Objects, ObjectsOf
  <2>3. Becomes(n, "MODIFIED", o)
    BY <1>4, Zenon
  <2>4. "MODIFIED" \in Types
    BY DEF Types
  <2> HIDE DEF o
  <2> QED BY <2>2, <2>3, <2>4, BecomesWritten
<1>5. ASSUME Exists(n), Becomes(n, "DELETED", fleet[n])
      PROVE  Written
  <2> DEFINE o == fleet[n]
  <2>1. fleet[n] \in Objects /\ fleet[n].name = n
    BY <1>5 DEF Typed, Exists
  <2>2. o \in ObjectsOf(Versions \cup {0}) /\ o.name = n
    BY <2>1 DEF Objects, ObjectsOf
  <2>3. Becomes(n, "DELETED", o)
    BY <1>5, Zenon
  <2>4. "DELETED" \in Types
    BY DEF Types
  <2> HIDE DEF o
  <2> QED BY <2>2, <2>3, <2>4, BecomesWritten
<1>6. ASSUME Exists(n), Patch(n, fleet[n])
      PROVE  Written
  BY <1>6, PatchWritten
<1>7. ASSUME Becomes(n, "ADDED", NewFleet(n, edits + 1, 0))
      PROVE  Written
  <2>1. NewFleet(n, edits + 1, 0) \in ObjectsOf(Versions \cup {0})
        /\ NewFleet(n, edits + 1, 0).name = n
    BY DEF Typed, NewFleet, ObjectsOf, Statuses
  <2>2. "ADDED" \in Types
    BY DEF Types
  <2> QED BY <1>7, <2>1, <2>2, BecomesWritten
<1> QED BY <1>1, <1>2, <1>3, <1>4, <1>5, <1>6, <1>7 DEF Edit

(* An edit adds the object it makes, and nothing else.                         *)
LEMMA EditStep ==
  ASSUME Typed, NEW n \in Fleets, Edit(n)
  PROVE  Typed' /\ Grows
<1>1. PICK new \in Objects : /\ Novel(new)
                             /\ Served' \subseteq Served \cup {new}
                             /\ Streamed' \subseteq Streamed \cup {new}
  BY EditWritten DEF Written
<1>2. /\ todo' = todo /\ listed' = listed /\ past' = past
      /\ step' = step /\ work' = work /\ fresh' = fresh /\ edits' = edits + 1
  BY DEF Edit
<1>3. Listed' = Listed /\ Repeatable' = Repeatable /\ Worked' = Worked /\ Fetched' = Fetched
  BY <1>2 DEF Listed, Repeatable, Worked, Fetched
<1>4. Copies' \subseteq Copies \cup {new}
  BY <1>1, <1>2, <1>3, CopiesParts
<1>5. Typed'
  BY <1>2, EditWritten DEF Typed, Written
<1> QED BY <1>1, <1>4, <1>5 DEF Grows

-----------------------------------------------------------------------------
(* The watch delivers an object that the stream, or its repetition, held.      *)
LEMMA DeliveredStep ==
  ASSUME Typed, NEW e \in Events, Delivered(e), step = "idle"
  PROVE  /\ past' \in Events \cup {NoEvent} /\ Repeatable' \subseteq Repeatable \cup {e.obj}
         /\ step' # "idle" => work'.obj = e.obj
         /\ step' # "retry" /\ Worked' \subseteq {e.obj} /\ Fetched' = {}
         /\ fleet' = fleet /\ edits' = edits /\ todo' = todo /\ listed' = listed
<1>1. past' \in {past, e, NoEvent}
  BY DEF Delivered
<1>2. \/ step' = step
      \/ step' = "try" /\ \E prior : work' = Delivery(e.type, e.obj, prior)
  BY DEF Delivered
<1>3. step' # "idle" => work'.obj = e.obj
  BY <1>2 DEF Delivery
<1>4. step' # "retry"
  BY <1>2
<1> QED BY <1>1, <1>3, <1>4 DEF Typed, Repeatable, Worked, Fetched, Delivered

(* The next event passes from the stream to the reconciliation.                *)
LEMMA NextEventStep ==
  ASSUME Typed, NextEvent
  PROVE  Typed' /\ Grows
<1> DEFINE e == Head(stream)
<1>1. /\ stream # <<>> /\ stream \in Seq(Events) /\ stream' = Tail(stream)
      /\ Delivered(e) /\ step = "idle"
  BY DEF Typed, NextEvent
<1>2. e \in Events /\ stream' \in Seq(Events) /\ e.obj \in Streamed
  BY <1>1 DEF Streamed
<1>3. Streamed' \subseteq Streamed
  <2>1. \A i \in DOMAIN stream' : i + 1 \in DOMAIN stream /\ stream'[i] = stream[i + 1]
    BY <1>1
  <2> QED BY <2>1 DEF Streamed
<1> HIDE DEF e
<1>4. Served' = Served /\ Listed' = Listed
  BY <1>1, <1>2, DeliveredStep DEF Served, Exists, Listed
<1>5. Copies' \subseteq Copies
  BY <1>1, <1>2, <1>3, <1>4, DeliveredStep, CopiesParts
<1>6. e.obj \in Objects
  BY <1>2 DEF Events
<1>7. Typed'
  BY <1>1, <1>2, <1>6, DeliveredStep DEF Typed, Exists
<1> QED BY <1>5, <1>7 DEF Grows

(* A repeated event is of a copy that was held for it.                         *)
LEMMA OldEventStep ==
  ASSUME Typed, OldEvent
  PROVE  Typed' /\ Grows
<1>1. past # NoEvent /\ past \in Events /\ stream' = stream /\ Delivered(past) /\ step = "idle"
  BY DEF Typed, OldEvent
<1>2. past.obj \in Repeatable /\ past.obj \in Objects
  BY <1>1 DEF Repeatable, Events
<1>3. Served' = Served /\ Listed' = Listed /\ Streamed' = Streamed
  BY <1>1, DeliveredStep DEF Served, Exists, Listed, Streamed
<1>4. Copies' \subseteq Copies
  BY <1>1, <1>2, <1>3, DeliveredStep, CopiesParts
<1>5. Typed'
  BY <1>1, <1>2, DeliveredStep DEF Typed, Exists
<1> QED BY <1>4, <1>5 DEF Grows

-----------------------------------------------------------------------------
(* The operator's writes.  Whatever it patches is the object the patch was     *)
(* planned from, and the plan is that of the reconciliation under way.         *)
Justified(o) ==
  /\ o \in Copies /\ o.name \in Fleets /\ Exists(o.name) /\ fleet[o.name] = o
  /\ Patch(o.name, o) /\ Planned(o)
  /\ o.uid = work.obj.uid
  /\ ~o.deleting => o.approved = work.obj.approved
OperatorWrites == step # "idle" /\ edits' = edits /\ \E o \in Copies : Justified(o)

(* The PATCH of the object that was listed or watched.                         *)
LEMMA FirstWrite ==
  ASSUME IInv, step = "try", Due(work.obj), Matches(work.obj), Patch(work.obj.name, work.obj)
  PROVE  Justified(work.obj)
<1>1. work.obj \in Copies
  BY CopiesParts DEF Worked
<1> QED BY <1>1, MatchIsEqual DEF Justified, Due

(* The PATCH after a conflict, of the object read again.                       *)
LEMMA SecondWrite ==
  ASSUME IInv, step = "retry", Matches(fresh), Patch(fresh.name, fresh)
  PROVE  Justified(fresh)
<1>1. fresh \in Copies
  BY CopiesParts DEF Fetched
<1> QED BY <1>1, MatchIsEqual DEF Justified, IInv, RetryJustified

(* Either is a write that adds one novel copy.                                 *)
LEMMA OperatorWritten ==
  ASSUME IInv, OperatorWrites
  PROVE  Written
BY PatchWritten DEF IInv, OperatorWrites, Justified

(* Reconciling ends without a write, or with one, or goes on.                  *)
LEMMA ReconcileKinds ==
  ASSUME IInv, Reconcile
  PROVE  /\ edits' = edits /\ past' = past /\ step # "idle"
         /\ \/ fleet' = fleet /\ stream' = stream
            \/ OperatorWrites
         /\ \/ Settle \/ Defer \/ Abort
            \/ PatchConflicts
            \/ /\ Get /\ step' = "retry" /\ fresh' = fleet[work.obj.name]
               /\ Retryable(fresh') /\ UNCHANGED <<work, todo, listed>>
<1> USE DEF server
<1>1. CASE NothingToDo
  BY <1>1 DEF NothingToDo
<1>2. CASE PutOff
  BY <1>2 DEF PutOff
<1>3. CASE Patched
  <2>1. OperatorWrites
    BY <1>3, FirstWrite DEF Patched, OperatorWrites, Justified
  <2> QED BY <1>3, <2>1 DEF Patched
<1>4. CASE PatchConflicts
  BY <1>4 DEF PatchConflicts
<1>5. CASE FleetGone
  BY <1>5 DEF FleetGone
<1>6. CASE PatchFails
  <2>1. CASE Abort /\ UNCHANGED <<fleet, stream, done>>
    BY <1>6, <2>1 DEF PatchFails
  <2>2. CASE Matches(work.obj) /\ Patch(work.obj.name, work.obj)
    <3>1. OperatorWrites
      BY <1>6, <2>2, FirstWrite DEF PatchFails, OperatorWrites, Justified
    <3> QED BY <1>6, <3>1 DEF PatchFails
  <2> QED BY <1>6, <2>1, <2>2 DEF PatchFails
<1>7. CASE Get
  BY <1>7 DEF Get
<1>8. CASE GetFails
  BY <1>8 DEF GetFails
<1>9. CASE Retried
  <2>1. OperatorWrites
    BY <1>9, SecondWrite DEF Retried, OperatorWrites, Justified
  <2> QED BY <1>9, <2>1 DEF Retried
<1>10. CASE RetryFails
  <2>1. CASE UNCHANGED <<fleet, stream, done>>
    BY <1>10, <2>1 DEF RetryFails
  <2>2. CASE Matches(fresh) /\ Patch(fresh.name, fresh)
    <3>1. OperatorWrites
      BY <1>10, <2>2, SecondWrite DEF RetryFails, OperatorWrites, Justified
    <3> QED BY <1>10, <3>1 DEF RetryFails
  <2> QED BY <1>10, <2>1, <2>2 DEF RetryFails
<1> QED BY <1>1, <1>2, <1>3, <1>4, <1>5, <1>6, <1>7, <1>8, <1>9, <1>10 DEF Reconcile

(* Whatever reconcile_object does next adds at most one novel copy.            *)
LEMMA ReconcileStep ==
  ASSUME IInv, Reconcile
  PROVE  Typed' /\ Grows
<1>1. edits' = edits /\ past' = past /\ step # "idle" /\ Typed
  BY ReconcileKinds DEF IInv
<1>2. CASE Settle \/ Defer \/ Abort
  <2>1. CASE fleet' = fleet /\ stream' = stream
    BY <1>1, <1>2, <2>1, QuietEnd
  <2>2. CASE OperatorWrites
    BY <1>1, <1>2, <2>2, OperatorWritten, WritingEnd
  <2> QED BY <2>1, <2>2, ReconcileKinds
<1>3. CASE PatchConflicts
  <2>1. /\ fleet' = fleet /\ stream' = stream /\ todo' = todo /\ listed' = listed
        /\ step' = "get" /\ work' = work
    BY <1>3 DEF PatchConflicts, server
  <2>2. Typed'
    BY <1>1, <2>1 DEF Typed, Exists
  <2>3. Copies' \subseteq Copies
    BY <1>1, <2>1, CopiesParts DEF Served, Exists, Listed, Streamed, Repeatable, Worked, Fetched
  <2> QED BY <2>2, <2>3 DEF Grows
<1>4. CASE Get /\ step' = "retry" /\ fresh' = fleet[work.obj.name] /\ UNCHANGED <<work, todo, listed>>
  <2>1. fleet' = fleet /\ stream' = stream /\ todo' = todo /\ listed' = listed /\ work' = work
    BY <1>4 DEF Get, server
  <2>2. work.obj.name \in Fleets /\ Exists(work.obj.name)
    BY <1>1, <1>4 DEF Get, Typed, Objects, ObjectsOf
  <2>3. fresh' \in Served /\ fresh' \in Objects
    BY <1>1, <1>4, <2>2 DEF Served, Typed, Exists
  <2>4. Typed'
    BY <1>1, <2>1, <2>3 DEF Typed, Exists
  <2>5. /\ Served' = Served /\ Listed' = Listed /\ Streamed' = Streamed
        /\ Repeatable' = Repeatable /\ Worked' \subseteq Worked /\ Fetched' \subseteq Served
    BY <1>1, <1>4, <2>1, <2>3 DEF Served, Exists, Listed, Streamed, Repeatable, Worked, Fetched
  <2>6. Copies' \subseteq Copies
    BY <2>1, <2>5, CopiesParts
  <2> QED BY <2>4, <2>6 DEF Grows
<1> QED BY <1>2, <1>3, <1>4, ReconcileKinds

-----------------------------------------------------------------------------
(* The invariant is one.                                                       *)
LEMMA InvHoldsInitially == Init => IInv
<1> SUFFICES ASSUME Init PROVE IInv
  OBVIOUS
<1>1. PICK present, deleting \in SUBSET Fleets :
        fleet = [n \in Fleets |->
                   IF n \in present
                   THEN [NewFleet(n, 0, CHOOSE v \in Versions : TRUE) EXCEPT !.deleting = n \in deleting]
                   ELSE NoFleet]
  BY DEF Init
<1> DEFINE o(n) == [NewFleet(n, 0, CHOOSE v \in Versions : TRUE) EXCEPT !.deleting = n \in deleting]
<1>2. \A n \in Fleets : o(n) \in Objects /\ o(n).name = n
  <2>1. (CHOOSE v \in Versions : TRUE) \in Versions
    BY VersionsAssumption
  <2>2. ASSUME NEW n \in Fleets, NEW v \in Versions
        PROVE  NewFleet(n, 0, v) \in Objects /\ NewFleet(n, 0, v).name = n
    BY DEF Init, NewFleet, Objects, ObjectsOf, Statuses
  <2>3. ASSUME NEW f \in Objects, NEW b \in BOOLEAN
        PROVE  /\ [f EXCEPT !.deleting = b] \in Objects
               /\ [f EXCEPT !.deleting = b].name = f.name
    BY DEF Objects, ObjectsOf
  <2>4. \A n \in Fleets : (n \in deleting) \in BOOLEAN
    OBVIOUS
  <2> QED BY <2>1, <2>2, <2>3, <2>4
<1>3. \A n \in Fleets : fleet[n] = IF n \in present THEN o(n) ELSE NoFleet
  BY <1>1
<1>4. fleet \in [Fleets -> Objects \cup {NoFleet}]
  BY <1>1, <1>2
<1> HIDE DEF o
<1>5. \A n \in Fleets : Exists(n) => fleet[n].name = n
  BY <1>2, <1>3 DEF Exists
<1>6. Typed
  <2>1. /\ edits = 0 /\ stream = <<>> /\ past = NoEvent /\ todo = {} /\ listed = <<>>
        /\ step = "idle"
    BY DEF Init
  <2> QED BY <1>4, <1>5, <2>1 DEF Typed
<1>7. Copies = Served
  BY CopiesParts DEF Init, Listed, Streamed, Repeatable, Worked, Fetched
<1>8. VersionsIdentify
  BY <1>5, <1>7 DEF VersionsIdentify, Served
<1>9. RetryJustified
  BY DEF Init, RetryJustified
<1> QED BY <1>6, <1>8, <1>9 DEF IInv

(* And so does every step of the system.                                       *)
LEMMA CopyStep ==
  ASSUME IInv, [Next]_vars
  PROVE  Typed' /\ Grows
<1>0. Typed
  BY DEF IInv
<1> USE DEF server
<1>1. CASE List
  <2>1. /\ fleet' = fleet /\ edits' = edits /\ past' = past /\ stream' = <<>> /\ listed' = <<>>
        /\ todo' = Served /\ step = "idle" /\ step' = "idle"
    BY <1>1 DEF List, Served
  <2>2. Typed'
    BY <1>0, <2>1 DEF Typed, Exists, Served
  <2>3. Copies' \subseteq Copies
    BY <2>1, CopiesParts DEF Served, Exists, Listed, Streamed, Repeatable, Worked, Fetched
  <2> QED BY <2>2, <2>3 DEF Grows
<1>2. CASE TakeItem
  <2>1. PICK o \in todo : work' = Delivery("ADDED", o, NoEvent) /\ todo' = todo \ {o}
    BY <1>2 DEF TakeItem
  <2>2. work'.obj = o
    BY <2>1 DEF Delivery
  <2>3. /\ fleet' = fleet /\ edits' = edits /\ past' = past /\ stream' = stream
        /\ listed' = listed /\ step' = "try"
    BY <1>2 DEF TakeItem
  <2>4. Typed'
    BY <1>0, <2>1, <2>2, <2>3 DEF Typed, Exists
  <2>5. Copies' \subseteq Copies
    BY <2>1, <2>2, <2>3, CopiesParts
       DEF Served, Exists, Listed, Streamed, Repeatable, Worked, Fetched
  <2> QED BY <2>4, <2>5 DEF Grows
<1>3. CASE ListSettled \/ ListDeferred
  <2>1. /\ fleet' = fleet /\ edits' = edits /\ past' = past /\ stream' = stream /\ todo' = todo
        /\ listed' = <<>> /\ step' = step /\ step = "idle"
    BY <1>3 DEF ListSettled, ListDeferred
  <2>2. Typed'
    BY <1>0, <2>1 DEF Typed, Exists
  <2>3. Copies' \subseteq Copies
    BY <2>1, CopiesParts DEF Served, Exists, Listed, Streamed, Repeatable, Worked, Fetched
  <2> QED BY <2>2, <2>3 DEF Grows
<1>4. CASE NextEvent \/ OldEvent
  BY <1>0, <1>4, NextEventStep, OldEventStep
<1>5. CASE WatchEnds \/ UNCHANGED vars
  <2>1. /\ fleet' = fleet /\ edits' = edits /\ past' = past /\ stream' = stream /\ todo' = todo
        /\ listed' = listed /\ step' = step /\ work' = work /\ fresh' = fresh
    BY <1>5 DEF WatchEnds, vars, operator
  <2>2. Typed'
    BY <1>0, <2>1 DEF Typed, Exists
  <2>3. Copies' \subseteq Copies
    BY <2>1, CopiesParts DEF Served, Exists, Listed, Streamed, Repeatable, Worked, Fetched
  <2> QED BY <2>2, <2>3 DEF Grows
<1>6. CASE Reconcile
  BY <1>6, ReconcileStep
<1>7. CASE Restart
  <2>1. /\ fleet' = fleet /\ edits' = edits /\ past' = past /\ stream' = stream /\ todo' = {}
        /\ listed' = <<>> /\ step' = "idle"
    BY <1>7 DEF Restart
  <2>2. Typed'
    BY <1>0, <2>1 DEF Typed, Exists
  <2>3. Copies' \subseteq Copies
    BY <2>1, CopiesParts DEF Served, Exists, Listed, Streamed, Repeatable, Worked, Fetched
  <2> QED BY <2>2, <2>3 DEF Grows
<1>8. CASE \E n \in Fleets : Edit(n)
  BY <1>0, <1>8, EditStep
<1> QED BY <1>1, <1>2, <1>3, <1>4, <1>5, <1>6, <1>7, <1>8 DEF Next, Operator

(* What a retry was justified by stays true until it is sent.                  *)
LEMMA RetryStep ==
  ASSUME IInv, [Next]_vars
  PROVE  RetryJustified'
<1>1. CASE Reconcile
  <2>1. CASE Settle \/ Defer \/ Abort
    BY <2>1 DEF Settle, Defer, Abort, Idle, RetryJustified
  <2>2. CASE PatchConflicts
    BY <2>2 DEF PatchConflicts, RetryJustified
  <2>3. CASE Retryable(fresh') /\ UNCHANGED <<work, todo, listed>>
    BY <2>3 DEF Retryable, SameIncarnation, RetryJustified, Planned, Released, Held
  <2> QED BY <1>1, <2>1, <2>2, <2>3, ReconcileKinds
<1>2. CASE NextEvent \/ OldEvent
  <2>1. PICK e : Delivered(e)
    BY <1>2 DEF NextEvent, OldEvent
  <2>2. step = "idle"
    BY <1>2 DEF NextEvent, OldEvent
  <2> QED BY <2>1, <2>2 DEF Delivered, RetryJustified
<1>3. CASE List \/ TakeItem \/ ListSettled \/ ListDeferred \/ WatchEnds \/ Restart
  BY <1>3 DEF List, TakeItem, ListSettled, ListDeferred, WatchEnds, Restart, RetryJustified
<1>4. CASE UNCHANGED vars \/ \E n \in Fleets : Edit(n)
  <2>1. step' = step /\ work' = work /\ fresh' = fresh
    BY <1>4 DEF vars, operator, Edit
  <2> QED BY <2>1 DEF IInv, RetryJustified, Planned, Released, Held
<1> QED BY <1>1, <1>2, <1>3, <1>4 DEF Next, Operator

(* The invariant holds in every reachable state.                               *)
LEMMA Induction == Spec => []IInv
<1>1. IInv /\ [Next]_vars => IInv'
  BY CopyStep, RetryStep, GrowingIdentifies DEF IInv
<1> QED BY InvHoldsInitially, <1>1, PTL DEF Spec

(* No two copies of a fleet, held by the API server, the list, the watch or    *)
(* the reconciliation, carry the same resourceVersion and differ: the code's   *)
(* comparison of resourceVersions is a comparison of objects.                  *)
THEOREM OneStatePerVersion == Spec => []VersionsIdentify
<1>1. IInv => VersionsIdentify
  BY DEF IInv
<1> QED BY Induction, <1>1, PTL

-----------------------------------------------------------------------------
(* What is written, by whom.                                                   *)

(* Whoever writes, it is a fleet that is there, from its own state.            *)
LEMMA WriteKinds ==
  ASSUME IInv, [Next]_vars
  PROVE  \/ fleet' = fleet
         \/ OperatorWrites
         \/ \E n \in Fleets : Edit(n)
<1>1. CASE Reconcile
  BY <1>1, ReconcileKinds
<1>2. CASE \/ List \/ TakeItem \/ ListSettled \/ ListDeferred \/ NextEvent \/ OldEvent \/ WatchEnds
           \/ Restart \/ UNCHANGED vars
  BY <1>2 DEF List, TakeItem, ListSettled, ListDeferred, NextEvent, OldEvent, Delivered, WatchEnds,
              Restart, vars, server
<1> QED BY <1>1, <1>2 DEF Next, Operator

(* An edit that is not a PATCH of the other replica leaves the status and the  *)
(* finalizer of a fleet alone, and removes a fleet only without its finalizer. *)
LEMMA EditKinds ==
  ASSUME Typed, NEW n \in Fleets, Edit(n), NEW m \in Fleets, Exists(m)
  PROVE  \/ m = n /\ Planned(fleet[n]) /\ Patch(n, fleet[n])
         \/ /\ Exists(m)' => /\ fleet'[m].status = fleet[m].status
                             /\ fleet'[m].guarded = fleet[m].guarded
            /\ Exists(m)' \/ ~fleet[m].guarded
<1> DEFINE Kept == /\ Exists(m)' => /\ fleet'[m].status = fleet[m].status
                                    /\ fleet'[m].guarded = fleet[m].guarded
                   /\ Exists(m)' \/ ~fleet[m].guarded
<1>0. fleet[m] \in Objects /\ fleet \in [Fleets -> Objects \cup {NoFleet}]
  BY DEF Typed, Exists
<1>1. ASSUME NEW type, NEW o, Becomes(n, type, o), m # n
      PROVE  Kept
  BY <1>0, <1>1 DEF Becomes, Exists
<1>2. ASSUME m = n, NEW o \in Objects, o.status = fleet[n].status, o.guarded = fleet[n].guarded,
             Becomes(n, "MODIFIED", o)
      PROVE  Kept
  <2> DEFINE new == [o EXCEPT !.rv = NewVersion(n)]
  <2>1. fleet' = [fleet EXCEPT ![n] = new]
    BY <1>2 DEF Becomes
  <2>2. new.status = o.status /\ new.guarded = o.guarded /\ "name" \in DOMAIN new
    BY <1>2 DEF Objects, ObjectsOf
  <2>3. new # NoFleet
    <3>1. DOMAIN NoFleet = {"uid"}
      BY DEF NoFleet
    <3> QED BY <2>2, <3>1
  <2> HIDE DEF new
  <2> QED BY <1>0, <1>2, <2>1, <2>2, <2>3 DEF Exists
<1>3. ASSUME Becomes(n, "MODIFIED", [fleet[n] EXCEPT !.gen = @ + 1])
      PROVE  Kept
  <2> DEFINE o == [fleet[n] EXCEPT !.gen = @ + 1]
  <2>1. m = n => o \in Objects /\ o.status = fleet[n].status /\ o.guarded = fleet[n].guarded
    BY <1>0 DEF Objects, ObjectsOf
  <2>2. Becomes(n, "MODIFIED", o)
    BY <1>3, Zenon
  <2> HIDE DEF o
  <2> QED BY <1>1, <1>2, <2>1, <2>2
<1>4. ASSUME Becomes(n, "MODIFIED", [fleet[n] EXCEPT !.approved = ~@])
      PROVE  Kept
  <2> DEFINE o == [fleet[n] EXCEPT !.approved = ~@]
  <2>1. m = n => o \in Objects /\ o.status = fleet[n].status /\ o.guarded = fleet[n].guarded
    BY <1>0 DEF Objects, ObjectsOf
  <2>2. Becomes(n, "MODIFIED", o)
    BY <1>4, Zenon
  <2> HIDE DEF o
  <2> QED BY <1>1, <1>2, <2>1, <2>2
<1>5. ASSUME Becomes(n, "MODIFIED", [fleet[n] EXCEPT !.deleting = TRUE, !.gen = @ + 1])
      PROVE  Kept
  <2> DEFINE o == [fleet[n] EXCEPT !.deleting = TRUE, !.gen = @ + 1]
  <2>1. m = n => o \in Objects /\ o.status = fleet[n].status /\ o.guarded = fleet[n].guarded
    <3> DEFINE marked == [fleet[n] EXCEPT !.deleting = TRUE]
    <3> SUFFICES ASSUME m = n
                 PROVE  o \in Objects /\ o.status = fleet[n].status /\ o.guarded = fleet[n].guarded
      OBVIOUS
    <3>0. fleet[n] \in Objects
      BY <1>0
    <3>1. /\ marked \in Objects
          /\ marked.status = fleet[n].status /\ marked.guarded = fleet[n].guarded
      BY <3>0 DEF Objects, ObjectsOf
    <3>2. fleet[n].gen + 1 \in Nat
      BY <3>0 DEF Objects, ObjectsOf
    <3>3. o = [marked EXCEPT !.gen = fleet[n].gen + 1]
      OBVIOUS
    <3> HIDE DEF marked, o
    <3> QED BY <3>1, <3>2, <3>3 DEF Objects, ObjectsOf
  <2>2. Becomes(n, "MODIFIED", o)
    BY <1>5, Zenon
  <2> HIDE DEF o
  <2> QED BY <1>1, <1>2, <2>1, <2>2
<1>6. ASSUME Becomes(n, "MODIFIED", [fleet[n] EXCEPT !.held = ~@])
      PROVE  Kept
  <2> DEFINE o == [fleet[n] EXCEPT !.held = ~@]
  <2>1. m = n => o \in Objects /\ o.status = fleet[n].status /\ o.guarded = fleet[n].guarded
    BY <1>0 DEF Objects, ObjectsOf
  <2>2. Becomes(n, "MODIFIED", o)
    BY <1>6, Zenon
  <2> HIDE DEF o
  <2> QED BY <1>1, <1>2, <2>1, <2>2
<1>7. ASSUME Released(fleet[n]), Becomes(n, "DELETED", fleet[n])
      PROVE  Kept
  <2>1. CASE m = n
    BY <1>0, <1>7, <2>1 DEF Becomes, Released, Exists
  <2> QED BY <1>1, <1>7, <2>1
<1>8. ASSUME ~Exists(n), Becomes(n, "ADDED", NewFleet(n, edits + 1, 0))
      PROVE  Kept
  BY <1>1, <1>8
<1>9. ASSUME Planned(fleet[n]), Patch(n, fleet[n]), m # n
      PROVE  Kept
  BY <1>1, <1>9 DEF Patch
<1> HIDE DEF Kept
<1>10. \/ Becomes(n, "MODIFIED", [fleet[n] EXCEPT !.gen = @ + 1])
       \/ Becomes(n, "MODIFIED", [fleet[n] EXCEPT !.approved = ~@])
       \/ Becomes(n, "MODIFIED", [fleet[n] EXCEPT !.deleting = TRUE, !.gen = @ + 1])
       \/ Becomes(n, "MODIFIED", [fleet[n] EXCEPT !.held = ~@])
       \/ Planned(fleet[n]) /\ Patch(n, fleet[n])
       \/ Released(fleet[n]) /\ Becomes(n, "DELETED", fleet[n])
       \/ ~Exists(n) /\ Becomes(n, "ADDED", NewFleet(n, edits + 1, 0))
  BY DEF Edit
<1>11. Kept \/ (m = n /\ Planned(fleet[n]) /\ Patch(n, fleet[n]))
  BY <1>3, <1>4, <1>5, <1>6, <1>7, <1>8, <1>9, <1>10
<1> QED BY <1>11 DEF Kept

(* A planned PATCH writes a true status, and takes the finalizer away only     *)
(* from a fleet that is deleted and not held.                                  *)
LEMMA PatchIsTrue ==
  ASSUME Typed, NEW n \in Fleets, Exists(n), NEW o, fleet[n] = o, Patch(n, o), Planned(o),
         NEW m \in Fleets, Exists(m)
  PROVE  /\ Exists(m)' /\ fleet'[m].status # fleet[m].status
              => m = n /\ ~o.deleting /\ fleet'[m].status = Status(fleet'[m])
         /\ fleet[m].guarded /\ ~(Exists(m)' /\ fleet'[m].guarded)
              => fleet[m].deleting /\ ~fleet[m].held
<1>1. CASE m # n
  BY <1>1, PatchWritten DEF Exists
<1>2. CASE m = n /\ o.deleting
  BY <1>2, PatchWritten DEF Exists, Planned, Held
<1>3. CASE m = n /\ ~o.deleting
  BY <1>3, PatchWritten, NoFleetIsNoObject DEF Exists
<1> QED BY <1>1, <1>2, <1>3

(* The status of a fleet is only ever written on the version it describes; by  *)
(* the operator, on the incarnation and under the approval it began with.      *)
THEOREM StatusIsTrue == Spec => StatusTrue
<1> DEFINE True(n) ==
      Exists(n) /\ Exists(n)' /\ fleet'[n].uid = fleet[n].uid /\ fleet'[n].status # fleet[n].status =>
        /\ fleet'[n].status = Status(fleet'[n])
        /\ edits' = edits => /\ fleet[n].uid = work.obj.uid /\ ~fleet[n].deleting
                             /\ fleet[n].approved = work.obj.approved
<1>1. ASSUME IInv, [Next]_vars, NEW m \in Fleets
      PROVE  True(m)
  <2> SUFFICES ASSUME Exists(m), Exists(m)', fleet'[m].status # fleet[m].status
               PROVE  /\ fleet'[m].status = Status(fleet'[m])
                      /\ edits' = edits => /\ fleet[m].uid = work.obj.uid /\ ~fleet[m].deleting
                                           /\ fleet[m].approved = work.obj.approved
    OBVIOUS
  <2>0. Typed
    BY <1>1 DEF IInv
  <2>1. CASE fleet' = fleet
    BY <2>1
  <2>2. CASE OperatorWrites
    <3>1. PICK o \in Copies : Justified(o)
      BY <2>2 DEF OperatorWrites
    <3>2. m = o.name /\ ~o.deleting /\ fleet'[m].status = Status(fleet'[m]) /\ fleet[m] = o
      BY <2>0, <3>1, PatchIsTrue DEF Justified
    <3> QED BY <3>1, <3>2 DEF Justified
  <2>3. ASSUME NEW n \in Fleets, Edit(n)
        PROVE  fleet'[m].status = Status(fleet'[m]) /\ edits' # edits
    <3>1. edits' # edits
      BY <2>0, <2>3 DEF Edit, Typed
    <3>2. m = n /\ Planned(fleet[n]) /\ Patch(n, fleet[n])
      BY <2>0, <2>3, EditKinds
    <3> QED BY <2>0, <3>1, <3>2, PatchIsTrue
  <2> QED BY <1>1, <2>1, <2>2, <2>3, WriteKinds
<1>2. IInv /\ [Next]_vars => [\A n \in Fleets : True(n)]_vars
  BY <1>1
<1> QED BY Induction, <1>2, PTL DEF Spec, StatusTrue

(* The protective finalizer of a fleet is removed only while the fleet is      *)
(* being deleted and nothing holds it, whatever happens between read and write. *)
THEOREM FinalizerProtects == Spec => ProtectedUntilSafe
<1> DEFINE Safe(n) ==
      Exists(n) /\ fleet[n].guarded /\ ~(Exists(n)' /\ fleet'[n].guarded) =>
        fleet[n].deleting /\ ~fleet[n].held
<1>1. ASSUME IInv, [Next]_vars, NEW m \in Fleets
      PROVE  Safe(m)
  <2> SUFFICES ASSUME Exists(m), fleet[m].guarded, ~(Exists(m)' /\ fleet'[m].guarded)
               PROVE  fleet[m].deleting /\ ~fleet[m].held
    OBVIOUS
  <2>0. Typed
    BY <1>1 DEF IInv
  <2>1. CASE fleet' = fleet
    BY <2>1 DEF Exists
  <2>2. CASE OperatorWrites
    <3>1. PICK o \in Copies : Justified(o)
      BY <2>2 DEF OperatorWrites
    <3> QED BY <2>0, <3>1, PatchIsTrue DEF Justified
  <2>3. ASSUME NEW n \in Fleets, Edit(n)
        PROVE  fleet[m].deleting /\ ~fleet[m].held
    <3>1. m = n /\ Planned(fleet[n]) /\ Patch(n, fleet[n])
      BY <2>0, <2>3, EditKinds
    <3> QED BY <2>0, <3>1, PatchIsTrue
  <2> QED BY <1>1, <2>1, <2>2, <2>3, WriteKinds
<1>2. IInv /\ [Next]_vars => [\A n \in Fleets : Safe(n)]_vars
  BY <1>1
<1> QED BY Induction, <1>2, PTL DEF Spec, ProtectedUntilSafe

-----------------------------------------------------------------------------
(* Recursive functions on an interval of the natural numbers.                  *)

(* A set of numbers has a least one.                                           *)
LEMMA Least ==
  ASSUME NEW T, T \subseteq Nat, T # {}
  PROVE  \E m \in T : \A k \in T : m <= k
<1> DEFINE Less == {p \in Nat \X Nat : p[1] < p[2]}
<1>1. IsWellFoundedOn(Less, Nat)
  BY NatLessThanWellFounded DEF OpToRel
<1>2. PICK m \in T : \A k \in T : <<k, m>> \notin Less
  <2> HIDE DEF Less
  <2> QED BY <1>1, WFMin
<1>3. \A k \in T : k \in Nat /\ m \in Nat /\ ~(k < m)
  BY <1>2
<1> QED BY <1>3

(* What holds at 0, and at the next number whenever it holds at one, holds.    *)
LEMMA StepByStep ==
  ASSUME NEW n \in Nat, NEW T, 0 \in T, \A i \in 0..n : i < n /\ i \in T => i + 1 \in T
  PROVE  \A i \in 0..n : i \in T
<1> DEFINE Out == {i \in 0..n : i \notin T}
<1> SUFFICES ASSUME Out # {} PROVE FALSE
  OBVIOUS
<1>1. Out \subseteq Nat
  OBVIOUS
<1>2. PICK m \in Out : \A k \in Out : m <= k
  <2> HIDE DEF Out
  <2> QED BY <1>1, Least
<1>3. m # 0 /\ m - 1 \in 0..n /\ m - 1 < n
  BY <1>2
<1>4. m - 1 \in T
  BY <1>2, <1>3
<1> QED BY <1>2, <1>3, <1>4

(* The functions on 0..n that begin with base and give each further value from *)
(* the one before it by G: there is one.                                       *)
Steps(n, V) == [(1..n) \X V -> V]
Unrolls(f, n, V, base, G) ==
  f \in [0..n -> V] /\ f[0] = base /\ \A i \in 1..n : f[i] = G[<<i, f[i - 1]>>]

(* One such function exists, so what a recursive definition chooses has its    *)
(* equations.                                                                  *)
LEMMA Recursion ==
  ASSUME NEW n \in Nat, NEW V, NEW base \in V, NEW G \in Steps(n, V)
  PROVE  \E f : Unrolls(f, n, V, base, G)
<1> DEFINE Solves(f, m) == Unrolls(f, m, V, base, G)
           T == {m \in 0..n : \E f : Solves(f, m)}
<1> USE DEF Steps, Unrolls
<1>1. 0 \in T
  <2> DEFINE f == [i \in 0..0 |-> base]
  <2>1. Solves(f, 0)
    OBVIOUS
  <2> HIDE DEF f, Solves
  <2> QED BY <2>1
<1>2. ASSUME NEW m \in 0..n, m < n, m \in T
      PROVE  m + 1 \in T
  <2>1. PICK f : Solves(f, m)
    BY <1>2
  <2> DEFINE g == [i \in 0..(m + 1) |-> IF i = m + 1 THEN G[<<i, f[m]>>] ELSE f[i]]
  <2>2. m + 1 \in 1..n /\ f[m] \in V /\ G[<<m + 1, f[m]>>] \in V
    BY <1>2, <2>1
  <2>3. g \in [0..(m + 1) -> V] /\ g[0] = base
    BY <2>1, <2>2
  <2>4. ASSUME NEW i \in 1..(m + 1)
        PROVE  g[i] = G[<<i, g[i - 1]>>]
    <3>1. CASE i = m + 1
      BY <3>1
    <3>2. CASE i # m + 1
      <4>1. i \in 1..m /\ g[i] = f[i] /\ g[i - 1] = f[i - 1]
        BY <3>2
      <4> QED BY <2>1, <4>1
    <3> QED BY <3>1, <3>2
  <2> HIDE DEF g
  <2>5. Solves(g, m + 1)
    BY <2>3, <2>4
  <2> HIDE DEF Solves
  <2> QED BY <1>2, <2>5
<1>3. n \in T
  <2> HIDE DEF T
  <2> QED BY <1>1, <1>2, StepByStep
<1> QED BY <1>3

-----------------------------------------------------------------------------
(* The watch cache.                                                            *)
Fingerprints == [type : Types \cup {"LIST"}, uid : Fleets \X Nat, gen : Nat, rv : Versions]
Caches == Seq(Fingerprints)

(* Pruning keeps entries of the cache, and only those of the given uids.       *)
LEMMA Pruning ==
  ASSUME NEW cache \in Caches, NEW uids
  PROVE  /\ Keep(cache, uids) \in Caches
         /\ Len(Keep(cache, uids)) <= Len(cache)
         /\ \A j \in DOMAIN Keep(cache, uids) : Keep(cache, uids)[j].uid \in uids
<1> DEFINE n == Len(cache)
           Takes(f) == f = [i \in 0..n |->
             IF i = 0 THEN <<>> ELSE IF cache[i].uid \in uids THEN Append(f[i - 1], cache[i]) ELSE f[i - 1]]
           kept == CHOOSE f : Takes(f)
           G == [p \in (1..n) \X Caches |->
             IF cache[p[1]].uid \in uids THEN Append(p[2], cache[p[1]]) ELSE p[2]]
<1>0. n \in Nat /\ \A i \in 1..n : cache[i] \in Fingerprints
  BY DEF Caches
<1>1. Keep(cache, uids) = kept[n]
  BY DEF Keep
<1>2. Takes(kept)
  <2>1. <<>> \in Caches /\ G \in Steps(n, Caches)
    BY <1>0 DEF Caches, Steps
  <2>2. \A i \in 1..n : \A c \in Caches :
          G[<<i, c>>] = IF cache[i].uid \in uids THEN Append(c, cache[i]) ELSE c
    OBVIOUS
  <2> HIDE DEF G, n
  <2>3. PICK f : Unrolls(f, n, Caches, <<>>, G)
    BY <1>0, <2>1, Recursion
  <2>4. ASSUME NEW i \in 0..n, i # 0
        PROVE  f[i] = IF cache[i].uid \in uids THEN Append(f[i - 1], cache[i]) ELSE f[i - 1]
    <3>1. i \in 1..n /\ f[i - 1] \in Caches
      BY <1>0, <2>3, <2>4 DEF Unrolls
    <3> QED BY <2>2, <2>3, <3>1 DEF Unrolls
  <2>5. Takes(f)
    BY <2>3, <2>4 DEF Unrolls
  <2> HIDE DEF Takes
  <2> QED BY <2>5
<1> HIDE DEF kept
<1>3. \A i \in 0..n : kept[i] = IF i = 0 THEN <<>>
                                ELSE IF cache[i].uid \in uids THEN Append(kept[i - 1], cache[i])
                                ELSE kept[i - 1]
  BY <1>2, Zenon
<1> DEFINE Good(c, i) == c \in Caches /\ Len(c) <= i /\ \A j \in DOMAIN c : c[j].uid \in uids
           T == {i \in 0..n : Good(kept[i], i)}
<1>4. 0 \in T
  <2>1. 0 \in 0..n /\ kept[0] = <<>>
    BY <1>0, <1>3
  <2>2. Good(<<>>, 0)
    BY DEF Caches
  <2> HIDE DEF Good
  <2> QED BY <2>1, <2>2
<1>5. ASSUME NEW i \in 0..n, i < n, i \in T
      PROVE  i + 1 \in T
  <2>1. i + 1 \in 1..n /\ i + 1 \in 0..n /\ i + 1 # 0 /\ (i + 1) - 1 = i /\ Good(kept[i], i)
    BY <1>0, <1>5
  <2>2. kept[i + 1] = IF cache[i + 1].uid \in uids THEN Append(kept[i], cache[i + 1]) ELSE kept[i]
    BY <1>3, <2>1
  <2>3. CASE cache[i + 1].uid \in uids
    <3>1. kept[i + 1] = Append(kept[i], cache[i + 1]) /\ cache[i + 1] \in Fingerprints
      BY <1>0, <2>1, <2>2, <2>3
    <3>2. Good(kept[i + 1], i + 1)
      BY <2>1, <2>3, <3>1, Appended DEF Caches
    <3> QED BY <2>1, <3>2
  <2>4. CASE cache[i + 1].uid \notin uids
    BY <2>1, <2>2, <2>4 DEF Caches
  <2> QED BY <2>3, <2>4
<1>6. n \in T
  <2>1. n \in Nat /\ n \in 0..n
    BY <1>0
  <2> HIDE DEF T, n
  <2>2. \A i \in 0..n : i \in T
    BY <1>4, <1>5, <2>1, StepByStep
  <2> QED BY <2>1, <2>2
<1> QED BY <1>1, <1>6

(* Remembering an entry replaces the one of its uid, or adds it, in the limit. *)
LEMMA Remembering ==
  ASSUME NEW cache \in Caches, Len(cache) <= CacheLimit, NEW entry \in Fingerprints
  PROVE  LET after == Remember(cache, entry)
         IN  /\ after \in Caches /\ Len(after) <= CacheLimit
             /\ \A j \in DOMAIN after :
                  \/ after[j] = entry
                  \/ after[j].uid # entry.uid /\ \E k \in DOMAIN cache : after[j] = cache[k]
<1>0. CacheLimit \in Nat \ {0} /\ cache \in Seq(Fingerprints) /\ Len(cache) \in Nat
  BY LimitAssumption DEF Caches
<1>1. CASE \E i \in DOMAIN cache : cache[i].uid = entry.uid
  <2> DEFINE after == [i \in DOMAIN cache |-> IF cache[i].uid = entry.uid THEN entry ELSE cache[i]]
  <2>1. Remember(cache, entry) = after
    BY <1>1 DEF Remember
  <2>2. after \in Seq(Fingerprints) /\ Len(after) = Len(cache) /\ DOMAIN after = DOMAIN cache
    BY <1>0
  <2> QED BY <2>1, <2>2 DEF Caches
<1>2. CASE ~\E i \in DOMAIN cache : cache[i].uid = entry.uid
  <2> DEFINE rest == IF Len(cache) >= CacheLimit THEN Tail(cache) ELSE cache
  <2>1. Remember(cache, entry) = Append(rest, entry)
    BY <1>2 DEF Remember
  <2>2. /\ rest \in Seq(Fingerprints) /\ Len(rest) + 1 <= CacheLimit
        /\ \A j \in DOMAIN rest : \E k \in DOMAIN cache : rest[j] = cache[k]
    <3>1. CASE Len(cache) >= CacheLimit
      <4>1. cache # <<>> /\ Tail(cache) \in Seq(Fingerprints) /\ Len(Tail(cache)) = Len(cache) - 1
        BY <1>0, <3>1
      <4>2. \A j \in DOMAIN Tail(cache) : j + 1 \in DOMAIN cache /\ Tail(cache)[j] = cache[j + 1]
        BY <1>0, <4>1
      <4> QED BY <1>0, <3>1, <4>1, <4>2
    <3> QED BY <1>0, <3>1
  <2> HIDE DEF rest
  <2>3. /\ Append(rest, entry) \in Seq(Fingerprints) /\ Len(Append(rest, entry)) = Len(rest) + 1
        /\ \A j \in DOMAIN Append(rest, entry) :
             \/ Append(rest, entry)[j] = entry
             \/ j \in DOMAIN rest /\ Append(rest, entry)[j] = rest[j]
    BY <2>2
  <2> QED BY <1>2, <2>1, <2>2, <2>3 DEF Caches
<1> QED BY <1>1, <1>2

(* What the cache says of an object is a fingerprint.                          *)
LEMMA EntryTyped ==
  ASSUME NEW o \in Objects, NEW type \in Types \cup {"LIST"}
  PROVE  /\ Entry(type, o) \in Fingerprints
         /\ Entry(type, o).uid = o.uid /\ Entry(type, o).rv = o.rv
BY DEF Entry, Fingerprints, Objects, ObjectsOf

(* After seeding, an entry is that of a listed object, or is an old one of an  *)
(* object that was not listed.                                                 *)
FromList(c, cache, objects, i) ==
  /\ c \in Caches /\ Len(c) <= CacheLimit
  /\ \A j \in DOMAIN c :
       \/ \E k \in 1..i : c[j] = Entry("LIST", objects[k])
       \/ /\ \E k \in DOMAIN cache : c[j] = cache[k]
          /\ \A k \in 1..i : objects[k].uid # c[j].uid

(* One more listed object: its entry is in the cache, and whatever else is     *)
(* there was there before.                                                     *)
LEMMA SeedingOne ==
  ASSUME NEW cache \in Caches, NEW objects \in Seq(Objects),
         NEW i \in Nat, i < Len(objects), NEW c, FromList(c, cache, objects, i)
  PROVE  FromList(Remember(c, Entry("LIST", objects[i + 1])), cache, objects, i + 1)
<1> DEFINE entry == Entry("LIST", objects[i + 1])
           after == Remember(c, entry)
<1>1. objects[i + 1] \in Objects /\ i + 1 \in 1..(i + 1)
  OBVIOUS
<1>2. entry \in Fingerprints /\ entry.uid = objects[i + 1].uid
  BY <1>1, EntryTyped
<1> HIDE DEF entry
<1>3. /\ after \in Caches /\ Len(after) <= CacheLimit
      /\ \A j \in DOMAIN after :
           \/ after[j] = entry
           \/ after[j].uid # entry.uid /\ \E k \in DOMAIN c : after[j] = c[k]
  BY <1>2, Remembering DEF FromList
<1> HIDE DEF after
<1>4. ASSUME NEW j \in DOMAIN after
      PROVE  \/ \E k \in 1..(i + 1) : after[j] = Entry("LIST", objects[k])
             \/ /\ \E k \in DOMAIN cache : after[j] = cache[k]
                /\ \A k \in 1..(i + 1) : objects[k].uid # after[j].uid
  <2>1. CASE after[j] = entry
    BY <1>1, <2>1 DEF entry
  <2>2. CASE after[j].uid # entry.uid /\ \E k \in DOMAIN c : after[j] = c[k]
    <3>1. PICK k \in DOMAIN c : after[j] = c[k]
      BY <2>2
    <3>2. CASE \E l \in 1..i : c[k] = Entry("LIST", objects[l])
      BY <3>1, <3>2
    <3>3. CASE /\ \E l \in DOMAIN cache : c[k] = cache[l]
               /\ \A l \in 1..i : objects[l].uid # c[k].uid
      <4>1. ASSUME NEW l \in 1..(i + 1)
            PROVE  objects[l].uid # after[j].uid
        <5>1. l \in 1..i \/ l = i + 1
          OBVIOUS
        <5> QED BY <1>2, <2>2, <3>1, <3>3, <5>1
      <4> QED BY <3>1, <3>3, <4>1
    <3> QED BY <3>1, <3>2, <3>3 DEF FromList
  <2> QED BY <1>3, <2>1, <2>2
<1> QED BY <1>3, <1>4 DEF FromList, after, entry

(* Seeding takes the listed objects one after the other.                       *)
LEMMA Seeding ==
  ASSUME NEW cache \in Caches, Len(cache) <= CacheLimit, NEW objects \in Seq(Objects)
  PROVE  FromList(Seeded(cache, objects), cache, objects, Len(objects))
<1> DEFINE n == Len(objects)
           Entries(f) == f = [i \in 0..n |->
             IF i = 0 THEN cache ELSE Remember(f[i - 1], Entry("LIST", objects[i]))]
           after == CHOOSE f : Entries(f)
           Short == {c \in Caches : Len(c) <= CacheLimit}
           G == [p \in (1..n) \X Short |-> Remember(p[2], Entry("LIST", objects[p[1]]))]
<1>0. n \in Nat /\ \A i \in 1..n : Entry("LIST", objects[i]) \in Fingerprints
  <2>1. \A i \in 1..n : objects[i] \in Objects
    OBVIOUS
  <2> QED BY <2>1, EntryTyped
<1>1. Seeded(cache, objects) = after[n]
  BY DEF Seeded
<1>2. Entries(after)
  <2>1. \A i \in 1..n : \A c \in Short : Remember(c, Entry("LIST", objects[i])) \in Short
    BY <1>0, Remembering
  <2>2. cache \in Short /\ G \in Steps(n, Short)
    BY <2>1 DEF Steps
  <2>3. \A i \in 1..n : \A c \in Short : G[<<i, c>>] = Remember(c, Entry("LIST", objects[i]))
    OBVIOUS
  <2> HIDE DEF G, n, Short
  <2>4. PICK f : Unrolls(f, n, Short, cache, G)
    BY <1>0, <2>2, Recursion
  <2>5. ASSUME NEW i \in 0..n, i # 0
        PROVE  f[i] = Remember(f[i - 1], Entry("LIST", objects[i]))
    <3>1. i \in 1..n /\ f[i - 1] \in Short
      BY <1>0, <2>4, <2>5 DEF Unrolls
    <3> QED BY <2>3, <2>4, <3>1 DEF Unrolls
  <2>6. Entries(f)
    BY <2>4, <2>5 DEF Unrolls
  <2> HIDE DEF Entries
  <2> QED BY <2>6
<1> HIDE DEF after
<1>3. \A i \in 0..n : after[i] = IF i = 0 THEN cache
                                 ELSE Remember(after[i - 1], Entry("LIST", objects[i]))
  BY <1>2, Zenon
<1> DEFINE T == {i \in 0..n : FromList(after[i], cache, objects, i)}
<1>4. 0 \in T
  <2>1. 0 \in 0..n /\ after[0] = cache
    BY <1>0, <1>3
  <2>2. FromList(cache, cache, objects, 0)
    BY DEF FromList
  <2> QED BY <2>1, <2>2
<1>5. ASSUME NEW i \in 0..n, i < n, i \in T
      PROVE  i + 1 \in T
  <2>1. i \in Nat /\ i + 1 \in 0..n /\ i + 1 # 0 /\ (i + 1) - 1 = i
    BY <1>0, <1>5
  <2>2. after[i + 1] = Remember(after[i], Entry("LIST", objects[i + 1]))
    BY <1>3, <2>1
  <2>3. FromList(after[i + 1], cache, objects, i + 1)
    BY <1>5, <2>1, <2>2, SeedingOne
  <2> QED BY <2>1, <2>3
<1>6. n \in T
  <2>1. n \in Nat /\ n \in 0..n
    BY <1>0
  <2> HIDE DEF T, n
  <2>2. \A i \in 0..n : i \in T
    BY <1>4, <1>5, <2>1, StepByStep
  <2> QED BY <2>1, <2>2
<1> QED BY <1>1, <1>6

-----------------------------------------------------------------------------
(* Types, with the contents of the watch cache.                                *)
Prior == step # "idle" => work.prior \in Fingerprints \cup {NoEvent}
SeenTyped == seen \in Caches /\ Len(seen) <= CacheLimit
Bounded ==
  /\ edits \in 0..MaxEdits /\ faults \in 0..MaxFaults
  /\ stage \in {"list", "items", "watch"} /\ step \in {"idle", "try", "get", "retry"}
  /\ deferred \in BOOLEAN /\ inventory \in BOOLEAN
DoneTyped == done \subseteq Fleets \X Versions

(* Why nothing is missed.  From the moment a list is taken, the present        *)
(* version of every fleet is in somebody's hands: settled, to come from the    *)
(* stream, in reconciliation, or still on a list - or the list is known to be  *)
(* incomplete, and will not be trusted.                                        *)
Stages ==
  /\ inventory => stage = "watch"
  /\ stage = "list" => step = "idle"
  /\ stage = "watch" => todo = {} /\ listed = <<>>

InHand(o) ==
  \/ Key(o) \in done
  \/ \E i \in DOMAIN stream : stream[i].obj = o
  \/ o \in Worked
  \/ stage = "items" /\ (o \in todo \/ deferred)
NothingLost == stage # "list" => \A n \in Fleets : Exists(n) => InHand(fleet[n])

(* What was listed and reconciled has settled.                                 *)
ListedSettled == stage = "items" => \A o \in Listed : Key(o) \in done

(* The cache never suppresses what is not settled: while the stream is         *)
(* followed, an entry is of a settled version or of the one in reconciliation. *)
(* Before that it holds old versions, all of which seeding will replace.       *)
SeenKey(i) == <<seen[i].uid[1], seen[i].rv>>
SeenSettled ==
  stage = "watch" =>
    \A i \in DOMAIN seen : SeenKey(i) \in done \/ \E o \in Worked : SeenKey(i) = Key(o)
SeenReplaced ==
  stage = "items" =>
    \/ deferred
    \/ \A i \in DOMAIN seen : \E o \in todo \cup Listed \cup Worked : o.uid = seen[i].uid

Trust == Stages /\ NothingLost /\ ListedSettled /\ SeenSettled /\ SeenReplaced
TInv == IInv /\ Bounded /\ DoneTyped /\ SeenTyped /\ Prior /\ Trust

-----------------------------------------------------------------------------
(* What has settled stays so while anybody holds a copy of it.                 *)
DoneKept ==
  /\ \A c \in Copies : Key(c) \in done => Key(c) \in done'
  /\ \A i \in DOMAIN seen : SeenKey(i) \in done => SeenKey(i) \in done'
  /\ DoneTyped'

(* Recording versions as settled loses no settled version that somebody holds. *)
LEMMA SettledKeeps ==
  ASSUME Typed, DoneTyped, SeenTyped, NEW objects \in SUBSET Copies, Settled(objects)
  PROVE  DoneKept /\ \A o \in objects : Key(o) \in done'
<1>1. done' = {k \in done \cup {Key(o) : o \in objects} : k[2] \in InUse(k[1])}
  BY DEF Settled
<1>2. ASSUME NEW c \in Copies
      PROVE  Key(c)[2] \in InUse(Key(c)[1]) /\ Key(c) \in Fleets \X Versions
  <2>1. c \in Objects
    BY CopiesTyped
  <2>2. c.rv \in InUse(c.name)
    BY DEF InUse
  <2> QED BY <2>1, <2>2 DEF Key, Objects, ObjectsOf
<1>3. ASSUME NEW i \in DOMAIN seen
      PROVE  SeenKey(i)[2] \in InUse(SeenKey(i)[1])
  BY DEF InUse, SeenKey
<1>4. DoneTyped'
  BY <1>1, <1>2 DEF DoneTyped
<1>5. /\ \A c \in Copies : Key(c) \in done => Key(c) \in done'
      /\ \A o \in objects : Key(o) \in done'
  BY <1>1, <1>2
<1>6. \A i \in DOMAIN seen : SeenKey(i) \in done => SeenKey(i) \in done'
  BY <1>1, <1>3
<1> QED BY <1>4, <1>5, <1>6 DEF DoneKept

(* Neither does leaving the history alone.                                     *)
LEMMA UnchangedKeeps == DoneTyped /\ done' = done => DoneKept
BY DEF DoneTyped, DoneKept

(* How reconcile_object ends, or goes on, with what becomes of the key.        *)
GoesOn ==
  /\ step # "idle" /\ step' \in {"try", "get", "retry"}
  /\ UNCHANGED <<work, stage, todo, listed, deferred, seen, inventory>>

(* A step of reconcile_object settles the object, puts it off, aborts the      *)
(* cycle or goes on, and what settles is recorded.                             *)
LEMMA ReconcileEnds ==
  ASSUME TInv, Reconcile
  PROVE  /\ step # "idle" /\ DoneKept
         /\ \/ Settle /\ Key(work.obj) \in done'
            \/ Defer
            \/ Abort
            \/ GoesOn
<1>0. Typed /\ DoneTyped /\ SeenTyped
  BY DEF TInv, IInv
<1>w. step # "idle" => work.obj \in Copies
  BY CopiesParts DEF Worked
<1>f. step = "retry" => fresh \in Copies
  BY CopiesParts DEF Fetched
<1>1. CASE NothingToDo
  <2>1. step # "idle" /\ Settle /\ Settled({work.obj})
    BY <1>1 DEF NothingToDo
  <2> QED BY <1>0, <1>w, <2>1, SettledKeeps
<1>2. CASE PutOff \/ PatchConflicts \/ FleetGone \/ GetFails
  <2>1. step # "idle" /\ done' = done /\ (Defer \/ Abort \/ GoesOn)
    BY <1>2 DEF PutOff, PatchConflicts, FleetGone, GetFails, GoesOn
  <2> QED BY <1>0, <2>1, UnchangedKeeps
<1>3. CASE Patched
  <2>1. step # "idle" /\ Settle /\ Settled({work.obj})
    BY <1>3 DEF Patched
  <2> QED BY <1>0, <1>w, <2>1, SettledKeeps
<1>4. CASE PatchFails \/ RetryFails
  <2>1. step # "idle" /\ (Defer \/ Abort) /\ (done' = done \/ Settled({}))
    BY <1>4 DEF PatchFails, RetryFails
  <2> QED BY <1>0, <2>1, SettledKeeps, UnchangedKeeps
<1>5. CASE Get
  <2> DEFINE o == fleet[work.obj.name]
  <2>1. step = "get" /\ Exists(work.obj.name) /\ work.obj.name \in Fleets
    BY <1>0, <1>5 DEF Get, Typed, Objects, ObjectsOf
  <2>2. o \in Copies
    BY <2>1, CopiesParts DEF Served
  <2>3. \/ step' = "retry" /\ UNCHANGED <<work, stage, todo, listed, deferred, seen, inventory, done>>
        \/ Settle /\ Settled({work.obj, o})
        \/ Defer /\ done' = done
    BY <1>5 DEF Get
  <2> HIDE DEF o
  <2>4. CASE step' = "retry" /\ UNCHANGED <<work, stage, todo, listed, deferred, seen, inventory, done>>
    BY <1>0, <2>1, <2>4, UnchangedKeeps DEF GoesOn
  <2>5. CASE Settle /\ Settled({work.obj, o})
    BY <1>0, <1>w, <2>1, <2>2, <2>5, SettledKeeps
  <2>6. CASE Defer /\ done' = done
    BY <1>0, <2>1, <2>6, UnchangedKeeps
  <2> QED BY <2>3, <2>4, <2>5, <2>6
<1>6. CASE Retried
  <2>1. step = "retry" /\ Settle /\ Settled({work.obj, fresh})
    BY <1>6 DEF Retried
  <2> QED BY <1>0, <1>w, <1>f, <2>1, SettledKeeps
<1> QED BY <1>1, <1>2, <1>3, <1>4, <1>5, <1>6 DEF Reconcile

-----------------------------------------------------------------------------
(* A write made while somebody listens becomes an event: a fleet is as it was, *)
(* or its new version is in the stream, behind what was there.                 *)
Published ==
  /\ \A i \in DOMAIN stream : i \in DOMAIN stream' /\ stream'[i] = stream[i]
  /\ \A m \in Fleets : Exists(m)' => \/ Exists(m) /\ fleet'[m] = fleet[m]
                                    \/ \E i \in DOMAIN stream' : stream'[i].obj = fleet'[m]

(* A change of one object is published,                                        *)
LEMMA BecomesPublished ==
  ASSUME Typed, stage # "list", NEW n \in Fleets, NEW type, NEW o, Becomes(n, type, o)
  PROVE  Published
<1> DEFINE new == [o EXCEPT !.rv = NewVersion(n)]
           event == Event(type, new)
<1>1. /\ fleet' = [fleet EXCEPT ![n] = IF type = "DELETED" THEN NoFleet ELSE new]
      /\ stream' = Append(stream, event)
  BY DEF Becomes, Publish
<1>2. event.obj = new
  BY DEF Event
<1> HIDE DEF new, event
<1>3. stream \in Seq(Events) /\ fleet \in [Fleets -> Objects \cup {NoFleet}]
  BY DEF Typed
<1>4. /\ \A i \in DOMAIN stream : i \in DOMAIN stream' /\ stream'[i] = stream[i]
      /\ Len(stream) + 1 \in DOMAIN stream' /\ stream'[Len(stream) + 1] = event
  BY <1>1, <1>3
<1>5. ASSUME NEW m \in Fleets, Exists(m)'
      PROVE  fleet'[m] = fleet[m] \/ fleet'[m] = new
  BY <1>1, <1>3, <1>5 DEF Exists
<1> QED BY <1>2, <1>4, <1>5 DEF Published, Exists

(* so is each write of reconcile_object,                                       *)
LEMMA PatchPublished ==
  ASSUME Typed, stage # "list", NEW n \in Fleets, NEW o, Patch(n, o)
  PROVE  Published
<1>1. \E type, p : Becomes(n, type, p)
  BY DEF Patch
<1> QED BY <1>1, BecomesPublished

(* and each of the users and the other replica.                                *)
LEMMA EditPublished ==
  ASSUME Typed, stage # "list", NEW n \in Fleets, Edit(n)
  PROVE  Published
<1>1. \/ \E type, p : Becomes(n, type, p)
      \/ Patch(n, fleet[n])
  BY DEF Edit
<1> QED BY <1>1, BecomesPublished, PatchPublished

(* Without a write there is nothing to publish.                                *)
LEMMA QuietPublished == fleet' = fleet /\ stream' = stream => Published
BY DEF Published, Exists

(* So every step of reconcile_object publishes what it changes.                *)
LEMMA ReconcilePublished ==
  ASSUME TInv, Reconcile, stage # "list"
  PROVE  Published
<1>1. CASE fleet' = fleet /\ stream' = stream
  BY <1>1, QuietPublished
<1>2. CASE OperatorWrites
  BY <1>2, PatchPublished DEF OperatorWrites, Justified, TInv, IInv
<1> QED BY <1>1, <1>2, ReconcileKinds DEF TInv

(* A fleet that was in hand stays in hand, if the work in progress settles,    *)
(* goes on or leaves the list incomplete, and nothing is dropped from a list.  *)
HandsOver ==
  /\ \A o \in Worked : \/ o \in Worked'
                       \/ Key(o) \in done'
                       \/ stage' = "items" /\ deferred'
  /\ stage = "items" => \/ stage' = "items" /\ todo \subseteq todo' \cup Worked'
                                          /\ (deferred => deferred')
                        \/ todo = {} /\ ~deferred

(* If the work in hand is handed over, and what is written is published, then  *)
(* nothing is lost.                                                            *)
LEMMA StaysInHand ==
  ASSUME TInv, DoneKept, Published, HandsOver, stage # "list"
  PROVE  \A n \in Fleets : Exists(n)' => InHand(fleet[n])'
<1> SUFFICES ASSUME NEW n \in Fleets, Exists(n)'
             PROVE  InHand(fleet[n])'
  OBVIOUS
<1>1. CASE \E i \in DOMAIN stream' : stream'[i].obj = fleet'[n]
  BY <1>1 DEF InHand
<1>2. CASE Exists(n) /\ fleet'[n] = fleet[n]
  <2>1. InHand(fleet[n]) /\ fleet[n] \in Copies
    BY <1>2, CopiesParts DEF TInv, Trust, NothingLost, Served
  <2>2. CASE Key(fleet[n]) \in done
    <3>1. Key(fleet[n]) \in done'
      BY <2>1, <2>2 DEF DoneKept
    <3> QED BY <1>2, <3>1 DEF InHand, Key
  <2>3. CASE \E i \in DOMAIN stream : stream[i].obj = fleet[n]
    BY <1>2, <2>3 DEF Published, InHand
  <2>4. CASE fleet[n] \in Worked
    BY <1>2, <2>4 DEF HandsOver, InHand, Key
  <2>5. CASE stage = "items" /\ (fleet[n] \in todo \/ deferred)
    BY <1>2, <2>5 DEF HandsOver, InHand
  <2> QED BY <2>1, <2>2, <2>3, <2>4, <2>5 DEF InHand
<1> QED BY <1>1, <1>2 DEF Published

-----------------------------------------------------------------------------
(* Each step keeps the invariant.                                              *)
LEMMA AtListing ==
  ASSUME stage' = "list", step' = "idle", inventory' = FALSE
  PROVE  Trust'
BY DEF Trust, Stages, NothingLost, ListedSettled, SeenSettled, SeenReplaced

(* Reconciling an object keeps the trust,                                      *)
LEMMA ReconcileTrust ==
  ASSUME TInv, Reconcile
  PROVE  Trust'
<1>0. /\ Typed /\ Trust /\ DoneKept /\ step # "idle"
      /\ stage \in {"items", "watch"} /\ stage # "list"
  BY ReconcileEnds DEF TInv, IInv, Bounded, Trust, Stages
<1>1. Published
  BY <1>0, ReconcilePublished
<1>2. Worked = {work.obj} /\ work.obj \in Copies
  BY <1>0, CopiesParts DEF Worked
<1>3. CASE Settle /\ Key(work.obj) \in done'
  <2>1. /\ step' = "idle" /\ UNCHANGED <<stage, todo, deferred, seen, inventory>>
        /\ listed' = IF stage = "items" THEN Append(listed, work.obj) ELSE listed
    BY <1>3 DEF Settle, Idle
  <2>2. Worked' = {}
    BY <2>1 DEF Worked
  <2>3. stage = "items" => Listed' = Listed \cup Worked
    <3> SUFFICES ASSUME stage = "items" PROVE Listed' = Listed \cup {work.obj}
      BY <1>2
    <3>1. listed \in Seq(Objects) /\ listed' = Append(listed, work.obj)
      BY <1>0, <2>1 DEF Typed
    <3>2. /\ DOMAIN listed' = DOMAIN listed \cup {Len(listed) + 1}
          /\ listed'[Len(listed) + 1] = work.obj
          /\ \A i \in DOMAIN listed : listed'[i] = listed[i]
      BY <3>1
    <3> HIDE DEF Listed
    <3>3. \A o : o \in Listed' <=> o \in Listed \/ o = work.obj
      BY <3>2 DEF Listed
    <3> QED BY <3>3
  <2>4. Stages'
    BY <1>0, <2>1 DEF Trust, Stages
  <2>5. NothingLost'
    <3>1. HandsOver
      BY <1>0, <1>2, <1>3, <2>1 DEF HandsOver
    <3> QED BY <1>0, <1>1, <3>1, StaysInHand DEF NothingLost
  <2>6. ListedSettled'
    <3>1. \A o \in Listed : o \in Copies
      BY CopiesParts
    <3>2. stage = "items" => \A o \in Listed' : Key(o) \in done'
      BY <1>0, <1>2, <1>3, <2>3, <3>1 DEF Trust, ListedSettled, DoneKept
    <3> QED BY <2>1, <3>2 DEF ListedSettled, Key
  <2>7. SeenSettled'
    <3>1. stage = "watch" => \A i \in DOMAIN seen : SeenKey(i) \in done'
      BY <1>0, <1>2, <1>3 DEF Trust, SeenSettled, DoneKept
    <3> QED BY <2>1, <3>1 DEF SeenSettled, SeenKey
  <2>8. SeenReplaced'
    BY <1>0, <2>1, <2>2, <2>3 DEF Trust, SeenReplaced
  <2> QED BY <2>4, <2>5, <2>6, <2>7, <2>8 DEF Trust
<1>4. CASE Defer /\ stage = "items"
  <2>1. /\ step' = "idle" /\ deferred' = TRUE
        /\ UNCHANGED <<stage, todo, listed, seen, inventory>>
    BY <1>4 DEF Defer, Idle
  <2>2. Stages' /\ SeenReplaced' /\ SeenSettled'
    BY <1>0, <1>4, <2>1 DEF Trust, Stages, SeenReplaced, SeenSettled
  <2>3. NothingLost'
    BY <1>4, <2>1 DEF NothingLost, InHand
  <2>4. ListedSettled'
    <3>1. \A o \in Listed : o \in Copies
      BY CopiesParts
    <3>2. \A o \in Listed : Key(o) \in done'
      BY <1>0, <1>4, <3>1 DEF Trust, ListedSettled, DoneKept
    <3> QED BY <2>1, <3>2 DEF ListedSettled, Listed, Key
  <2> QED BY <2>2, <2>3, <2>4 DEF Trust
<1>5. CASE Abort \/ (Defer /\ stage # "items")
  BY <1>5, AtListing DEF Abort, Defer, Relist, Idle
<1>6. CASE GoesOn
  <2>1. UNCHANGED <<work, stage, todo, listed, deferred, seen, inventory>> /\ step' # "idle"
    BY <1>6 DEF GoesOn
  <2>2. Worked' = Worked /\ Listed' = Listed
    BY <1>0, <2>1 DEF Worked, Listed
  <2>3. Stages'
    BY <1>0, <2>1 DEF Trust, Stages
  <2>4. NothingLost'
    <3>1. HandsOver
      BY <1>0, <2>1, <2>2 DEF HandsOver
    <3> QED BY <1>0, <1>1, <3>1, StaysInHand DEF NothingLost
  <2>5. ListedSettled'
    <3>1. \A o \in Listed : o \in Copies
      BY CopiesParts
    <3> QED BY <1>0, <2>1, <2>2, <3>1 DEF Trust, ListedSettled, DoneKept, Key
  <2>6. SeenSettled'
    BY <1>0, <2>1, <2>2 DEF Trust, SeenSettled, DoneKept, SeenKey, Key
  <2>7. SeenReplaced'
    BY <1>0, <2>1, <2>2 DEF Trust, SeenReplaced
  <2> QED BY <2>3, <2>4, <2>5, <2>6, <2>7 DEF Trust
<1> QED BY <1>3, <1>4, <1>5, <1>6, ReconcileEnds

(* A list puts every fleet on it, and keeps what the cache says of those.      *)
LEMMA ListTrust ==
  ASSUME TInv, List
  PROVE  Trust'
<1>1. /\ stage' = "items" /\ step' = "idle" /\ todo' = Served /\ listed' = <<>>
      /\ deferred' = FALSE /\ inventory' = FALSE /\ fleet' = fleet
      /\ seen' = Keep(seen, {o.uid : o \in todo'})
  BY DEF List, Served, server
<1>2. Stages' /\ ListedSettled' /\ SeenSettled'
  BY <1>1 DEF Stages, ListedSettled, SeenSettled, Listed
<1>3. NothingLost'
  BY <1>1 DEF NothingLost, InHand, Served, Exists
<1>4. \A j \in DOMAIN seen' : seen'[j].uid \in {o.uid : o \in todo'}
  BY <1>1, Pruning DEF TInv, SeenTyped
<1>5. SeenReplaced'
  BY <1>4 DEF SeenReplaced
<1> QED BY <1>2, <1>3, <1>5 DEF Trust

(* so does taking the next object of the list,                                 *)
LEMMA TakeItemTrust ==
  ASSUME TInv, TakeItem
  PROVE  Trust'
<1>1. PICK o \in todo : work' = Delivery("ADDED", o, NoEvent) /\ todo' = todo \ {o}
  BY DEF TakeItem
<1>2. /\ work'.obj = o /\ stage = "items" /\ step = "idle" /\ step' = "try"
      /\ UNCHANGED <<fleet, stream, stage, listed, deferred, seen, inventory, done>>
  BY <1>1 DEF TakeItem, Delivery, server
<1>3. Worked = {} /\ Worked' = {o} /\ Listed' = Listed
  BY <1>2 DEF Worked, Listed
<1>4. Stages' /\ ListedSettled' /\ SeenSettled'
  BY <1>2, <1>3 DEF TInv, Trust, Stages, ListedSettled, SeenSettled, Key
<1>5. NothingLost'
  <2>1. HandsOver
    BY <1>1, <1>2, <1>3 DEF HandsOver
  <2>2. DoneKept /\ Published /\ stage # "list"
    BY <1>2, UnchangedKeeps, QuietPublished DEF TInv
  <2> QED BY <2>1, <2>2, StaysInHand DEF NothingLost
<1>6. SeenReplaced'
  <2>1. deferred \/ \A i \in DOMAIN seen : \E p \in todo \cup Listed \cup Worked : p.uid = seen[i].uid
    BY <1>2 DEF TInv, Trust, SeenReplaced
  <2>2. todo \cup Listed \cup Worked = todo' \cup Listed' \cup Worked'
    BY <1>1, <1>3
  <2> QED BY <1>2, <2>1, <2>2 DEF SeenReplaced
<1> QED BY <1>4, <1>5, <1>6 DEF Trust

(* The barrier: a complete list has settled, and seeding leaves nothing else   *)
(* in the cache.                                                               *)
LEMMA ListSettledTrust ==
  ASSUME TInv, ListSettled
  PROVE  Trust'
<1>1. /\ stage = "items" /\ step = "idle" /\ todo = {} /\ ~deferred
      /\ stage' = "watch" /\ inventory' = TRUE /\ seen' = Seeded(seen, listed) /\ listed' = <<>>
      /\ UNCHANGED <<fleet, stream, step, todo, deferred, work, done>>
  BY DEF ListSettled, Complete, server
<1>2. Worked = {} /\ Worked' = {}
  BY <1>1 DEF Worked
<1>3. Stages' /\ ListedSettled' /\ SeenReplaced'
  BY <1>1 DEF Stages, ListedSettled, SeenReplaced
<1>4. NothingLost'
  <2>1. HandsOver
    BY <1>1, <1>2 DEF HandsOver
  <2>2. DoneKept /\ Published /\ stage # "list"
    BY <1>1, UnchangedKeeps, QuietPublished DEF TInv
  <2> QED BY <2>1, <2>2, StaysInHand DEF NothingLost
<1>5. ASSUME NEW j \in DOMAIN seen'
      PROVE  SeenKey(j)' \in done'
  <2>1. FromList(seen', seen, listed, Len(listed)) /\ listed \in Seq(Objects)
    BY <1>1, Seeding DEF TInv, IInv, Typed, SeenTyped
  <2>2. CASE \E k \in 1..Len(listed) : seen'[j] = Entry("LIST", listed[k])
    <3>1. PICK k \in 1..Len(listed) : seen'[j] = Entry("LIST", listed[k])
      BY <2>2
    <3>2. listed[k] \in Objects /\ listed[k] \in Listed
      BY <2>1 DEF Listed
    <3>3. seen'[j].uid = listed[k].uid /\ seen'[j].rv = listed[k].rv
      BY <3>1, <3>2, EntryTyped
    <3>4. listed[k].uid[1] = listed[k].name
      BY <3>2 DEF Objects, ObjectsOf
    <3>5. Key(listed[k]) \in done
      BY <1>1, <3>2 DEF TInv, Trust, ListedSettled
    <3> QED BY <1>1, <3>3, <3>4, <3>5 DEF SeenKey, Key
  <2>3. CASE /\ \E i \in DOMAIN seen : seen'[j] = seen[i]
             /\ \A k \in 1..Len(listed) : listed[k].uid # seen'[j].uid
    <3>1. PICK i \in DOMAIN seen : seen'[j] = seen[i]
      BY <2>3
    <3>2. PICK o \in Listed : o.uid = seen[i].uid
      BY <1>1, <1>2 DEF TInv, Trust, SeenReplaced
    <3>3. PICK k \in DOMAIN listed : o = listed[k]
      BY <3>2 DEF Listed
    <3>4. k \in 1..Len(listed)
      BY <2>1, <3>3
    <3> QED BY <2>3, <3>1, <3>2, <3>3, <3>4
  <2> QED BY <2>1, <2>2, <2>3 DEF FromList
<1>6. SeenSettled'
  BY <1>5 DEF SeenSettled
<1> QED BY <1>3, <1>4, <1>6 DEF Trust

(* The watch delivers an event: it is settled already, ends the watch, or is   *)
(* reconciled, and then the cache says so.                                     *)
LEMMA DeliveredTrust ==
  ASSUME TInv, NEW e \in Events, Delivered(e), stage = "watch", step = "idle",
         \A i \in DOMAIN stream : \/ stream[i] = e
                                  \/ \E k \in DOMAIN stream' : stream'[k] = stream[i]
  PROVE  Trust'
<1>0. Worked = {} /\ e.obj \in Objects /\ e.type \in Types
  BY DEF Worked, Events
<1>1. UNCHANGED <<fleet, todo, listed, deferred, done>>
  BY DEF Delivered
<1>2. e.obj.uid[1] = e.obj.name
  BY <1>0 DEF Objects, ObjectsOf
<1>3. ASSUME Key(e.obj) \in done' \/ e.obj \in Worked', stage' = "watch"
      PROVE  NothingLost'
  <2> SUFFICES ASSUME NEW n \in Fleets, Exists(n)
               PROVE  InHand(fleet[n])'
    BY <1>1 DEF NothingLost, Exists
  <2>1. \/ Key(fleet[n]) \in done
        \/ \E i \in DOMAIN stream : stream[i].obj = fleet[n]
    BY <1>0 DEF TInv, Trust, NothingLost, InHand
  <2>2. \/ Key(fleet[n]) \in done
        \/ e.obj = fleet[n]
        \/ \E k \in DOMAIN stream' : stream'[k].obj = fleet[n]
    BY <2>1
  <2> QED BY <1>1, <1>3, <2>2 DEF InHand, Key
<1>4. CASE Repeats(e) /\ UNCHANGED <<stage, step, work, seen, inventory>>
  <2>1. PICK i \in Known(e.obj.uid) : seen[i].rv = e.obj.rv
    BY <1>4 DEF Repeats
  <2>2. i \in DOMAIN seen /\ SeenKey(i) = Key(e.obj)
    BY <1>2, <2>1 DEF Known, SeenKey, Key
  <2>3. Key(e.obj) \in done
    BY <1>0, <2>2 DEF TInv, Trust, SeenSettled
  <2>4. NothingLost'
    BY <1>1, <1>3, <1>4, <2>3
  <2>5. Worked' = Worked
    BY <1>4 DEF Worked
  <2>6. Stages' /\ ListedSettled' /\ SeenReplaced'
    BY <1>1, <1>4 DEF TInv, Trust, Stages, ListedSettled, SeenReplaced
  <2>7. SeenSettled'
    BY <1>1, <1>4, <2>5 DEF TInv, Trust, SeenSettled, SeenKey, Key
  <2> QED BY <2>4, <2>6, <2>7 DEF Trust
<1>5. CASE Outdated(e) /\ Relist /\ UNCHANGED <<step, work, seen>>
  BY <1>5, AtListing DEF Relist
<1>6. CASE /\ \E prior : work' = Delivery(e.type, e.obj, prior)
           /\ seen' = Remember(seen, Entry(e.type, e.obj))
           /\ step' = "try"
           /\ UNCHANGED <<stage, inventory>>
  <2> DEFINE entry == Entry(e.type, e.obj)
  <2>1. Worked' = {e.obj}
    BY <1>6 DEF Worked, Delivery
  <2>2. NothingLost'
    BY <1>3, <1>6, <2>1
  <2>3. Stages' /\ ListedSettled' /\ SeenReplaced'
    BY <1>1, <1>6 DEF TInv, Trust, Stages, ListedSettled, SeenReplaced
  <2>4. entry \in Fingerprints /\ entry.uid = e.obj.uid /\ entry.rv = e.obj.rv
    BY <1>0, EntryTyped
  <2> HIDE DEF entry
  <2>5. \A j \in DOMAIN seen' : \/ seen'[j] = entry
                                \/ \E k \in DOMAIN seen : seen'[j] = seen[k]
    BY <1>6, <2>4, Remembering DEF TInv, SeenTyped, entry
  <2>6. ASSUME NEW j \in DOMAIN seen'
        PROVE  SeenKey(j)' \in done' \/ SeenKey(j)' = Key(e.obj)
    <3>1. CASE seen'[j] = entry
      BY <1>2, <2>4, <3>1 DEF SeenKey, Key
    <3>2. CASE \E k \in DOMAIN seen : seen'[j] = seen[k]
      <4>1. PICK k \in DOMAIN seen : seen'[j] = seen[k]
        BY <3>2
      <4>2. SeenKey(k) \in done
        BY <1>0 DEF TInv, Trust, SeenSettled
      <4> QED BY <1>1, <4>1, <4>2 DEF SeenKey
    <3> QED BY <2>5, <3>1, <3>2
  <2>7. SeenSettled'
    BY <2>1, <2>6 DEF SeenSettled, Key
  <2> QED BY <2>2, <2>3, <2>7 DEF Trust
<1> QED BY <1>4, <1>5, <1>6 DEF Delivered

(* an event of the watch, new or repeated,                                     *)
LEMMA WatchTrust ==
  ASSUME TInv, NextEvent \/ OldEvent
  PROVE  Trust'
<1>0. stream \in Seq(Events) /\ past \in Events \cup {NoEvent}
  BY DEF TInv, IInv, Typed
<1>1. CASE NextEvent
  <2>1. /\ stage = "watch" /\ step = "idle" /\ stream # <<>>
        /\ Delivered(Head(stream)) /\ stream' = Tail(stream)
    BY <1>1 DEF NextEvent
  <2>2. ASSUME NEW i \in DOMAIN stream
        PROVE  stream[i] = Head(stream) \/ \E k \in DOMAIN stream' : stream'[k] = stream[i]
    <3>1. CASE i = 1
      BY <1>0, <2>1, <3>1
    <3>2. CASE i # 1
      <4>1. i - 1 \in DOMAIN stream' /\ stream'[i - 1] = stream[i]
        BY <1>0, <2>1, <3>2
      <4> QED BY <4>1
    <3> QED BY <3>1, <3>2
  <2>3. Head(stream) \in Events
    BY <1>0, <2>1
  <2> QED BY <2>1, <2>2, <2>3, DeliveredTrust
<1>2. CASE OldEvent
  <2>1. /\ stage = "watch" /\ step = "idle" /\ past \in Events
        /\ Delivered(past) /\ stream' = stream
    BY <1>0, <1>2 DEF OldEvent
  <2> QED BY <2>1, DeliveredTrust
<1> QED BY <1>1, <1>2

(* and a write of somebody else.                                               *)
LEMMA EditTrust ==
  ASSUME TInv, NEW n \in Fleets, Edit(n)
  PROVE  Trust'
<1>1. /\ UNCHANGED <<stage, step, todo, listed, deferred, work, seen, inventory>>
      /\ Settled({})
  BY DEF Edit
<1>2. DoneKept /\ Worked' = Worked /\ Listed' = Listed
  BY <1>1, SettledKeeps DEF TInv, IInv, Worked, Listed
<1>3. Stages' /\ SeenReplaced'
  BY <1>1, <1>2 DEF TInv, Trust, Stages, SeenReplaced
<1>4. NothingLost'
  <2>1. CASE stage = "list"
    BY <1>1, <2>1 DEF NothingLost
  <2>2. CASE stage # "list"
    <3>1. HandsOver
      BY <1>1, <1>2, <2>2 DEF HandsOver, TInv, Bounded
    <3>2. Published
      BY <2>2, EditPublished DEF TInv, IInv
    <3> QED BY <1>2, <2>2, <3>1, <3>2, StaysInHand DEF NothingLost
  <2> QED BY <2>1, <2>2
<1>5. ListedSettled'
  <2>1. \A o \in Listed : o \in Copies
    BY CopiesParts
  <2> QED BY <1>1, <1>2, <2>1 DEF TInv, Trust, ListedSettled, DoneKept, Key
<1>6. SeenSettled'
  BY <1>1, <1>2 DEF TInv, Trust, SeenSettled, DoneKept, SeenKey, Key
<1> QED BY <1>3, <1>4, <1>5, <1>6 DEF Trust

(* Every step keeps the trust.                                                 *)
LEMMA TrustStep ==
  ASSUME TInv, [Next]_vars
  PROVE  Trust'
<1>1. CASE ListDeferred \/ WatchEnds \/ Restart
  BY <1>1, AtListing DEF ListDeferred, WatchEnds, Restart, Relist
<1>2. CASE UNCHANGED vars
  <2>1. UNCHANGED <<fleet, stream, stage, step, todo, listed, deferred, work, seen, inventory, done>>
    BY <1>2 DEF vars, server, operator
  <2>2. Worked' = Worked /\ Listed' = Listed
    BY <2>1 DEF Worked, Listed
  <2>3. Stages' /\ ListedSettled' /\ SeenReplaced'
    BY <2>1, <2>2 DEF TInv, Trust, Stages, ListedSettled, SeenReplaced, Key
  <2>4. SeenSettled'
    BY <2>1, <2>2 DEF TInv, Trust, SeenSettled, SeenKey, Key
  <2>5. NothingLost'
    BY <2>1, <2>2 DEF TInv, Trust, NothingLost, InHand, Exists, Key
  <2> QED BY <2>3, <2>4, <2>5 DEF Trust
<1> QED BY <1>1, <1>2, ListTrust, TakeItemTrust, ListSettledTrust, WatchTrust, ReconcileTrust, EditTrust
        DEF Next, Operator

-----------------------------------------------------------------------------
(* The cache stays within its limit, and a remembered entry can be put back.   *)
LEMMA RestoredTyped ==
  ASSUME TInv, step # "idle"
  PROVE  Restored \in Caches /\ Len(Restored) <= CacheLimit
<1>1. seen \in Caches /\ Len(seen) <= CacheLimit /\ work.prior \in Fingerprints \cup {NoEvent}
  BY DEF TInv, SeenTyped, Prior
<1>2. CASE work.prior = NoEvent
  <2> DEFINE uids == {seen[i].uid : i \in DOMAIN seen} \ {work.obj.uid}
  <2>1. Restored = Keep(seen, uids)
    BY <1>2 DEF Restored
  <2> HIDE DEF uids
  <2>2. Keep(seen, uids) \in Caches /\ Len(Keep(seen, uids)) <= Len(seen)
    BY <1>1, Pruning
  <2>3. Len(Keep(seen, uids)) \in Nat /\ Len(seen) \in Nat /\ CacheLimit \in Nat
    BY <1>1, <2>2, LimitAssumption DEF Caches
  <2> QED BY <1>1, <2>1, <2>2, <2>3
<1>3. CASE work.prior # NoEvent
  <2>1. Restored = Remember(seen, work.prior) /\ work.prior \in Fingerprints
    BY <1>1, <1>3 DEF Restored
  <2> QED BY <1>1, <2>1, Remembering
<1> QED BY <1>2, <1>3

(* Every step keeps the type of the watch cache, its limit, and the            *)
(* fingerprint put aside for a delivery.                                       *)
LEMMA SeenStep ==
  ASSUME TInv, [Next]_vars
  PROVE  SeenTyped' /\ Prior'
<1>0. /\ seen \in Caches /\ Len(seen) <= CacheLimit /\ Len(seen) \in Nat
      /\ CacheLimit \in Nat \ {0} /\ Typed
  BY LimitAssumption DEF TInv, IInv, SeenTyped, Caches
<1>1. CASE List
  <2> DEFINE uids == {o.uid : o \in todo'}
  <2>1. seen' = Keep(seen, uids) /\ step' = "idle"
    BY <1>1 DEF List
  <2> HIDE DEF uids
  <2>2. seen' \in Caches /\ Len(seen') <= Len(seen) /\ Len(seen') \in Nat
    BY <1>0, <2>1, Pruning DEF Caches
  <2> QED BY <1>0, <2>1, <2>2 DEF SeenTyped, Prior
<1>2. CASE TakeItem
  BY <1>2 DEF TakeItem, Delivery, TInv, SeenTyped, Prior
<1>3. CASE ListSettled
  <2>1. seen' = Seeded(seen, listed) /\ step' = "idle" /\ listed \in Seq(Objects)
    BY <1>0, <1>3 DEF ListSettled, Typed
  <2> QED BY <1>0, <2>1, Seeding DEF FromList, SeenTyped, Prior
<1>4. CASE ListDeferred \/ WatchEnds \/ UNCHANGED vars \/ \E n \in Fleets : Edit(n)
  <2>1. seen' = seen /\ step' = step /\ work' = work
    BY <1>4 DEF ListDeferred, WatchEnds, vars, operator, Edit
  <2> QED BY <2>1 DEF TInv, SeenTyped, Prior
<1>5. CASE NextEvent \/ OldEvent
  <2>1. PICK e \in Events : Delivered(e) /\ step = "idle"
    <3>1. CASE NextEvent
      <4>1. Head(stream) \in Events /\ Delivered(Head(stream)) /\ step = "idle"
        BY <1>0, <3>1 DEF NextEvent, Typed
      <4> QED BY <4>1
    <3>2. CASE OldEvent
      BY <1>0, <3>2 DEF OldEvent, Typed
    <3> QED BY <1>5, <3>1, <3>2
  <2>2. CASE step' = step /\ seen' = seen
    BY <1>0, <2>1, <2>2 DEF SeenTyped, Prior
  <2>3. CASE /\ seen' = Remember(seen, Entry(e.type, e.obj))
             /\ \E prior \in {NoEvent} \cup {seen[i] : i \in DOMAIN seen} :
                  work' = Delivery(e.type, e.obj, prior)
    <3>1. Entry(e.type, e.obj) \in Fingerprints
      BY EntryTyped DEF Events
    <3>2. \A i \in DOMAIN seen : seen[i] \in Fingerprints
      BY <1>0 DEF Caches
    <3>3. work'.prior \in Fingerprints \cup {NoEvent}
      BY <2>3, <3>2 DEF Delivery
    <3> QED BY <1>0, <2>3, <3>1, <3>3, Remembering DEF SeenTyped, Prior
  <2> QED BY <2>1, <2>2, <2>3 DEF Delivered
<1>6. CASE Reconcile
  <2>1. step # "idle" /\ (Settle \/ Defer \/ Abort \/ GoesOn)
    BY <1>6, ReconcileEnds
  <2>2. CASE Settle \/ Defer \/ Abort
    <3>1. step' = "idle" /\ seen' \in {seen, Restored}
      BY <2>2 DEF Settle, Defer, Abort, Idle
    <3> QED BY <1>0, <2>1, <3>1, RestoredTyped DEF SeenTyped, Prior
  <2>3. CASE GoesOn
    BY <2>3 DEF GoesOn, TInv, SeenTyped, Prior
  <2> QED BY <2>1, <2>2, <2>3
<1>7. CASE Restart
  <2>1. seen' = <<>> /\ step' = "idle"
    BY <1>7 DEF Restart
  <2>2. <<>> \in Caches /\ Len(<<>>) = 0
    BY DEF Caches
  <2> QED BY <1>0, <2>1, <2>2 DEF SeenTyped, Prior
<1> QED BY <1>1, <1>2, <1>3, <1>4, <1>5, <1>6, <1>7 DEF Next, Operator

(* Counters, places and flags.                                                 *)
LEMMA BoundedStep ==
  ASSUME TInv, [Next]_vars
  PROVE  Bounded'
<1>0. Bounded /\ MaxEdits \in Nat /\ MaxFaults \in Nat
  BY BoundAssumption DEF TInv
<1>1. edits' \in 0..MaxEdits
  <2>1. edits' = edits \/ (edits < MaxEdits /\ edits' = edits + 1)
    BY ReconcileKinds DEF TInv, Next, Operator, List, TakeItem, ListSettled, ListDeferred, NextEvent,
       OldEvent, Delivered, WatchEnds, Restart, Edit, vars, server
  <2> QED BY <1>0, <2>1 DEF Bounded
<1>2. faults' \in 0..MaxFaults
  <2>1. faults' = faults \/ (faults < MaxFaults /\ faults' = faults + 1)
    <3>1. CASE Reconcile
      BY <3>1 DEF Reconcile, NothingToDo, PutOff, Patched, PatchConflicts, FleetGone, PatchFails, Get,
         GetFails, Retried, RetryFails, Fault, NoFault, server
    <3>2. CASE ~Reconcile
      BY <3>2 DEF Next, Operator, List, TakeItem, ListSettled, ListDeferred, NextEvent, OldEvent,
         WatchEnds, Restart, Edit, vars, server, Fault, NoFault
    <3> QED BY <3>1, <3>2
  <2> QED BY <1>0, <2>1 DEF Bounded
<1>3. /\ stage' \in {"list", "items", "watch"} /\ step' \in {"idle", "try", "get", "retry"}
      /\ deferred' \in BOOLEAN /\ inventory' \in BOOLEAN
  <2>1. CASE Reconcile
    <3>1. Settle \/ Defer \/ Abort \/ GoesOn
      BY <2>1, ReconcileEnds
    <3> QED BY <1>0, <3>1 DEF Bounded, Settle, Defer, Abort, Relist, Idle, GoesOn
  <2>2. CASE NextEvent \/ OldEvent
    <3>1. \E e : Delivered(e)
      BY <2>2 DEF NextEvent, OldEvent
    <3> QED BY <1>0, <3>1 DEF Bounded, Delivered, Relist
  <2>3. CASE ~Reconcile /\ ~NextEvent /\ ~OldEvent
    <3>1. CASE List \/ TakeItem \/ ListSettled
      BY <1>0, <3>1 DEF Bounded, List, TakeItem, ListSettled
    <3>2. CASE ListDeferred \/ WatchEnds \/ Restart
      BY <1>0, <3>2 DEF Bounded, ListDeferred, WatchEnds, Restart, Relist
    <3>3. CASE UNCHANGED vars \/ \E n \in Fleets : Edit(n)
      <4>1. UNCHANGED <<stage, step, deferred, inventory>>
        BY <3>3 DEF Edit, vars, operator
      <4> QED BY <1>0, <4>1 DEF Bounded
    <3> QED BY <2>3, <3>1, <3>2, <3>3 DEF Next, Operator
  <2> QED BY <2>1, <2>2, <2>3
<1> QED BY <1>1, <1>2, <1>3 DEF Bounded

(* Every step keeps the type of the history.                                   *)
LEMMA DoneStep ==
  ASSUME TInv, [Next]_vars
  PROVE  DoneTyped'
<1>1. CASE Reconcile
  BY <1>1, ReconcileEnds DEF DoneKept
<1>2. CASE \E n \in Fleets : Edit(n)
  <2>1. Settled({})
    BY <1>2 DEF Edit
  <2> QED BY <2>1, SettledKeeps DEF TInv, IInv, DoneKept
<1>3. CASE ~Reconcile /\ ~\E n \in Fleets : Edit(n)
  <2>1. done' = done
    BY <1>3 DEF Next, Operator, List, TakeItem, ListSettled, ListDeferred, NextEvent, OldEvent,
       Delivered, WatchEnds, Restart, vars, operator
  <2> QED BY <2>1 DEF TInv, DoneTyped
<1> QED BY <1>1, <1>2, <1>3

-----------------------------------------------------------------------------
(* The invariant is one.                                                       *)
LEMMA TrustInitially == Init => TInv
<1> SUFFICES ASSUME Init PROVE TInv
  OBVIOUS
<1>1. IInv
  BY InvHoldsInitially
<1>2. Bounded /\ DoneTyped /\ Prior
  <2>1. /\ edits = 0 /\ faults = 0 /\ stage = "list" /\ step = "idle" /\ deferred = FALSE
        /\ inventory = FALSE /\ done = {}
    BY DEF Init
  <2>2. edits \in 0..MaxEdits /\ faults \in 0..MaxFaults
    BY <2>1, BoundAssumption
  <2>3. Bounded
    BY <2>1, <2>2 DEF Bounded
  <2> QED BY <2>1, <2>3 DEF DoneTyped, Prior
<1>3. SeenTyped
  <2>1. seen = <<>> /\ <<>> \in Caches /\ Len(<<>>) = 0 /\ CacheLimit \in Nat
    BY LimitAssumption DEF Init, Caches
  <2> QED BY <2>1 DEF SeenTyped
<1>4. Trust
  BY DEF Init, Trust, Stages, NothingLost, ListedSettled, SeenSettled, SeenReplaced
<1> QED BY <1>1, <1>2, <1>3, <1>4 DEF TInv

(* The invariant holds in every behaviour.                                     *)
LEMMA TrustInduction == Spec => []TInv
<1>1. TInv /\ [Next]_vars => TInv'
  <2> SUFFICES ASSUME TInv, [Next]_vars PROVE TInv'
    OBVIOUS
  <2>1. IInv'
    BY CopyStep, RetryStep, GrowingIdentifies DEF TInv, IInv
  <2> QED BY <2>1, BoundedStep, DoneStep, SeenStep, TrustStep DEF TInv
<1> QED BY TrustInitially, <1>1, PTL DEF Spec

(* Objects, copies and history keep their types, and the watch cache stays     *)
(* within its limit, for any limit.                                            *)
THEOREM TypeCorrect == Spec => []TypeOK
<1>1. TInv => TypeOK
  <2> SUFFICES ASSUME TInv PROVE TypeOK
    OBVIOUS
  <2>1. ASSUME NEW o \in Objects
        PROVE  Version(o)
    BY DEF Version, Objects, ObjectsOf
  <2>2. \A n \in Fleets : Exists(n) => fleet[n] \in Objects /\ fleet[n].name = n
    BY DEF TInv, IInv, Typed, Exists
  <2>3. Copies \subseteq Objects
    BY CopiesTyped DEF TInv, IInv
  <2> QED BY <2>1, <2>2, <2>3 DEF TInv, Bounded, DoneTyped, SeenTyped, TypeOK
<1> QED BY TrustInduction, <1>1, PTL

(* While the inventory counts as fresh, the present version of every fleet has *)
(* settled, is being reconciled, or is still to come from the watch, whatever  *)
(* was deferred, repeated, outdated or evicted from the cache.                 *)
THEOREM NothingMissed == Spec => []TrustedMissesNothing
<1>1. TInv => TrustedMissesNothing
  <2> SUFFICES ASSUME TInv, inventory, NEW n \in Fleets, Exists(n)
               PROVE  \/ Key(fleet[n]) \in done
                      \/ \E i \in DOMAIN stream : stream[i].obj = fleet[n]
                      \/ step # "idle" /\ work.obj = fleet[n]
    BY DEF TrustedMissesNothing
  <2>1. stage = "watch"
    BY DEF TInv, Trust, Stages
  <2>2. InHand(fleet[n])
    BY <2>1 DEF TInv, Trust, NothingLost
  <2> QED BY <2>1, <2>2 DEF InHand, Worked
<1> QED BY TrustInduction, <1>1, PTL
===============================================================================
