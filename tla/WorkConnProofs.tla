--------------------------- MODULE WorkConnProofs ---------------------------
(***************************************************************************)
(* What WorkConn guarantees for any number of sessions, names, external    *)
(* and work connections, whatever fails: its type invariant, that a work   *)
(* connection is handed out once, and that requests and their answers do   *)
(* not outnumber the handlers that asked.                                  *)
(***************************************************************************)
EXTENDS WorkConn, SumTheorems

Holds(q, e) == \E i \in DOMAIN q : q[i] = e
NoRepeat(q) == \A i, j \in DOMAIN q : i # j => q[i] # q[j]

(* Who is in a queue of accepted connections is there once and waits to be *)
(* taken out of it.                                                        *)
PendingSound ==
    \A s \in Sessions :
        /\ NoRepeat(pending[s])
        /\ \A e : Holds(pending[s], e) => ext[e].st = "pending" /\ ext[e].via = s

(* Who is in a queue of waiters is there once, under the name it asked     *)
(* for, and has nothing.                                                   *)
WaitersSound ==
    \A n \in Names :
        /\ NoRepeat(waiters[n])
        /\ \A e : Holds(waiters[n], e) =>
            ext[e].st = "wait" /\ ext[e].work = None /\ NameOf[ext[e].via] = n

(* An external connection that is there came through a proxy; it has a     *)
(* work connection only after it has waited, and that one is nobody else's.*)
ExtSound ==
    /\ \A e \in Exts :
        /\ ext[e].st # "out" => ext[e].via \in Sessions
        /\ ext[e].st \notin {"wait", "joined"} => ext[e].work = None
        /\ ext[e].work # None => work[ext[e].work].st = "given"
    /\ \A e, f \in Exts : e # f /\ ext[e].work # None => ext[e].work # ext[f].work

(* A work connection that is there says which proxy it is for.             *)
WorkSound == \A w \in Works : work[w].st # "none" => work[w].name \in Names

IInv == TypeOK /\ PendingSound /\ WaitersSound /\ ExtSound /\ WorkSound

ExtType == [st : ExtStates, via : Sessions \cup {None}, work : Works \cup {None}]
WorkType == [st : {"none", "dial", "sent", "given"}, from : Sessions \cup {None},
             name : Names \cup {None}]

-----------------------------------------------------------------------------
(* Queues. *)

LEMMA TailFacts ==
    ASSUME NEW S, NEW q \in Seq(S), q # <<>>, NoRepeat(q)
    PROVE  /\ Tail(q) \in Seq(S) /\ Len(Tail(q)) = Len(q) - 1 /\ NoRepeat(Tail(q))
           /\ Head(q) \in S /\ Holds(q, Head(q))
           /\ \A e : Holds(Tail(q), e) <=> Holds(q, e) /\ e # Head(q)
<1>1. /\ Len(q) \in Nat /\ Len(q) > 0 /\ Head(q) = q[1] /\ Head(q) \in S
      /\ Tail(q) \in Seq(S) /\ Len(Tail(q)) = Len(q) - 1
      /\ \A i \in 1..(Len(q) - 1) : Tail(q)[i] = q[i + 1]
      /\ DOMAIN q = 1..Len(q) /\ DOMAIN Tail(q) = 1..(Len(q) - 1)
  OBVIOUS
<1>2. NoRepeat(Tail(q))
  <2> SUFFICES ASSUME NEW i \in 1..(Len(q) - 1), NEW j \in 1..(Len(q) - 1), i # j
               PROVE  Tail(q)[i] # Tail(q)[j]
    BY <1>1 DEF NoRepeat
  <2>1. i + 1 \in DOMAIN q /\ j + 1 \in DOMAIN q /\ i + 1 # j + 1
    BY <1>1
  <2> QED
    BY <1>1, <2>1 DEF NoRepeat
<1>3. Holds(q, Head(q))
  BY <1>1 DEF Holds
<1>4. ASSUME NEW e, Holds(Tail(q), e) PROVE Holds(q, e) /\ e # Head(q)
  <2>1. PICK i \in 1..(Len(q) - 1) : Tail(q)[i] = e
    BY <1>1, <1>4 DEF Holds
  <2>2. i + 1 \in DOMAIN q /\ 1 \in DOMAIN q /\ i + 1 # 1 /\ q[i + 1] = e
    BY <1>1, <2>1
  <2> QED
    BY <1>1, <2>2 DEF Holds, NoRepeat
<1>5. ASSUME NEW e, Holds(q, e), e # Head(q) PROVE Holds(Tail(q), e)
  <2>1. PICK i \in 1..Len(q) : q[i] = e
    BY <1>1, <1>5 DEF Holds
  <2>2. i - 1 \in 1..(Len(q) - 1) /\ Tail(q)[i - 1] = e
    BY <1>1, <1>5, <2>1
  <2> QED
    BY <1>1, <2>2 DEF Holds
<1> QED
  BY <1>1, <1>2, <1>3, <1>4, <1>5

LEMMA AppendFacts ==
    ASSUME NEW S, NEW q \in Seq(S), NEW e \in S, ~Holds(q, e), NoRepeat(q)
    PROVE  /\ Append(q, e) \in Seq(S) /\ Len(Append(q, e)) = Len(q) + 1
           /\ NoRepeat(Append(q, e))
           /\ \A f : Holds(Append(q, e), f) <=> Holds(q, f) \/ f = e
<1>1. /\ Len(q) \in Nat /\ DOMAIN q = 1..Len(q)
      /\ Append(q, e) \in Seq(S) /\ Len(Append(q, e)) = Len(q) + 1
      /\ DOMAIN Append(q, e) = 1..(Len(q) + 1)
      /\ \A i \in 1..Len(q) : Append(q, e)[i] = q[i]
      /\ Append(q, e)[Len(q) + 1] = e
  OBVIOUS
<1>2. NoRepeat(Append(q, e))
  BY <1>1 DEF NoRepeat, Holds
<1>3. ASSUME NEW f PROVE Holds(Append(q, e), f) <=> Holds(q, f) \/ f = e
  BY <1>1 DEF Holds
<1> QED
  BY <1>1, <1>2, <1>3

-----------------------------------------------------------------------------
LEMMA InitIInv == Init => IInv
<1> SUFFICES ASSUME Init PROVE IInv
  OBVIOUS
<1>1. TypeOK
  BY QueueAssumption DEF Init, TypeOK, Outside, NoWork, ExtStates
<1>2. PendingSound /\ WaitersSound
  BY DEF Init, PendingSound, WaitersSound, NoRepeat, Holds
<1>3. ExtSound /\ WorkSound
  BY DEF Init, ExtSound, WorkSound, Outside, NoWork
<1> QED
  BY <1>1, <1>2, <1>3 DEF IInv

(* A connection that is in no queue and has no work connection may move on *)
(* to any state but joined, or leave.                                      *)
LEMMA MovesKeep ==
    ASSUME IInv, NEW e \in Exts, NEW new \in ExtType,
           ext[e].st \notin {"pending", "wait", "joined"},
           new.st # "out" => new.via \in Sessions, new.work = None,
           ext' = [ext EXCEPT ![e] = new]
    PROVE  /\ ext' \in [Exts -> ExtType]
           /\ \A s \in Sessions : ~Holds(pending[s], e)
           /\ \A n \in Names : ~Holds(waiters[n], e)
           /\ UNCHANGED pending => PendingSound'
           /\ UNCHANGED waiters => WaitersSound'
           /\ UNCHANGED work => ExtSound'
<1>1. ext \in [Exts -> ExtType] /\ ext' \in [Exts -> ExtType]
  BY DEF IInv, TypeOK, ExtType
<1>2. \A s \in Sessions : ~Holds(pending[s], e)
  BY DEF IInv, PendingSound
<1>3. \A n \in Names : ~Holds(waiters[n], e)
  BY DEF IInv, WaitersSound
<1>4. UNCHANGED pending => PendingSound'
  BY <1>1, <1>2 DEF IInv, PendingSound
<1>5. UNCHANGED waiters => WaitersSound'
  BY <1>1, <1>3 DEF IInv, WaitersSound
<1>6. UNCHANGED work => ExtSound'
  BY <1>1 DEF IInv, ExtSound
<1> QED
  BY <1>1, <1>2, <1>3, <1>4, <1>5, <1>6

LEMMA ConnectKeeps ==
    ASSUME IInv, NEW s \in Sessions, Connect(s)
    PROVE  IInv'
<1>1. TypeOK'
  BY DEF IInv, TypeOK, Connect
<1>2. PendingSound' /\ WaitersSound' /\ ExtSound' /\ WorkSound'
  BY DEF IInv, PendingSound, WaitersSound, ExtSound, WorkSound, Connect
<1> QED
  BY <1>1, <1>2 DEF IInv

LEMMA AcceptKeeps ==
    ASSUME IInv, NEW e \in Exts, NEW s \in Sessions, Accept(e, s)
    PROVE  IInv'
<1> DEFINE new == [st |-> "sniffed", via |-> s, work |-> None]
<1>1. /\ ext[e].st = "out" /\ ext' = [ext EXCEPT ![e] = new]
      /\ UNCHANGED <<phase, taking, pending, asks, work, waiters, stray>>
  BY DEF Accept
<1>2. new \in ExtType /\ new.st = "sniffed" /\ new.via = s /\ new.work = None
  BY DEF ExtType, ExtStates
<1> HIDE DEF new
<1>3. ext' \in [Exts -> ExtType] /\ PendingSound' /\ WaitersSound' /\ ExtSound'
  BY <1>1, <1>2, MovesKeep
<1>4. TypeOK' /\ WorkSound'
  BY <1>1, <1>3 DEF IInv, TypeOK, WorkSound, ExtType
<1> QED
  BY <1>3, <1>4 DEF IInv

LEMMA EnqueueKeeps ==
    ASSUME IInv, NEW e \in Exts, Enqueue(e)
    PROVE  IInv'
<1> DEFINE s == ext[e].via
           new == [ext[e] EXCEPT !.st = "pending"]
<1>1. /\ ext[e].st = "sniffed" /\ Len(pending[s]) < QueueCap
      /\ pending' = [pending EXCEPT ![s] = Append(pending[s], e)]
      /\ ext' = [ext EXCEPT ![e].st = "pending"]
      /\ UNCHANGED <<phase, taking, asks, work, waiters, stray>>
  BY DEF Enqueue
<1>2. ext \in [Exts -> ExtType] /\ s \in Sessions /\ ext[e].work = None
  BY <1>1 DEF IInv, TypeOK, ExtSound, ExtType
<1>3. /\ new \in ExtType /\ new.st = "pending" /\ new.via = s /\ new.work = None
      /\ ext' = [ext EXCEPT ![e] = new]
  BY <1>1, <1>2 DEF ExtType, ExtStates
<1> HIDE DEF s, new
<1>4. /\ ext' \in [Exts -> ExtType] /\ \A t \in Sessions : ~Holds(pending[t], e)
      /\ WaitersSound' /\ ExtSound'
  BY <1>1, <1>2, <1>3, MovesKeep
<1>5. pending[s] \in Seq(Exts) /\ NoRepeat(pending[s])
  BY <1>2 DEF IInv, TypeOK, PendingSound
<1>6. /\ Append(pending[s], e) \in Seq(Exts) /\ NoRepeat(Append(pending[s], e))
      /\ Len(Append(pending[s], e)) = Len(pending[s]) + 1
      /\ \A f : Holds(Append(pending[s], e), f) <=> Holds(pending[s], f) \/ f = e
  BY <1>2, <1>4, <1>5, AppendFacts
<1>7. PendingSound'
  BY <1>1, <1>2, <1>3, <1>4, <1>6 DEF IInv, TypeOK, PendingSound
<1>8. Len(pending[s]) + 1 <= QueueCap
  BY <1>1, <1>5, QueueAssumption
<1>9. TypeOK' /\ WorkSound'
  BY <1>1, <1>2, <1>4, <1>6, <1>8 DEF IInv, TypeOK, WorkSound, ExtType
<1> QED
  BY <1>4, <1>7, <1>9 DEF IInv

LEMMA DropKeeps ==
    ASSUME IInv, NEW e \in Exts, Drop(e)
    PROVE  IInv'
<1>1. /\ ext[e].st = "sniffed" /\ ext' = [ext EXCEPT ![e] = Outside]
      /\ UNCHANGED <<phase, taking, pending, asks, work, waiters, stray>>
  BY DEF Drop
<1>2. Outside \in ExtType /\ Outside.st = "out" /\ Outside.work = None
  BY DEF Outside, ExtType, ExtStates
<1>3. ext' \in [Exts -> ExtType] /\ PendingSound' /\ WaitersSound' /\ ExtSound'
  BY <1>1, <1>2, MovesKeep
<1>4. TypeOK' /\ WorkSound'
  BY <1>1, <1>3 DEF IInv, TypeOK, WorkSound, ExtType
<1> QED
  BY <1>3, <1>4 DEF IInv

LEMMA TakePendingKeeps ==
    ASSUME IInv, NEW s \in Sessions, TakePending(s)
    PROVE  IInv'
<1> DEFINE e == Head(pending[s])
           new == [ext[e] EXCEPT !.st = "ask"]
<1>1. /\ pending[s] # <<>> /\ pending' = [pending EXCEPT ![s] = Tail(pending[s])]
      /\ ext' = [ext EXCEPT ![e].st = "ask"]
      /\ UNCHANGED <<phase, taking, asks, work, waiters, stray>>
  BY DEF TakePending
<1>2. pending[s] \in Seq(Exts) /\ NoRepeat(pending[s]) /\ Len(pending[s]) <= QueueCap
  BY DEF IInv, TypeOK, PendingSound
<1>3. /\ Tail(pending[s]) \in Seq(Exts) /\ Len(Tail(pending[s])) = Len(pending[s]) - 1
      /\ NoRepeat(Tail(pending[s])) /\ e \in Exts /\ Holds(pending[s], e)
      /\ \A f : Holds(Tail(pending[s]), f) <=> Holds(pending[s], f) /\ f # e
  BY <1>1, <1>2, TailFacts
<1>4. ext \in [Exts -> ExtType] /\ ext[e].st = "pending" /\ ext[e].via = s /\ ext[e].work = None
  BY <1>3 DEF IInv, TypeOK, PendingSound, ExtSound, ExtType
<1>5. /\ new \in ExtType /\ new.st = "ask" /\ new.via = s /\ new.work = None
      /\ ext' = [ext EXCEPT ![e] = new]
  BY <1>1, <1>3, <1>4 DEF ExtType, ExtStates
<1> HIDE DEF e, new
<1>6. \A t \in Sessions : t # s => ~Holds(pending[t], e)
  BY <1>4 DEF IInv, PendingSound
<1>7. \A n \in Names : ~Holds(waiters[n], e)
  BY <1>4 DEF IInv, WaitersSound
<1>8. PendingSound'
  BY <1>1, <1>3, <1>4, <1>5, <1>6 DEF IInv, TypeOK, PendingSound
<1>9. WaitersSound'
  BY <1>1, <1>4, <1>5, <1>7 DEF IInv, WaitersSound
<1>10. ExtSound' /\ WorkSound'
  BY <1>1, <1>3, <1>4, <1>5 DEF IInv, ExtSound, WorkSound
<1>11. Len(Tail(pending[s])) <= QueueCap
  BY <1>2, <1>3, QueueAssumption
<1>12. TypeOK'
  <2>1. ext' \in [Exts -> ExtType]
    BY <1>3, <1>4, <1>5
  <2>2. pending' \in [Sessions -> Seq(Exts)] /\ \A t \in Sessions : Len(pending'[t]) <= QueueCap
    BY <1>1, <1>3, <1>11 DEF IInv, TypeOK
  <2> QED
    BY <1>1, <2>1, <2>2 DEF IInv, TypeOK, ExtType
<1> QED
  BY <1>8, <1>9, <1>10, <1>12 DEF IInv

LEMMA EndTakingKeeps ==
    ASSUME IInv, NEW s \in Sessions, EndTaking(s)
    PROVE  IInv'
<1>1. TypeOK'
  BY DEF IInv, TypeOK, EndTaking
<1>2. PendingSound' /\ WaitersSound' /\ ExtSound' /\ WorkSound'
  BY DEF IInv, PendingSound, WaitersSound, ExtSound, WorkSound, EndTaking
<1> QED
  BY <1>1, <1>2 DEF IInv

LEMMA RequestWorkConnKeeps ==
    ASSUME IInv, NEW e \in Exts, RequestWorkConn(e)
    PROVE  IInv'
<1> DEFINE s == ext[e].via
<1>1. ext \in [Exts -> ExtType] /\ s \in Sessions /\ ext[e].work = None /\ ext[e].st = "ask"
  BY DEF IInv, TypeOK, ExtSound, ExtType, RequestWorkConn
<1>2. UNCHANGED <<phase, taking, pending, work, waiters, stray>>
  BY DEF RequestWorkConn
<1>3. PICK new \in ExtType :
        /\ new.st # "out" => new.via \in Sessions
        /\ new.work = None
        /\ ext' = [ext EXCEPT ![e] = new]
        /\ asks' \in [Sessions -> Nat]
  <2> DEFINE going == [ext[e] EXCEPT !.st = "register"]
  <2>1. going \in ExtType /\ going.via = s /\ going.work = None
    BY <1>1 DEF ExtType, ExtStates
  <2>2. Outside \in ExtType /\ Outside.st = "out" /\ Outside.work = None
    BY DEF Outside, ExtType, ExtStates
  <2>3. CASE Connected(s)
    <3>1. ext' = [ext EXCEPT ![e] = going] /\ asks' = [asks EXCEPT ![s] = @ + 1]
      BY <1>1, <2>3 DEF RequestWorkConn
    <3>2. asks' \in [Sessions -> Nat]
      BY <1>1, <3>1 DEF IInv, TypeOK
    <3> HIDE DEF going
    <3> QED
      BY <1>1, <2>1, <3>1, <3>2
  <2>4. CASE ~Connected(s)
    <3>1. ext' = [ext EXCEPT ![e] = Outside] /\ asks' = asks
      BY <2>4 DEF RequestWorkConn
    <3> QED
      BY <2>2, <3>1 DEF IInv, TypeOK
  <2> QED
    BY <2>3, <2>4
<1>4. ext' \in [Exts -> ExtType] /\ PendingSound' /\ WaitersSound' /\ ExtSound'
  BY <1>1, <1>2, <1>3, MovesKeep
<1>5. TypeOK' /\ WorkSound'
  BY <1>2, <1>3, <1>4 DEF IInv, TypeOK, WorkSound, ExtType
<1> QED
  BY <1>4, <1>5 DEF IInv

LEMMA WaitWorkConnKeeps ==
    ASSUME IInv, NEW e \in Exts, WaitWorkConn(e)
    PROVE  IInv'
<1> DEFINE n == NameOf[ext[e].via]
           new == [ext[e] EXCEPT !.st = "wait"]
<1>1. /\ ext[e].st = "register" /\ waiters' = [waiters EXCEPT ![n] = Append(waiters[n], e)]
      /\ ext' = [ext EXCEPT ![e].st = "wait"]
      /\ UNCHANGED <<phase, taking, pending, asks, work, stray>>
  BY DEF WaitWorkConn
<1>2. /\ ext \in [Exts -> ExtType] /\ ext[e].via \in Sessions /\ ext[e].work = None
      /\ n \in Names
  BY <1>1, NameAssumption DEF IInv, TypeOK, ExtSound, ExtType
<1>3. /\ new \in ExtType /\ new.st = "wait" /\ new.via = ext[e].via /\ new.work = None
      /\ ext' = [ext EXCEPT ![e] = new]
  BY <1>1, <1>2 DEF ExtType, ExtStates
<1>4. NameOf[new.via] = n
  BY <1>3
<1> HIDE DEF n, new
<1>5. /\ ext' \in [Exts -> ExtType] /\ \A m \in Names : ~Holds(waiters[m], e)
      /\ PendingSound' /\ ExtSound'
  BY <1>1, <1>2, <1>3, MovesKeep
<1>6. waiters[n] \in Seq(Exts) /\ NoRepeat(waiters[n])
  BY <1>2 DEF IInv, TypeOK, WaitersSound
<1>7. /\ Append(waiters[n], e) \in Seq(Exts) /\ NoRepeat(Append(waiters[n], e))
      /\ \A f : Holds(Append(waiters[n], e), f) <=> Holds(waiters[n], f) \/ f = e
  BY <1>2, <1>5, <1>6, AppendFacts
<1>8. WaitersSound'
  BY <1>1, <1>2, <1>3, <1>4, <1>5, <1>7 DEF IInv, TypeOK, WaitersSound
<1>9. TypeOK' /\ WorkSound'
  BY <1>1, <1>2, <1>5, <1>7 DEF IInv, TypeOK, WorkSound, ExtType
<1> QED
  BY <1>5, <1>8, <1>9 DEF IInv

LEMMA StartJoinKeeps ==
    ASSUME IInv, NEW e \in Exts, StartJoin(e)
    PROVE  IInv'
<1> DEFINE new == [ext[e] EXCEPT !.st = "joined"]
<1>1. /\ ext[e].st = "wait" /\ ext[e].work # None
      /\ ext' = [ext EXCEPT ![e].st = "joined"]
      /\ UNCHANGED <<phase, taking, pending, asks, work, waiters, stray>>
  BY DEF StartJoin
<1>2. ext \in [Exts -> ExtType]
  BY DEF IInv, TypeOK, ExtType
<1>3. /\ new \in ExtType /\ new.st = "joined" /\ new.via = ext[e].via
      /\ new.work = ext[e].work /\ ext' = [ext EXCEPT ![e] = new]
  BY <1>1, <1>2 DEF ExtType, ExtStates
<1> HIDE DEF new
<1>4. PendingSound' /\ WaitersSound'
  BY <1>1, <1>2, <1>3 DEF IInv, PendingSound, WaitersSound
<1>5. ExtSound' /\ WorkSound'
  BY <1>1, <1>2, <1>3 DEF IInv, ExtSound, WorkSound
<1>6. TypeOK'
  <2>1. ext' \in [Exts -> ExtType]
    BY <1>2, <1>3
  <2> QED
    BY <1>1, <2>1 DEF IInv, TypeOK, ExtType
<1> QED
  BY <1>4, <1>5, <1>6 DEF IInv

LEMMA EndJoinKeeps ==
    ASSUME IInv, NEW e \in Exts, EndJoin(e)
    PROVE  IInv'
<1>1. /\ ext[e].st = "joined" /\ work' = [work EXCEPT ![ext[e].work] = NoWork]
      /\ ext' = [ext EXCEPT ![e] = Outside]
      /\ UNCHANGED <<phase, taking, pending, asks, waiters, stray>>
  BY DEF EndJoin
<1>2. ext \in [Exts -> ExtType] /\ work \in [Works -> WorkType]
  BY DEF IInv, TypeOK, ExtType, WorkType
<1>3. Outside \in ExtType /\ Outside.st = "out" /\ Outside.work = None
  BY DEF Outside, ExtType, ExtStates
<1>4. NoWork \in WorkType /\ NoWork.st = "none"
  BY DEF NoWork, WorkType
<1>5. PendingSound' /\ WaitersSound'
  BY <1>1, <1>2, <1>3 DEF IInv, PendingSound, WaitersSound
<1>6. \A f \in Exts : f # e /\ ext[f].work # None => ext[f].work # ext[e].work
  BY DEF IInv, ExtSound
<1>7. ExtSound' /\ WorkSound'
  BY <1>1, <1>2, <1>3, <1>4, <1>6 DEF IInv, ExtSound, WorkSound, ExtType
<1>8. TypeOK'
  BY <1>1, <1>2, <1>3, <1>4 DEF IInv, TypeOK, ExtType, WorkType
<1> QED
  BY <1>5, <1>7, <1>8 DEF IInv

(* A work connection that nobody has been given may become anything that   *)
(* says which proxy it is for.                                             *)
LEMMA WorkMoves ==
    ASSUME IInv, NEW w \in Works, NEW new \in WorkType, work[w].st # "given",
           new.st # "none" => new.name \in Names,
           work' = [work EXCEPT ![w] = new], asks' \in [Sessions -> Nat],
           UNCHANGED <<phase, taking, pending, ext, waiters, stray>>
    PROVE  IInv'
<1>1. work \in [Works -> WorkType] /\ ext \in [Exts -> ExtType]
  BY DEF IInv, TypeOK, ExtType, WorkType
<1>2. PendingSound' /\ WaitersSound'
  BY DEF IInv, PendingSound, WaitersSound
<1>3. \A e \in Exts : ext[e].work # w
  BY NobodyAssumption DEF IInv, ExtSound
<1>4. ExtSound' /\ WorkSound'
  BY <1>1, <1>3 DEF IInv, ExtSound, WorkSound, ExtType
<1>5. TypeOK'
  BY <1>1 DEF IInv, TypeOK, WorkType
<1> QED
  BY <1>2, <1>4, <1>5 DEF IInv

LEMMA NewWorkConnKeeps ==
    ASSUME IInv, NEW s \in Sessions, NewWorkConn(s)
    PROVE  IInv'
<1> DEFINE new == Asking(s)
<1>1. PICK w \in Works : work[w].st = "none" /\ work' = [work EXCEPT ![w] = new]
  BY DEF NewWorkConn
<1>2. new \in WorkType /\ new.name \in Names
  BY NameAssumption DEF WorkType, Asking
<1>3. asks' \in [Sessions -> Nat] /\ UNCHANGED <<phase, taking, pending, ext, waiters, stray>>
  BY DEF IInv, TypeOK, NewWorkConn
<1> HIDE DEF new
<1> QED
  BY <1>1, <1>2, <1>3, WorkMoves

LEMMA UninvitedKeeps ==
    ASSUME IInv, NEW w \in Works, NEW n \in Names, Uninvited(w, n)
    PROVE  IInv'
<1> DEFINE new == [st |-> "sent", from |-> None, name |-> n]
<1>1. /\ work[w].st = "none" /\ work' = [work EXCEPT ![w] = new]
      /\ UNCHANGED <<phase, taking, pending, asks, ext, waiters, stray>>
  BY DEF Uninvited
<1>2. new \in WorkType /\ new.name \in Names
  BY DEF WorkType
<1>3. asks' \in [Sessions -> Nat]
  BY <1>1 DEF IInv, TypeOK
<1> HIDE DEF new
<1> QED
  BY <1>1, <1>2, <1>3, WorkMoves

LEMMA WorkNextKeeps ==
    ASSUME IInv, NEW w \in Works, StartWorkConn(w) \/ DialFails(w) \/ NoWaiter(w)
    PROVE  IInv'
<1> DEFINE sent == [work[w] EXCEPT !.st = "sent"]
<1>1. work \in [Works -> WorkType] /\ asks \in [Sessions -> Nat]
  BY DEF IInv, TypeOK, WorkType
<1>2. work[w].st \in {"dial", "sent"} /\ work[w].name \in Names
  BY DEF IInv, WorkSound, StartWorkConn, DialFails, NoWaiter
<1>3. sent \in WorkType /\ sent.name = work[w].name
  BY <1>1 DEF WorkType
<1>4. NoWork \in WorkType /\ NoWork.st = "none"
  BY DEF NoWork, WorkType
<1>5. /\ work' = [work EXCEPT ![w] = sent] \/ work' = [work EXCEPT ![w] = NoWork]
      /\ UNCHANGED <<phase, taking, pending, asks, ext, waiters, stray>>
  BY <1>1 DEF StartWorkConn, DialFails, NoWaiter
<1> HIDE DEF sent
<1> QED
  BY <1>1, <1>2, <1>3, <1>4, <1>5, WorkMoves

LEMMA DeliverKeeps ==
    ASSUME IInv, NEW w \in Works, Deliver(w)
    PROVE  IInv'
<1> DEFINE n == work[w].name
           e == Head(waiters[n])
           new == [ext[e] EXCEPT !.work = w]
           given == [work[w] EXCEPT !.st = "given"]
<1>1. /\ work[w].st = "sent" /\ waiters[n] # <<>>
      /\ work' = [work EXCEPT ![w].st = "given"]
      /\ ext' = [ext EXCEPT ![e].work = w]
      /\ waiters' = [waiters EXCEPT ![n] = Tail(waiters[n])]
      /\ stray' = [stray EXCEPT ![n] = stray[n] + Uncalled(w)]
      /\ UNCHANGED <<phase, taking, pending, asks>>
  BY DEF Deliver
<1>2. ext \in [Exts -> ExtType] /\ work \in [Works -> WorkType]
  BY DEF IInv, TypeOK, ExtType, WorkType
<1>3. n \in Names
  BY <1>1 DEF IInv, WorkSound
<1>4. waiters[n] \in Seq(Exts) /\ NoRepeat(waiters[n])
  BY <1>3 DEF IInv, TypeOK, WaitersSound
<1>5. /\ Tail(waiters[n]) \in Seq(Exts) /\ NoRepeat(Tail(waiters[n]))
      /\ e \in Exts /\ Holds(waiters[n], e)
      /\ \A f : Holds(Tail(waiters[n]), f) <=> Holds(waiters[n], f) /\ f # e
  BY <1>1, <1>4, TailFacts
<1>6. ext[e].st = "wait" /\ ext[e].work = None /\ NameOf[ext[e].via] = n
  BY <1>3, <1>5 DEF IInv, WaitersSound
<1>7. /\ new \in ExtType /\ new.st = "wait" /\ new.via = ext[e].via /\ new.work = w
      /\ ext' = [ext EXCEPT ![e] = new]
  BY <1>1, <1>2, <1>5, <1>6 DEF ExtType
<1>8. /\ given \in WorkType /\ given.st = "given" /\ given.name = work[w].name
      /\ work' = [work EXCEPT ![w] = given]
  BY <1>1, <1>2 DEF WorkType
<1> HIDE DEF n, e, new, given
<1>9. \A f \in Exts : ext[f].work # w
  BY <1>1, NobodyAssumption DEF IInv, ExtSound
<1>10. PendingSound'
  BY <1>1, <1>2, <1>5, <1>6, <1>7 DEF IInv, PendingSound
<1>11. \A m \in Names : m # n => ~Holds(waiters[m], e)
  BY <1>6 DEF IInv, WaitersSound
<1>12. WaitersSound'
  BY <1>1, <1>2, <1>3, <1>5, <1>7, <1>11 DEF IInv, TypeOK, WaitersSound
<1>13. ExtSound' /\ WorkSound'
  <2>1. \A f \in Exts : ext'[f] = IF f = e THEN new ELSE ext[f]
    BY <1>2, <1>5, <1>7
  <2>2. \A v \in Works : work'[v] = IF v = w THEN given ELSE work[v]
    BY <1>2, <1>8
  <2>3. \A f \in Exts : ext[f].work # None => ext[f].work \in Works /\ ext[f].work # w
    BY <1>2, <1>9 DEF ExtType
  <2>4. \A f \in Exts : ext'[f].work # None => work'[ext'[f].work].st = "given"
    BY <1>7, <1>8, <2>1, <2>2, <2>3 DEF IInv, ExtSound
  <2>5. \A f, g \in Exts : f # g /\ ext'[f].work # None => ext'[f].work # ext'[g].work
    BY <1>7, <1>9, <2>1, <2>3, NobodyAssumption DEF IInv, ExtSound
  <2>6. \A f \in Exts : /\ ext'[f].st # "out" => ext'[f].via \in Sessions
                        /\ ext'[f].st \notin {"wait", "joined"} => ext'[f].work = None
    BY <1>6, <1>7, <2>1 DEF IInv, ExtSound
  <2>7. WorkSound'
    BY <1>1, <1>8, <2>2 DEF IInv, WorkSound
  <2> QED
    BY <2>4, <2>5, <2>6, <2>7 DEF ExtSound
<1>14. TypeOK'
  <2>1. ext' \in [Exts -> ExtType]
    BY <1>2, <1>5, <1>7
  <2>2. work' \in [Works -> WorkType]
    BY <1>2, <1>8
  <2>3. waiters' \in [Names -> Seq(Exts)]
    BY <1>1, <1>3, <1>5 DEF IInv, TypeOK
  <2>4. stray' \in [Names -> Nat]
    <3>1. stray \in [Names -> Nat] /\ Uncalled(w) \in Nat
      BY DEF IInv, TypeOK, Uncalled
    <3> QED
      BY <1>1, <1>3, <3>1
  <2> QED
    BY <1>1, <2>1, <2>2, <2>3, <2>4 DEF IInv, TypeOK, ExtType, WorkType
<1> QED
  BY <1>10, <1>12, <1>13, <1>14 DEF IInv

LEMMA StopProxyKeeps ==
    ASSUME IInv, NEW s \in Sessions, StopProxy(s)
    PROVE  IInv'
<1>1. TypeOK'
  BY DEF IInv, TypeOK, StopProxy
<1>2. PendingSound' /\ WaitersSound' /\ ExtSound' /\ WorkSound'
  BY DEF IInv, PendingSound, WaitersSound, ExtSound, WorkSound, StopProxy
<1> QED
  BY <1>1, <1>2 DEF IInv

LEMMA CloseConnKeeps ==
    ASSUME IInv, NEW s \in Sessions, CloseConn(s)
    PROVE  IInv'
<1>1. TypeOK'
  BY DEF IInv, TypeOK, CloseConn
<1>2. PendingSound' /\ WaitersSound' /\ ExtSound' /\ WorkSound'
  BY DEF IInv, PendingSound, WaitersSound, ExtSound, WorkSound, CloseConn
<1> QED
  BY <1>1, <1>2 DEF IInv

LEMMA StutterKeeps ==
    ASSUME IInv, UNCHANGED vars
    PROVE  IInv'
<1> USE DEF vars
<1>1. TypeOK' /\ PendingSound' /\ WaitersSound' /\ ExtSound' /\ WorkSound'
  BY DEF IInv, TypeOK, PendingSound, WaitersSound, ExtSound, WorkSound
<1> QED
  BY <1>1 DEF IInv

LEMMA NextKeeps == IInv /\ [Next]_vars => IInv'
<1> SUFFICES ASSUME IInv, [Next]_vars PROVE IInv'
  OBVIOUS
<1>1. ASSUME NEW e \in Exts, ExtNext(e) PROVE IInv'
  BY <1>1, AcceptKeeps, EnqueueKeeps, DropKeeps, RequestWorkConnKeeps, WaitWorkConnKeeps,
     StartJoinKeeps, EndJoinKeeps DEF ExtNext
<1>2. ASSUME NEW w \in Works, WorkNext(w) PROVE IInv'
  BY <1>2, WorkNextKeeps, DeliverKeeps DEF WorkNext
<1>3. ASSUME NEW s \in Sessions, SessionNext(s) PROVE IInv'
  BY <1>3, ConnectKeeps, TakePendingKeeps, EndTakingKeeps, NewWorkConnKeeps,
     StopProxyKeeps, CloseConnKeeps DEF SessionNext
<1>4. CASE AnyoneNext
  BY <1>4, UninvitedKeeps DEF AnyoneNext
<1>5. CASE UNCHANGED vars
  BY <1>5, StutterKeeps
<1> QED
  BY <1>1, <1>2, <1>3, <1>4, <1>5 DEF Next

-----------------------------------------------------------------------------
(* The invariant holds of every behaviour, whatever sessions, names,       *)
(* connections, queue lengths and faults there are.                        *)
THEOREM Invariance == Spec => []IInv
<1> QED
  BY InitIInv, NextKeeps, PTL DEF Spec

(* Types, with the bound on the queue of accepted connections (the buffer  *)
(* of pendingConns in proxy.go).                                           *)
THEOREM TypeCorrect == Spec => []TypeOK
<1>1. IInv => TypeOK
  BY DEF IInv
<1> QED
  BY <1>1, Invariance, PTL

(* deliverWorkConn (workconn.go) hands a work connection to one handler    *)
(* and never to one that has a connection already, although waiters are    *)
(* kept by name and outlive their session.                                 *)
THEOREM HandedOutOnce == Spec => []PairedOnce
<1>1. IInv => PairedOnce
  <2> SUFFICES ASSUME IInv PROVE PairedOnce
    OBVIOUS
  <2>1. /\ \A e, f \in Exts : e # f /\ ext[e].work # None => ext[e].work # ext[f].work
        /\ \A e \in Exts : ext[e].work # None => work[ext[e].work].st = "given"
    BY DEF IInv, ExtSound
  <2>2. ASSUME NEW n \in Names, NEW i \in DOMAIN waiters[n], NEW j \in DOMAIN waiters[n]
        PROVE  /\ ext[waiters[n][i]].st = "wait" /\ ext[waiters[n][i]].work = None
               /\ i # j => waiters[n][i] # waiters[n][j]
    <3>1. Holds(waiters[n], waiters[n][i])
      BY DEF Holds
    <3> QED
      BY <3>1 DEF IInv, WaitersSound, NoRepeat
  <2> QED
    BY <2>1, <2>2 DEF PairedOnce
<1> QED
  BY <1>1, Invariance, PTL

-----------------------------------------------------------------------------
(* The balance of requests and work connections against the handlers that  *)
(* have asked and the uninvited connections.  It is kept by steps that change one side or both by one.   *)

Awaited(r, c, a, k) == r + Cardinality(c) <= Cardinality(a) + k

LEMMA Balanced ==
    ASSUME NEW r \in Nat, NEW c, IsFiniteSet(c), NEW a, IsFiniteSet(a), NEW k \in Nat,
           Awaited(r, c, a, k)
    PROVE  /\ \A b : IsFiniteSet(b) /\ a \subseteq b => Awaited(r, c, b, k)
           /\ \A q \in Nat : \A d : q <= r /\ d \subseteq c => Awaited(q, d, a, k)
           /\ \A e : e \notin a => Awaited(r + 1, c, a \cup {e}, k)
           /\ \A q \in Nat : \A w : q + 1 = r /\ w \notin c => Awaited(q, c \cup {w}, a, k)
           /\ \A w \in c, e \in a : Awaited(r, c \ {w}, a \ {e}, k)
           /\ \A e \in a : Awaited(r, c, a \ {e}, k + 1)
<1>1. Cardinality(c) \in Nat /\ Cardinality(a) \in Nat
  BY FS_CardinalityType
<1>2. ASSUME NEW b, IsFiniteSet(b), a \subseteq b PROVE Awaited(r, c, b, k)
  <2>1. Cardinality(a) <= Cardinality(b) /\ Cardinality(b) \in Nat
    BY <1>2, FS_Subset, FS_CardinalityType
  <2> QED
    BY <1>1, <2>1 DEF Awaited
<1>3. ASSUME NEW q \in Nat, NEW d, q <= r, d \subseteq c PROVE Awaited(q, d, a, k)
  <2>1. Cardinality(d) <= Cardinality(c) /\ Cardinality(d) \in Nat
    BY <1>3, FS_Subset, FS_CardinalityType
  <2> QED
    BY <1>1, <1>3, <2>1 DEF Awaited
<1>4. ASSUME NEW e, e \notin a PROVE Awaited(r + 1, c, a \cup {e}, k)
  <2>1. Cardinality(a \cup {e}) = Cardinality(a) + 1
    BY <1>4, FS_AddElement
  <2> QED
    BY <1>1, <2>1 DEF Awaited
<1>5. ASSUME NEW q \in Nat, NEW w, q + 1 = r, w \notin c PROVE Awaited(q, c \cup {w}, a, k)
  <2>1. Cardinality(c \cup {w}) = Cardinality(c) + 1
    BY <1>5, FS_AddElement
  <2> QED
    BY <1>1, <1>5, <2>1 DEF Awaited
<1>6. ASSUME NEW w \in c, NEW e \in a PROVE Awaited(r, c \ {w}, a \ {e}, k)
  <2>1. /\ Cardinality(c \ {w}) = Cardinality(c) - 1
        /\ Cardinality(a \ {e}) = Cardinality(a) - 1
    BY <1>6, FS_RemoveElement
  <2> QED
    BY <1>1, <2>1 DEF Awaited
<1>7. ASSUME NEW e \in a PROVE Awaited(r, c, a \ {e}, k + 1)
  <2>1. Cardinality(a \ {e}) = Cardinality(a) - 1
    BY <1>7, FS_RemoveElement
  <2> QED
    BY <1>1, <2>1 DEF Awaited
<1> QED
  BY <1>2, <1>3, <1>4, <1>5, <1>6, <1>7

Named(n) == {s \in Sessions : NameOf[s] = n}

LEMMA Finite ==
    ASSUME NEW n
    PROVE  /\ IsFiniteSet(Coming(n)) /\ IsFiniteSet(Asked(n)) /\ IsFiniteSet(Named(n))
           /\ IsFiniteSet(Coming(n)') /\ IsFiniteSet(Asked(n)')
           /\ Requested(n) = SumFunctionOnSet(asks, Named(n))
           /\ Requested(n)' = SumFunctionOnSet(asks', Named(n))
<1>1. /\ Coming(n) \subseteq Works /\ Asked(n) \subseteq Exts /\ Named(n) \subseteq Sessions
      /\ Coming(n)' \subseteq Works /\ Asked(n)' \subseteq Exts
  BY DEF Coming, Asked, Named
<1>2. /\ IsFiniteSet(Coming(n)) /\ IsFiniteSet(Asked(n)) /\ IsFiniteSet(Named(n))
      /\ IsFiniteSet(Coming(n)') /\ IsFiniteSet(Asked(n)')
  BY <1>1, FiniteAssumption, FS_Subset
<1>3. Requested(n) = SumFunctionOnSet(asks, Named(n))
  BY DEF Requested, Named
<1>4. Requested(n)' = SumFunctionOnSet(asks', Named(n))
  BY DEF Requested, Named
<1> QED
  BY <1>2, <1>3, <1>4

LEMMA RequestedNat ==
    ASSUME NEW n, TypeOK, TypeOK'
    PROVE  Requested(n) \in Nat /\ Requested(n)' \in Nat
<1>1. \A s \in Named(n) : asks[s] \in Nat /\ asks'[s] \in Nat
  BY DEF Named, TypeOK
<1> QED
  BY <1>1, Finite, SumNat

(* The requests of the names other than that of the session whose count    *)
(* changes stay, its own change by as much.                                *)
LEMMA RequestedChanges ==
    ASSUME TypeOK, NEW s \in Sessions, NEW v \in Nat, asks' = [asks EXCEPT ![s] = v], NEW n
    PROVE  IF NameOf[s] = n THEN Requested(n)' + asks[s] = Requested(n) + v
                            ELSE Requested(n)' = Requested(n)
<1>1. asks \in [Sessions -> Nat] /\ asks' \in [Sessions -> Nat] /\ asks'[s] = v
  BY DEF TypeOK
<1>2. \A t \in Named(n) : asks[t] \in Nat /\ asks'[t] \in Nat /\ (t # s => asks'[t] = asks[t])
  BY <1>1 DEF Named
<1>3. IsFiniteSet(Named(n))
  BY Finite
<1>4. CASE NameOf[s] = n
  <2>1. s \in Named(n) /\ \A t \in Named(n) \ {s} : asks'[t] = asks[t]
    BY <1>2, <1>4 DEF Named
  <2>2. SumFunctionOnSet(asks', Named(n)) + asks[s] = SumFunctionOnSet(asks, Named(n)) + asks'[s]
    <3> DEFINE f == asks
               h == asks'
               S == Named(n)
    <3>1. IsFiniteSet(S) /\ \A t \in S : f[t] \in Nat /\ h[t] \in Nat
      BY <1>2, <1>3
    <3>2. s \in S /\ \A t \in S \ {s} : h[t] = f[t]
      BY <2>1
    <3>3. SumFunctionOnSet(h, S) + f[s] = SumFunctionOnSet(f, S) + h[s]
      <4> HIDE DEF f, h, S
      <4> QED
        BY <3>1, <3>2, SumChanged
    <3> QED
      BY <3>3
  <2> QED
    BY <1>1, <1>4, <2>2, Finite
<1>5. CASE NameOf[s] # n
  <2>1. \A t \in Named(n) : asks'[t] = asks[t]
    BY <1>2, <1>5 DEF Named
  <2>2. SumFunctionOnSet(asks', Named(n)) = SumFunctionOnSet(asks, Named(n))
    <3> DEFINE f == asks
               h == asks'
               S == Named(n)
    <3>1. IsFiniteSet(S) /\ \A t \in S : h[t] = f[t]
      BY <1>3, <2>1
    <3>2. SumFunctionOnSet(h, S) = SumFunctionOnSet(f, S)
      <4> HIDE DEF f, h, S
      <4> QED
        BY <3>1, SumSame
    <3> QED
      BY <3>2
  <2> QED
    BY <1>5, <2>2, Finite
<1> QED
  BY <1>4, <1>5

LEMMA InitAwaited == Init => NoMoreThanAsked
<1> SUFFICES ASSUME Init, NEW n \in Names
             PROVE  Requested(n) + Cardinality(Coming(n)) <= Cardinality(Asked(n)) + stray[n]
  BY DEF NoMoreThanAsked
<1>1. Coming(n) = {} /\ Asked(n) = {} /\ stray[n] = 0
  BY DEF Init, Coming, Asked, NoWork, Outside
<1>2. Requested(n) = 0
  <2>1. asks = [s \in Sessions |-> 0]
    BY DEF Init
  <2>2. PICK m \in Nat : m = SumFunctionOnSet(asks, Named(n))
    BY <2>1, Finite, SumNat DEF Named
  <2>3. SumFunctionOnSet(asks, Named(n)) = 0
    BY <2>1, Finite, SumOfZeros DEF Named
  <2> QED
    BY <2>3, Finite
<1> QED
  BY <1>1, <1>2, FS_EmptySet

(* Steps that add to neither side, or add handlers that have asked.        *)
LEMMA NoMoreKeep ==
    ASSUME IInv, NoMoreThanAsked, IInv', UNCHANGED stray,
           \A n \in Names : /\ Requested(n)' <= Requested(n)
                            /\ Coming(n)' \subseteq Coming(n)
                            /\ Asked(n) \subseteq Asked(n)'
    PROVE  NoMoreThanAsked'
<1> SUFFICES ASSUME NEW n \in Names
             PROVE  Awaited(Requested(n)', Coming(n)', Asked(n)', stray'[n])
  BY DEF NoMoreThanAsked, Awaited
<1>1. Requested(n) \in Nat /\ Requested(n)' \in Nat /\ stray[n] \in Nat
  BY RequestedNat DEF IInv, TypeOK
<1>2. Awaited(Requested(n), Coming(n), Asked(n), stray[n])
  BY DEF NoMoreThanAsked, Awaited
<1>3. Awaited(Requested(n), Coming(n), Asked(n)', stray[n])
  BY <1>1, <1>2, Finite, Balanced
<1>4. Awaited(Requested(n)', Coming(n)', Asked(n)', stray[n])
  BY <1>1, <1>3, Finite, Balanced
<1> QED
  BY <1>4

(* Handlers that have not asked, have got a connection or are gone do not  *)
(* count: a step of theirs changes nothing.                                *)
LEMMA AskedSame ==
    ASSUME IInv, NEW e \in Exts, NEW new \in ExtType, ext' = [ext EXCEPT ![e] = new],
           \/ /\ ext[e].st \notin {"register", "wait"} \/ ext[e].work # None
              /\ new.st \notin {"register", "wait"} \/ new.work # None
           \/ /\ ext[e].st \in {"register", "wait"} /\ new.st \in {"register", "wait"}
              /\ ext[e].work = None /\ new.work = None /\ new.via = ext[e].via,
           NEW n
    PROVE  Asked(n)' = Asked(n)
<1>1. ext \in [Exts -> ExtType]
  BY DEF IInv, TypeOK, ExtType
<1>2. \A f \in Exts : ext'[f] = IF f = e THEN new ELSE ext[f]
  BY <1>1
<1>3. \A f \in Exts :
        (/\ ext'[f].st \in {"register", "wait"} /\ ext'[f].work = None
         /\ NameOf[ext'[f].via] = n)
        <=> (/\ ext[f].st \in {"register", "wait"} /\ ext[f].work = None
             /\ NameOf[ext[f].via] = n)
  BY <1>2
<1> QED
  BY <1>3 DEF Asked

LEMMA UnmovedKeeps ==
    ASSUME IInv, NoMoreThanAsked, IInv', UNCHANGED <<asks, ext, work, stray>>
    PROVE  NoMoreThanAsked'
<1>1. \A n : /\ Requested(n)' = Requested(n) /\ Coming(n)' = Coming(n)
             /\ Asked(n)' = Asked(n)
  BY DEF Requested, Coming, Asked
<1>2. stray' = stray
  OBVIOUS
<1> QED
  BY <1>1, <1>2 DEF NoMoreThanAsked

(* The steps of an external connection but the asking.                     *)
LEMMA ExtKeeps ==
    ASSUME IInv, NoMoreThanAsked, IInv', NEW e \in Exts,
           \/ \E s \in Sessions : Accept(e, s)
           \/ Enqueue(e) \/ Drop(e) \/ WaitWorkConn(e) \/ StartJoin(e)
    PROVE  NoMoreThanAsked'
<1>1. ext \in [Exts -> ExtType]
  BY DEF IInv, TypeOK, ExtType
<1>2. UNCHANGED <<asks, work, stray>>
  BY DEF Accept, Enqueue, Drop, WaitWorkConn, StartJoin
<1>3. \A n : Requested(n)' = Requested(n) /\ Coming(n)' = Coming(n)
  BY <1>2 DEF Requested, Coming
<1>4. ASSUME NEW n \in Names PROVE Asked(n)' = Asked(n)
  <2>1. ASSUME NEW s \in Sessions, Accept(e, s) PROVE Asked(n)' = Asked(n)
    <3> DEFINE new == [st |-> "sniffed", via |-> s, work |-> None]
    <3>1. new \in ExtType /\ new.st = "sniffed"
      BY DEF ExtType, ExtStates
    <3>2. ext[e].st = "out" /\ ext' = [ext EXCEPT ![e] = new]
      BY <2>1 DEF Accept
    <3> HIDE DEF new
    <3> QED
      BY <3>1, <3>2, AskedSame
  <2>2. CASE Enqueue(e)
    <3> DEFINE new == [ext[e] EXCEPT !.st = "pending"]
    <3>1. new \in ExtType /\ new.st = "pending"
      BY <1>1 DEF ExtType, ExtStates
    <3>2. ext[e].st = "sniffed" /\ ext' = [ext EXCEPT ![e] = new]
      BY <1>1, <2>2 DEF Enqueue
    <3> HIDE DEF new
    <3> QED
      BY <3>1, <3>2, AskedSame
  <2>3. CASE Drop(e)
    <3>1. Outside \in ExtType /\ Outside.st = "out"
      BY DEF Outside, ExtType, ExtStates
    <3>2. ext[e].st = "sniffed" /\ ext' = [ext EXCEPT ![e] = Outside]
      BY <2>3 DEF Drop
    <3> QED
      BY <3>1, <3>2, AskedSame
  <2>4. CASE WaitWorkConn(e)
    <3> DEFINE new == [ext[e] EXCEPT !.st = "wait"]
    <3>1. ext[e].st = "register" /\ ext' = [ext EXCEPT ![e] = new]
      BY <1>1, <2>4 DEF WaitWorkConn
    <3>2. ext[e].work = None
      BY <3>1 DEF IInv, ExtSound
    <3>3. /\ new \in ExtType /\ new.st = "wait" /\ new.via = ext[e].via
          /\ new.work = None
      BY <1>1, <3>2 DEF ExtType, ExtStates
    <3> HIDE DEF new
    <3> QED
      BY <3>1, <3>2, <3>3, AskedSame
  <2>5. CASE StartJoin(e)
    <3> DEFINE new == [ext[e] EXCEPT !.st = "joined"]
    <3>1. ext[e].work # None /\ ext' = [ext EXCEPT ![e] = new]
      BY <1>1, <2>5 DEF StartJoin
    <3>2. new \in ExtType /\ new.st = "joined"
      BY <1>1 DEF ExtType, ExtStates
    <3> HIDE DEF new
    <3> QED
      BY <3>1, <3>2, AskedSame
  <2> QED
    BY <2>1, <2>2, <2>3, <2>4, <2>5
<1>5. \A n \in Names : Requested(n) \in Nat
  BY RequestedNat DEF IInv
<1> QED
  BY <1>2, <1>3, <1>4, <1>5, NoMoreKeep

LEMMA TakePendingKeepsAwaited ==
    ASSUME IInv, NoMoreThanAsked, IInv', NEW s \in Sessions, TakePending(s)
    PROVE  NoMoreThanAsked'
<1> DEFINE e == Head(pending[s])
           new == [ext[e] EXCEPT !.st = "ask"]
<1>1. ext \in [Exts -> ExtType] /\ pending[s] \in Seq(Exts) /\ pending[s] # <<>>
  BY DEF IInv, TypeOK, ExtType, TakePending
<1>2. e \in Exts /\ Holds(pending[s], e)
  BY <1>1 DEF Holds
<1>3. ext[e].st = "pending" /\ ext' = [ext EXCEPT ![e] = new] /\ UNCHANGED <<asks, work, stray>>
  BY <1>1, <1>2 DEF IInv, PendingSound, TakePending
<1>4. new \in ExtType /\ new.st = "ask"
  BY <1>1, <1>2 DEF ExtType, ExtStates
<1> HIDE DEF e, new
<1>5. \A n : Asked(n)' = Asked(n)
  BY <1>2, <1>3, <1>4, AskedSame
<1>6. \A n : Requested(n)' = Requested(n) /\ Coming(n)' = Coming(n)
  BY <1>3 DEF Requested, Coming
<1>7. \A n \in Names : Requested(n) \in Nat
  BY RequestedNat DEF IInv
<1> QED
  BY <1>3, <1>5, <1>6, <1>7, NoMoreKeep

(* One request more, and one handler more that has asked.                  *)
LEMMA RequestKeepsAwaited ==
    ASSUME IInv, NoMoreThanAsked, IInv', NEW e \in Exts, RequestWorkConn(e)
    PROVE  NoMoreThanAsked'
<1> DEFINE s == ext[e].via
<1>1. /\ ext \in [Exts -> ExtType] /\ asks \in [Sessions -> Nat]
      /\ s \in Sessions /\ ext[e].work = None /\ ext[e].st = "ask"
  BY DEF IInv, TypeOK, ExtSound, ExtType, RequestWorkConn
<1>2. UNCHANGED <<work, stray>> /\ \A n : Coming(n)' = Coming(n)
  BY DEF RequestWorkConn, Coming
<1>3. CASE ~Connected(s)
  <2>1. ext' = [ext EXCEPT ![e] = Outside] /\ asks' = asks
    BY <1>3 DEF RequestWorkConn
  <2>2. Outside \in ExtType /\ Outside.st = "out"
    BY DEF Outside, ExtType, ExtStates
  <2>3. \A n : Asked(n)' = Asked(n)
    BY <1>1, <2>1, <2>2, AskedSame
  <2>4. \A n \in Names : Requested(n)' = Requested(n) /\ Requested(n) \in Nat
    BY <2>1, RequestedNat DEF IInv, Requested
  <2> QED
    BY <1>2, <2>3, <2>4, NoMoreKeep
<1>4. CASE Connected(s)
  <2> DEFINE new == [ext[e] EXCEPT !.st = "register"]
  <2>1. ext' = [ext EXCEPT ![e] = new] /\ asks' = [asks EXCEPT ![s] = asks[s] + 1]
    BY <1>1, <1>4 DEF RequestWorkConn
  <2>2. new.st = "register" /\ new.via = s /\ new.work = None
    BY <1>1 DEF ExtType
  <2> HIDE DEF new, s
  <2>3. \A f \in Exts : ext'[f] = IF f = e THEN new ELSE ext[f]
    BY <1>1, <2>1
  <2> SUFFICES ASSUME NEW n \in Names
               PROVE  Awaited(Requested(n)', Coming(n)', Asked(n)', stray'[n])
    BY DEF NoMoreThanAsked, Awaited
  <2>4. /\ Awaited(Requested(n), Coming(n), Asked(n), stray[n])
        /\ Requested(n) \in Nat /\ stray[n] \in Nat
    BY RequestedNat DEF IInv, TypeOK, NoMoreThanAsked, Awaited
  <2>5. e \notin Asked(n)
    BY <1>1 DEF Asked
  <2>6. CASE NameOf[s] = n
    <3>1. Asked(n)' = Asked(n) \cup {e}
      BY <2>2, <2>3, <2>6 DEF Asked
    <3>2. Requested(n)' = Requested(n) + 1
      <4>1. asks[s] \in Nat /\ asks[s] + 1 \in Nat
        BY <1>1
      <4>2. Requested(n)' + asks[s] = Requested(n) + (asks[s] + 1)
        BY <1>1, <2>1, <2>6, <4>1, RequestedChanges DEF IInv
      <4>3. Requested(n)' \in Nat
        BY RequestedNat DEF IInv
      <4> QED
        BY <2>4, <4>1, <4>2, <4>3
    <3>3. Awaited(Requested(n) + 1, Coming(n), Asked(n) \cup {e}, stray[n])
      BY <2>4, <2>5, Finite, Balanced
    <3> QED
      BY <1>2, <3>1, <3>2, <3>3
  <2>7. CASE NameOf[s] # n
    <3>1. Asked(n)' = Asked(n)
      BY <1>1, <2>2, <2>3, <2>7 DEF Asked
    <3>2. Requested(n)' = Requested(n)
      <4>1. asks[s] + 1 \in Nat
        BY <1>1
      <4>2. IF NameOf[s] = n THEN Requested(n)' + asks[s] = Requested(n) + (asks[s] + 1)
                             ELSE Requested(n)' = Requested(n)
        <5> HIDE DEF s
        <5>1. TypeOK /\ s \in Sessions /\ asks' = [asks EXCEPT ![s] = asks[s] + 1]
          BY <1>1, <2>1 DEF IInv
        <5> QED
          BY <4>1, <5>1, RequestedChanges
      <4> QED
        BY <2>7, <4>2
    <3> QED
      BY <1>2, <2>4, <3>1, <3>2
  <2> QED
    BY <2>6, <2>7
<1> QED
  BY <1>3, <1>4

(* The bridge ends: neither side is under way any more.                    *)
LEMMA EndJoinKeepsAwaited ==
    ASSUME IInv, NoMoreThanAsked, IInv', NEW e \in Exts, EndJoin(e)
    PROVE  NoMoreThanAsked'
<1>1. /\ ext[e].st = "joined" /\ work' = [work EXCEPT ![ext[e].work] = NoWork]
      /\ ext' = [ext EXCEPT ![e] = Outside] /\ UNCHANGED <<asks, stray>>
  BY DEF EndJoin
<1>2. Outside \in ExtType /\ Outside.st = "out" /\ NoWork.st = "none"
  BY DEF Outside, ExtType, ExtStates, NoWork
<1>3. \A n : Asked(n)' = Asked(n)
  BY <1>1, <1>2, AskedSame
<1>4. \A n : Requested(n)' = Requested(n)
  BY <1>1 DEF Requested
<1>5. ASSUME NEW n PROVE Coming(n)' \subseteq Coming(n)
  <2>1. \A w \in Works : work'[w] = work[w] \/ work'[w] = NoWork
    BY <1>1 DEF IInv, TypeOK
  <2> QED
    BY <1>2, <2>1 DEF Coming
<1>6. \A n \in Names : Requested(n) \in Nat
  BY RequestedNat DEF IInv
<1> QED
  BY <1>1, <1>3, <1>4, <1>5, <1>6, NoMoreKeep

(* One request less, and one work connection more.                         *)
LEMMA NewWorkConnKeepsAwaited ==
    ASSUME IInv, NoMoreThanAsked, IInv', NEW s \in Sessions, NewWorkConn(s)
    PROVE  NoMoreThanAsked'
<1> DEFINE new == Asking(s)
<1>1. PICK w \in Works : work[w].st = "none" /\ work' = [work EXCEPT ![w] = new]
  BY DEF NewWorkConn
<1>2. /\ asks[s] > 0 /\ asks' = [asks EXCEPT ![s] = asks[s] - 1] /\ UNCHANGED <<ext, stray>>
      /\ asks \in [Sessions -> Nat] /\ work \in [Works -> WorkType]
  BY DEF NewWorkConn, IInv, TypeOK, WorkType
<1>3. new.st = "dial" /\ new.from # None /\ new.name = NameOf[s]
  BY NobodyAssumption DEF Asking
<1> HIDE DEF new
<1>4. \A v \in Works : work'[v] = IF v = w THEN new ELSE work[v]
  BY <1>1, <1>2
<1>5. asks[s] \in Nat /\ asks[s] - 1 \in Nat /\ TypeOK
  BY <1>2 DEF IInv
<1> SUFFICES ASSUME NEW n \in Names
             PROVE  Awaited(Requested(n)', Coming(n)', Asked(n)', stray'[n])
  BY DEF NoMoreThanAsked, Awaited
<1>6. Awaited(Requested(n), Coming(n), Asked(n), stray[n])
  BY DEF NoMoreThanAsked, Awaited
<1>7. Requested(n) \in Nat /\ Requested(n)' \in Nat /\ stray[n] \in Nat
  BY RequestedNat DEF IInv, TypeOK
<1>8. Asked(n)' = Asked(n)
  BY <1>2 DEF Asked
<1>9. IF NameOf[s] = n THEN Requested(n)' + asks[s] = Requested(n) + (asks[s] - 1)
                       ELSE Requested(n)' = Requested(n)
  BY <1>2, <1>5, RequestedChanges
<1>10. CASE NameOf[s] = n
  <2>1. Requested(n)' + 1 = Requested(n)
    BY <1>5, <1>7, <1>9, <1>10
  <2>2. Coming(n)' = Coming(n) \cup {w} /\ w \notin Coming(n)
    BY <1>1, <1>3, <1>4, <1>10 DEF Coming
  <2>3. Awaited(Requested(n)', Coming(n) \cup {w}, Asked(n), stray[n])
    BY <1>6, <1>7, <2>1, <2>2, Finite, Balanced
  <2> QED
    BY <1>2, <1>8, <2>2, <2>3
<1>11. CASE NameOf[s] # n
  <2>1. Coming(n)' = Coming(n)
    BY <1>1, <1>3, <1>4, <1>11 DEF Coming
  <2> QED
    BY <1>2, <1>6, <1>8, <1>9, <1>11, <2>1
<1> QED
  BY <1>10, <1>11

LEMMA WorkNextKeepsAwaited ==
    ASSUME IInv, NoMoreThanAsked, IInv', NEW w \in Works,
           StartWorkConn(w) \/ DialFails(w) \/ NoWaiter(w)
    PROVE  NoMoreThanAsked'
<1> DEFINE sent == [work[w] EXCEPT !.st = "sent"]
<1>1. work \in [Works -> WorkType]
  BY DEF IInv, TypeOK, WorkType
<1>2. /\ sent.st = "sent" /\ sent.from = work[w].from /\ sent.name = work[w].name
      /\ NoWork.st = "none"
  BY <1>1 DEF WorkType, NoWork
<1>3. /\ \/ work[w].st = "dial" /\ work' = [work EXCEPT ![w] = sent]
         \/ work' = [work EXCEPT ![w] = NoWork]
      /\ UNCHANGED <<asks, ext, stray>>
  BY <1>1 DEF StartWorkConn, DialFails, NoWaiter
<1> HIDE DEF sent
<1>4. \A n : Asked(n)' = Asked(n) /\ Requested(n)' = Requested(n)
  BY <1>3 DEF Asked, Requested
<1>5. ASSUME NEW n PROVE Coming(n)' \subseteq Coming(n)
  BY <1>1, <1>2, <1>3 DEF Coming
<1>6. \A n \in Names : Requested(n) \in Nat
  BY RequestedNat DEF IInv
<1> QED
  BY <1>3, <1>4, <1>5, <1>6, NoMoreKeep

(* A connection that nobody asked for is under way, but does not count.    *)
LEMMA UninvitedKeepsAwaited ==
    ASSUME IInv, NoMoreThanAsked, IInv', NEW w \in Works, NEW n \in Names, Uninvited(w, n)
    PROVE  NoMoreThanAsked'
<1> DEFINE new == [st |-> "sent", from |-> None, name |-> n]
<1>1. /\ work[w].st = "none" /\ work' = [work EXCEPT ![w] = new]
      /\ UNCHANGED <<asks, ext, stray>> /\ work \in [Works -> WorkType]
  BY DEF Uninvited, IInv, TypeOK, WorkType
<1>2. new.from = None
  OBVIOUS
<1> HIDE DEF new
<1>3. \A m : Coming(m)' = Coming(m)
  BY <1>1, <1>2 DEF Coming
<1>4. \A m : Asked(m)' = Asked(m) /\ Requested(m)' = Requested(m)
  BY <1>1 DEF Asked, Requested
<1>5. \A m \in Names : Requested(m) \in Nat
  BY RequestedNat DEF IInv
<1> QED
  BY <1>1, <1>3, <1>4, <1>5, NoMoreKeep

(* One handler less without a connection, and either one work connection   *)
(* of its name less under way, or one more that nobody asked for.          *)
LEMMA DeliverKeepsAwaited ==
    ASSUME IInv, NoMoreThanAsked, IInv', NEW w \in Works, Deliver(w)
    PROVE  NoMoreThanAsked'
<1> DEFINE m == work[w].name
           e == Head(waiters[m])
           new == [ext[e] EXCEPT !.work = w]
           given == [work[w] EXCEPT !.st = "given"]
<1>1. /\ work[w].st = "sent" /\ waiters[m] # <<>>
      /\ work' = [work EXCEPT ![w].st = "given"]
      /\ ext' = [ext EXCEPT ![e].work = w] /\ asks' = asks
      /\ stray' = [stray EXCEPT ![m] = stray[m] + Uncalled(w)]
  BY DEF Deliver
<1>2. /\ ext \in [Exts -> ExtType] /\ work \in [Works -> WorkType]
      /\ stray \in [Names -> Nat]
  BY DEF IInv, TypeOK, ExtType, WorkType
<1>3. m \in Names
  BY <1>1 DEF IInv, WorkSound
<1>4. waiters[m] \in Seq(Exts) /\ NoRepeat(waiters[m])
  BY <1>3 DEF IInv, TypeOK, WaitersSound
<1>5. e \in Exts /\ Holds(waiters[m], e)
  BY <1>1, <1>4, TailFacts
<1>6. ext[e].st = "wait" /\ ext[e].work = None /\ NameOf[ext[e].via] = m
  <2> HIDE DEF m, e
  <2>1. WaitersSound
    BY DEF IInv
  <2> QED
    BY <1>3, <1>5, <2>1 DEF WaitersSound
<1>7. /\ new.work = w /\ w # None
      /\ \A f \in Exts : ext'[f] = IF f = e THEN new ELSE ext[f]
  BY <1>1, <1>2, <1>5, NobodyAssumption DEF ExtType
<1>8. /\ given.st = "given"
      /\ \A v \in Works : work'[v] = IF v = w THEN given ELSE work[v]
  BY <1>1, <1>2 DEF WorkType
<1>9. e \in Asked(m) /\ (work[w].from # None => w \in Coming(m))
  BY <1>1, <1>5, <1>6 DEF Coming, Asked
<1>10. /\ \A n : n # m => w \notin Coming(n) /\ e \notin Asked(n)
       /\ work[w].from = None => w \notin Coming(m)
  BY <1>6 DEF Coming, Asked
<1> HIDE DEF m, e, new, given
<1>11. \A n : Coming(n)' = Coming(n) \ {w}
  BY <1>8 DEF Coming
<1>12. \A n : Asked(n)' = Asked(n) \ {e}
  BY <1>7 DEF Asked
<1> SUFFICES ASSUME NEW n \in Names
             PROVE  Awaited(Requested(n)', Coming(n)', Asked(n)', stray'[n])
  BY DEF NoMoreThanAsked, Awaited
<1>13. /\ Awaited(Requested(n), Coming(n), Asked(n), stray[n])
       /\ Requested(n)' = Requested(n) /\ Requested(n) \in Nat /\ stray[n] \in Nat
  BY <1>1, <1>2, RequestedNat DEF IInv, NoMoreThanAsked, Awaited, Requested
<1>14. CASE n = m /\ work[w].from # None
  <2>1. Awaited(Requested(n), Coming(n) \ {w}, Asked(n) \ {e}, stray[n])
    BY <1>9, <1>13, <1>14, Finite, Balanced
  <2>2. stray'[n] = stray[n]
    BY <1>1, <1>2, <1>13, <1>14 DEF Uncalled
  <2> QED
    BY <1>11, <1>12, <1>13, <2>1, <2>2
<1>15. CASE n = m /\ work[w].from = None
  <2>1. Awaited(Requested(n), Coming(n), Asked(n) \ {e}, stray[n] + 1)
    BY <1>9, <1>13, <1>15, Finite, Balanced
  <2>2. stray'[n] = stray[n] + 1 /\ Coming(n) \ {w} = Coming(n)
    BY <1>1, <1>2, <1>10, <1>15 DEF Uncalled
  <2> QED
    BY <1>11, <1>12, <1>13, <2>1, <2>2
<1>16. CASE n # m
  <2>1. Coming(n) \ {w} = Coming(n) /\ Asked(n) \ {e} = Asked(n) /\ stray'[n] = stray[n]
    BY <1>1, <1>2, <1>10, <1>16
  <2> QED
    BY <1>11, <1>12, <1>13, <2>1
<1> QED
  BY <1>14, <1>15, <1>16

(* The requests that have not reached the client go with its session.      *)
LEMMA CloseConnKeepsAwaited ==
    ASSUME IInv, NoMoreThanAsked, IInv', NEW s \in Sessions, CloseConn(s)
    PROVE  NoMoreThanAsked'
<1>1. asks' = [asks EXCEPT ![s] = 0] /\ UNCHANGED <<ext, work, stray>> /\ asks[s] \in Nat /\ TypeOK
  BY DEF CloseConn, IInv, TypeOK
<1>2. \A n : Asked(n)' = Asked(n) /\ Coming(n)' = Coming(n)
  BY <1>1 DEF Asked, Coming
<1>3. ASSUME NEW n \in Names PROVE Requested(n)' <= Requested(n)
  <2>1. IF NameOf[s] = n THEN Requested(n)' + asks[s] = Requested(n) + 0
                         ELSE Requested(n)' = Requested(n)
    BY <1>1, RequestedChanges
  <2>2. Requested(n) \in Nat /\ Requested(n)' \in Nat
    BY RequestedNat DEF IInv
  <2> QED
    BY <1>1, <2>1, <2>2
<1> QED
  BY <1>1, <1>2, <1>3, NoMoreKeep

LEMMA NextKeepsAwaited ==
    IInv /\ NoMoreThanAsked /\ [Next]_vars => NoMoreThanAsked'
<1> SUFFICES ASSUME IInv, NoMoreThanAsked, [Next]_vars PROVE NoMoreThanAsked'
  OBVIOUS
<1>1. IInv'
  BY NextKeeps
<1>2. ASSUME NEW e \in Exts, ExtNext(e) PROVE NoMoreThanAsked'
  BY <1>1, <1>2, ExtKeeps, RequestKeepsAwaited, EndJoinKeepsAwaited DEF ExtNext
<1>3. ASSUME NEW w \in Works, WorkNext(w) PROVE NoMoreThanAsked'
  BY <1>1, <1>3, WorkNextKeepsAwaited, DeliverKeepsAwaited DEF WorkNext
<1>4. ASSUME NEW s \in Sessions, SessionNext(s) PROVE NoMoreThanAsked'
  <2>1. CASE Connect(s) \/ EndTaking(s) \/ StopProxy(s)
    BY <1>1, <2>1, UnmovedKeeps DEF Connect, EndTaking, StopProxy
  <2> QED
    BY <1>1, <1>4, <2>1, TakePendingKeepsAwaited, NewWorkConnKeepsAwaited,
       CloseConnKeepsAwaited DEF SessionNext
<1>5. CASE AnyoneNext
  BY <1>1, <1>5, UninvitedKeepsAwaited DEF AnyoneNext
<1>6. CASE UNCHANGED vars
  BY <1>1, <1>6, UnmovedKeeps DEF vars
<1> QED
  BY <1>2, <1>3, <1>4, <1>5, <1>6 DEF Next

(* handleTCPConn asks before it queues up, a request is answered at most   *)
(* once, and deliverWorkConn takes a waiter and a connection together: the *)
(* requests for a name and the work connections that answer them outnumber *)
(* the handlers that have asked and got nothing by no more than the        *)
(* connections nobody asked for (workconn.go, handleWorkConn) that were    *)
(* taken in their place, whatever is refused, lost or stopped.             *)
THEOREM Awaits == Spec => []NoMoreThanAsked
<1>1. Init => IInv /\ NoMoreThanAsked
  BY InitIInv, InitAwaited
<1>2. IInv /\ NoMoreThanAsked /\ [Next]_vars => (IInv /\ NoMoreThanAsked)'
  BY NextKeeps, NextKeepsAwaited
<1> QED
  BY <1>1, <1>2, PTL DEF Spec
=============================================================================
