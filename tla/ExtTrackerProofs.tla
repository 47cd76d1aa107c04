-------------------------- MODULE ExtTrackerProofs --------------------------
(***************************************************************************)
(* What ExtTracker guarantees for any number of goroutines, numbers,       *)
(* addresses and calls, whatever the limits of the tables: its types and   *)
(* limits, and that calls, seconds and bytes are put down to extensions    *)
(* that registered, once.                                                  *)
(***************************************************************************)
EXTENDS ExtTracker, SumTheorems, SequenceTheorems

Records == [calls : Nat, callSeconds : Nat, bytes : 0..MaxBytes]
CallType == [keys : Seq(ExtKeys), started : 0..NotYet]

RegisterOps == [op : {"register"}, key : ExtKeys, addr : Addrs]
SIPPends == [op : {"pend"}, call : CallIDs, protocol : {"sip"}, from : Ends, to : Ends]
IAXPends == [op : {"pend"}, call : Addrs, protocol : {"iax"}, from : Ends, to : Ends]
PendOps == SIPPends \cup IAXPends
AnswerOps == [op : {"answer"}, call : CallKeys]
EndOps == [op : {"end"}, call : CallKeys]
Ops == RegisterOps \cup PendOps \cup AnswerOps \cup EndOps

Typed ==
    /\ exts \in [DOMAIN exts -> Records] /\ DOMAIN exts \subseteq ExtKeys
    /\ peers \in [DOMAIN peers -> DOMAIN exts] /\ DOMAIN peers \subseteq Addrs
    /\ Cardinality(DOMAIN peers) <= MaxPeers
    /\ calls \in [DOMAIN calls -> CallType] /\ DOMAIN calls \subseteq CallKeys
    /\ rest \in [Watchers -> Seq(Ops)] /\ \A g \in Watchers : Len(rest[g]) <= 1
    /\ now \in 0..MaxTime
    /\ carried \in 0..MaxBytes

(* A call has one party or two different ones, which have registered with  *)
(* its protocol, and it has not been answered or was so before now.        *)
ProtocolOf(c) == IF c \in CallIDs THEN "sip" ELSE "iax"
AreParties(keys, protocol, registered) ==
    \/ \E k \in registered : k[1] = protocol /\ keys = <<k>>
    \/ \E j, k \in registered :
        j # k /\ j[1] = protocol /\ k[1] = protocol /\ keys = <<j, k>>
CallSound(c) ==
    /\ AreParties(calls[c].keys, ProtocolOf(c), DOMAIN exts)
    /\ Answered(c) => calls[c].started <= now

(* The order is that of the calls in the table, each once. *)
NoRepeat(q) == \A i, j \in DOMAIN q : i # j => q[i] # q[j]
Lists(q, S) == q \in Seq(CallKeys) /\ NoRepeat(q) /\ ToSet(q) = S
OrderSound == Lists(order, DOMAIN calls) /\ Len(order) <= MaxCalls

TInv ==
    /\ Typed /\ OrderSound /\ BytesCountedOnce
    /\ \A c \in DOMAIN calls : CallSound(c)

-----------------------------------------------------------------------------
(* Limits and finite sets. *)

LEMMA Bounds ==
    /\ MaxCalls \in Nat /\ MaxCalls > 0 /\ MaxPeers \in Nat /\ MaxPeers > 0
    /\ MaxTime \in Nat /\ MaxBytes \in Nat /\ MaxAnswers \in Nat
    /\ NotYet \in Nat /\ NotYet > MaxTime
BY LimitAssumption, BoundAssumption DEF NotYet

LEMMA FiniteKeys ==
    /\ IsFiniteSet(CallKeys)
    /\ \A S \in SUBSET CallKeys : IsFiniteSet(S)
    /\ \A S \in SUBSET Addrs : IsFiniteSet(S)
<1>1. IsFiniteSet(CallKeys)
  BY KeyAssumption, FS_Union DEF CallKeys
<1> QED
  BY <1>1, KeyAssumption, FS_Subset

(* Lists. *)

LEMMA ToSetIs == \A S : \A q \in Seq(S) : ToSet(q) = {q[i] : i \in 1..Len(q)}
BY DEF ToSet

LEMMA ListLen ==
    ASSUME NEW q, NEW S, Lists(q, S)
    PROVE  IsFiniteSet(S) /\ Cardinality(S) <= Len(q) /\ Len(q) \in Nat
<1>1. q \in Seq(CallKeys) /\ Len(q) \in Nat /\ S = {q[i] : i \in 1..Len(q)}
  BY ToSetIs DEF Lists
<1>2. IsFiniteSet(1..Len(q)) /\ Cardinality(1..Len(q)) = Len(q)
  <2> DEFINE n == Len(q)
  <2>1. n \in Int /\ n >= 0 /\ 1 \in Int
    BY <1>1
  <2>2. IsFiniteSet(1..n) /\ Cardinality(1..n) = IF 1 > n THEN 0 ELSE n - 1 + 1
    <3> HIDE DEF n
    <3> QED
      BY <2>1, FS_Interval
  <2> QED
    BY <2>1, <2>2
<1> DEFINE f == [i \in 1..Len(q) |-> q[i]]
<1>3. f \in Surjection(1..Len(q), S)
  BY <1>1 DEF Surjection
<1> HIDE DEF f
<1> QED
  BY <1>1, <1>2, <1>3, FS_Surjection

LEMMA ListAppend ==
    ASSUME NEW q, NEW S, Lists(q, S), NEW c \in CallKeys, c \notin S
    PROVE  Lists(Append(q, c), S \cup {c}) /\ Len(Append(q, c)) = Len(q) + 1
<1>1. /\ q \in Seq(CallKeys) /\ Len(q) \in Nat /\ NoRepeat(q) /\ DOMAIN q = 1..Len(q)
      /\ S = {q[i] : i \in 1..Len(q)}
  BY ToSetIs DEF Lists
<1>2. /\ Append(q, c) \in Seq(CallKeys) /\ Len(Append(q, c)) = Len(q) + 1
      /\ DOMAIN Append(q, c) = 1..(Len(q) + 1)
      /\ \A i \in 1..Len(q) : Append(q, c)[i] = q[i]
      /\ Append(q, c)[Len(q) + 1] = c
  BY <1>1
<1>3. NoRepeat(Append(q, c))
  BY <1>1, <1>2 DEF NoRepeat
<1>4. ToSet(Append(q, c)) = S \cup {c}
  <2>1. ASSUME NEW x \in ToSet(Append(q, c)) PROVE x \in S \cup {c}
    BY <1>1, <1>2, <2>1 DEF ToSet
  <2>2. ASSUME NEW x \in S \cup {c} PROVE x \in ToSet(Append(q, c))
    BY <1>1, <1>2, <2>2 DEF ToSet
  <2> QED
    BY <2>1, <2>2
<1> QED
  BY <1>2, <1>3, <1>4 DEF Lists

LEMMA ListTail ==
    ASSUME NEW q, NEW S, Lists(q, S), q # <<>>
    PROVE  Lists(Tail(q), S \ {Head(q)}) /\ Len(Tail(q)) = Len(q) - 1 /\ Head(q) \in S
<1>1. /\ q \in Seq(CallKeys) /\ Len(q) \in Nat /\ NoRepeat(q) /\ DOMAIN q = 1..Len(q)
      /\ S = {q[i] : i \in 1..Len(q)}
  BY ToSetIs DEF Lists
<1>2. /\ Len(q) > 0 /\ Head(q) = q[1]
      /\ Tail(q) \in Seq(CallKeys) /\ Len(Tail(q)) = Len(q) - 1
      /\ DOMAIN Tail(q) = 1..(Len(q) - 1)
      /\ \A i \in 1..(Len(q) - 1) : Tail(q)[i] = q[i + 1]
  BY <1>1
<1>3. NoRepeat(Tail(q))
  <2> SUFFICES ASSUME NEW i \in 1..(Len(q) - 1), NEW j \in 1..(Len(q) - 1), i # j
               PROVE  Tail(q)[i] # Tail(q)[j]
    BY <1>2 DEF NoRepeat
  <2>1. i + 1 \in DOMAIN q /\ j + 1 \in DOMAIN q /\ i + 1 # j + 1
    BY <1>1
  <2> QED
    BY <1>1, <1>2, <2>1 DEF NoRepeat
<1>4. ASSUME NEW x \in ToSet(Tail(q)) PROVE x \in S \ {Head(q)}
  <2>1. PICK i \in 1..(Len(q) - 1) : x = q[i + 1]
    BY <1>2, <1>4 DEF ToSet
  <2>2. i + 1 \in DOMAIN q /\ 1 \in DOMAIN q /\ i + 1 # 1
    BY <1>1, <1>2
  <2> QED
    BY <1>1, <1>2, <2>1, <2>2 DEF NoRepeat
<1>5. ASSUME NEW x \in S \ {Head(q)} PROVE x \in ToSet(Tail(q))
  <2>1. PICK i \in 1..Len(q) : x = q[i]
    BY <1>1, <1>5
  <2>2. i - 1 \in 1..(Len(q) - 1) /\ Tail(q)[i - 1] = x
    BY <1>1, <1>2, <1>5, <2>1
  <2> QED
    BY <1>2, <2>2 DEF ToSet
<1>6. ToSet(Tail(q)) = S \ {Head(q)}
  BY <1>4, <1>5
<1> QED
  BY <1>1, <1>2, <1>3, <1>6 DEF Lists

LEMMA ListWithout ==
    ASSUME NEW q, NEW S, Lists(q, S), NEW c \in S
    PROVE  Lists(RemoveFirst(q, c), S \ {c}) /\ Len(RemoveFirst(q, c)) = Len(q) - 1
<1>1. /\ q \in Seq(CallKeys) /\ Len(q) \in Nat /\ NoRepeat(q) /\ DOMAIN q = 1..Len(q)
      /\ S = {q[i] : i \in 1..Len(q)}
  BY ToSetIs DEF Lists
<1> DEFINE I == {i \in 1..Len(q) : q[i] = c}
           m == CHOOSE i \in I : \A j \in I : j >= i
           r == SubSeq(q, 1, m - 1) \o SubSeq(q, m + 1, Len(q))
<1>2. PICK n \in 1..Len(q) : q[n] = c
  BY <1>1
<1>3. I = {n}
  BY <1>1, <1>2 DEF NoRepeat
<1>4. m = n
  <2> HIDE DEF I
  <2>1. n \in I /\ \A j \in I : j >= n
    BY <1>3
  <2>2. \A i \in I : i = n
    BY <1>3
  <2> QED
    BY <2>1, <2>2
<1>5. RemoveFirst(q, c) = r
  BY <1>2, <1>3 DEF RemoveFirst, RemoveAt, SelectInSeq, Min
<1> HIDE DEF m
<1>6. /\ r \in Seq(CallKeys) /\ Len(r) = Len(q) - 1
      /\ \A i \in 1..(Len(q) - 1) : r[i] = IF i < n THEN q[i] ELSE q[i + 1]
  <2> DEFINE a == SubSeq(q, 1, n - 1)
             b == SubSeq(q, n + 1, Len(q))
  <2>1. /\ a \in Seq(CallKeys) /\ Len(a) = n - 1
        /\ \A i \in 1..(n - 1) : a[i] = q[i]
    BY <1>1, <1>2
  <2>2. /\ b \in Seq(CallKeys) /\ Len(b) = Len(q) - n
        /\ \A i \in 1..(Len(q) - n) : b[i] = q[n + i]
    <3>1. /\ n + 1 \in Int /\ Len(q) \in Int /\ \A i \in (n + 1)..Len(q) : q[i] \in CallKeys
          /\ Len(q) - (n + 1) + 1 = Len(q) - n
      BY <1>1, <1>2
    <3>2. /\ b \in Seq(CallKeys)
          /\ Len(b) = IF n + 1 <= Len(q) THEN Len(q) - (n + 1) + 1 ELSE 0
          /\ \A i \in 1..(Len(q) - (n + 1) + 1) : b[i] = q[(n + 1) + i - 1]
      BY <3>1, SubSeqProperties
    <3> HIDE DEF b
    <3>3. Len(b) = Len(q) - n
      <4> DEFINE l == Len(q)
      <4>1. l \in Nat /\ n \in 1..l /\ Len(b) = IF n + 1 <= l THEN l - (n + 1) + 1 ELSE 0
        BY <1>1, <1>2, <3>2
      <4> HIDE DEF l
      <4>2. Len(b) = l - n
        BY <4>1
      <4> QED
        BY <4>2 DEF l
    <3>4. \A i \in 1..(Len(q) - n) : (n + 1) + i - 1 = n + i
      BY <1>2
    <3> QED
      BY <3>1, <3>2, <3>3, <3>4
  <2>3. r = a \o b
    BY <1>4
  <2> HIDE DEF a, b, r
  <2>4. r \in Seq(CallKeys) /\ Len(r) = Len(q) - 1
    <3>1. a \o b \in Seq(CallKeys) /\ Len(a \o b) = Len(a) + Len(b)
      BY <2>1, <2>2, ConcatProperties
    <3> QED
      BY <1>1, <1>2, <2>1, <2>2, <2>3, <3>1
  <2>5. ASSUME NEW i \in 1..(Len(q) - 1) PROVE r[i] = IF i < n THEN q[i] ELSE q[i + 1]
    <3>1. r[i] = IF i <= Len(a) THEN a[i] ELSE b[i - Len(a)]
      BY <1>1, <1>2, <2>1, <2>2, <2>3
    <3>2. CASE i < n
      BY <1>1, <1>2, <2>1, <3>1, <3>2
    <3>3. CASE i >= n
      <4>1. i - (n - 1) \in 1..(Len(q) - n) /\ n + (i - (n - 1)) = i + 1
        BY <1>1, <1>2, <3>3
      <4> QED
        BY <1>1, <1>2, <2>1, <2>2, <3>1, <3>3, <4>1
    <3> QED
      BY <1>2, <3>2, <3>3
  <2> QED
    BY <2>4, <2>5
<1> HIDE DEF r
<1>7. DOMAIN r = 1..(Len(q) - 1)
  BY <1>6
<1>8. NoRepeat(r)
  <2> SUFFICES ASSUME NEW i \in 1..(Len(q) - 1), NEW j \in 1..(Len(q) - 1), i # j
               PROVE  r[i] # r[j]
    BY <1>7 DEF NoRepeat
  <2> DEFINE at(x) == IF x < n THEN x ELSE x + 1
  <2>1. at(i) \in DOMAIN q /\ at(j) \in DOMAIN q /\ at(i) # at(j)
    BY <1>1
  <2>2. r[i] = q[at(i)] /\ r[j] = q[at(j)]
    BY <1>6
  <2> QED
    BY <1>1, <2>1, <2>2 DEF NoRepeat
<1>9. ASSUME NEW x \in ToSet(r) PROVE x \in S \ {c}
  <2>1. PICK i \in 1..(Len(q) - 1) : x = r[i]
    BY <1>7, <1>9 DEF ToSet
  <2> DEFINE a == IF i < n THEN i ELSE i + 1
  <2>2. a \in 1..Len(q) /\ a # n /\ x = q[a]
    BY <1>1, <1>6, <2>1
  <2> QED
    BY <1>1, <1>2, <2>2 DEF NoRepeat
<1>10. ASSUME NEW x \in S \ {c} PROVE x \in ToSet(r)
  <2>1. PICK a \in 1..Len(q) : x = q[a]
    BY <1>1, <1>10
  <2> DEFINE i == IF a < n THEN a ELSE a - 1
  <2>2. i \in 1..(Len(q) - 1) /\ r[i] = x
    BY <1>1, <1>2, <1>6, <1>10, <2>1
  <2> QED
    BY <1>7, <2>2 DEF ToSet
<1>11. ToSet(r) = S \ {c}
  BY <1>9, <1>10
<1> QED
  BY <1>5, <1>6, <1>8, <1>11 DEF Lists

-----------------------------------------------------------------------------
(* What goroutines have to do. *)

LEMMA ShortSeqs ==
    ASSUME NEW S, NEW x \in S, NEW y \in S
    PROVE  /\ <<x>> \in Seq(S) /\ <<x>>[1] = x /\ Tail(<<x>>) = <<>> /\ Len(<<x>>) = 1
           /\ <<x, y>> \in Seq(S) /\ <<x, y>>[1] = x /\ Tail(<<x, y>>) = <<y>>
           /\ Len(<<x, y>>) = 2
           /\ <<>> \in Seq(S) /\ Len(<<>>) = 0
OBVIOUS

Job(ops) == ops[1] \in Ops /\ Tail(ops) \in Seq(Ops) /\ Len(Tail(ops)) <= 1

LEMMA OneOp == ASSUME NEW x \in Ops PROVE Job(<<x>>)
BY ShortSeqs DEF Job

LEMMA TwoOps == ASSUME NEW x \in Ops, NEW y \in Ops PROVE Job(<<x, y>>)
BY ShortSeqs DEF Job

LEMMA OpsOf ==
    /\ \A c \in CallKeys : Answer(c) \in Ops /\ End(c) \in Ops
    /\ \A c \in CallIDs, f \in Ends, t \in Ends : Pend("sip", c, f, t) \in Ops
    /\ \A a \in Addrs, f \in Ends, t \in Ends : Pend("iax", a, f, t) \in Ops
    /\ \A k \in ExtKeys, a \in Addrs :
        [op |-> "register", key |-> k, addr |-> a] \in Ops
<1>1. ASSUME NEW c \in CallKeys PROVE Answer(c) \in AnswerOps /\ End(c) \in EndOps
  BY DEF Answer, End, AnswerOps, EndOps
<1>2. ASSUME NEW c \in CallIDs, NEW f \in Ends, NEW t \in Ends
      PROVE  Pend("sip", c, f, t) \in SIPPends
  BY DEF Pend, SIPPends
<1>3. ASSUME NEW a \in Addrs, NEW f \in Ends, NEW t \in Ends
      PROVE  Pend("iax", a, f, t) \in IAXPends
  BY DEF Pend, IAXPends
<1>4. ASSUME NEW k \in ExtKeys, NEW a \in Addrs
      PROVE  [op |-> "register", key |-> k, addr |-> a] \in RegisterOps
  BY DEF RegisterOps
<1> QED
  BY <1>1, <1>2, <1>3, <1>4 DEF Ops, PendOps

LEMMA RegisterMeans ==
    ASSUME NEW protocol \in {"sip", "iax"}, NEW n \in Ends, NEW a \in Addrs,
           Register(protocol, n, a) # <<>>
    PROVE  Job(Register(protocol, n, a))
<1>1. n # None /\ n \in Numbers
  BY DEF Register, Ends
<1>2. <<protocol, n>> \in ExtKeys
  BY <1>1 DEF ExtKeys
<1>3. Register(protocol, n, a) = <<[op |-> "register", key |-> <<protocol, n>>, addr |-> a]>>
  BY <1>1 DEF Register
<1> QED
  BY <1>2, <1>3, OpsOf, OneOp

LEMMA Meanings ==
    ASSUME NEW ops \in (SIPMeanings \cup IAXMeanings) \ {<<>>}
    PROVE  Job(ops)
<1>1. CallIDs \subseteq CallKeys /\ Addrs \subseteq CallKeys
  BY DEF CallKeys
<1>2. \A c \in CallKeys : Job(<<Answer(c)>>) /\ Job(<<End(c)>>)
  BY OpsOf, OneOp
<1>3. CASE ops \in SIPMeanings
  <2>1. \/ \E n \in Ends, a \in Addrs : ops = Register("sip", n, a)
        \/ \E c \in CallIDs, f \in Ends, t \in Ends : ops = <<Pend("sip", c, f, t)>>
        \/ \E c \in CallIDs, f \in Ends, t \in Ends :
              ops = <<Pend("sip", c, f, t), Answer(c)>>
        \/ \E c \in CallIDs : ops = <<Answer(c)>>
        \/ \E c \in CallIDs : ops = <<End(c)>>
    BY <1>3 DEF SIPMeanings
  <2>2. \A c \in CallIDs, f \in Ends, t \in Ends :
            Job(<<Pend("sip", c, f, t)>>) /\ Job(<<Pend("sip", c, f, t), Answer(c)>>)
    BY <1>1, OpsOf, OneOp, TwoOps
  <2> QED
    BY <1>1, <1>2, <2>1, <2>2, RegisterMeans
<1>4. CASE ops \in IAXMeanings
  <2>1. \/ \E n \in Ends, a \in Addrs : ops = Register("iax", n, a)
        \/ \E a \in Addrs, f \in Ends, t \in Ends : ops = <<End(a), Pend("iax", a, f, t)>>
        \/ \E a \in Addrs : ops = <<Answer(a)>>
        \/ \E a \in Addrs : ops = <<End(a)>>
    BY <1>4 DEF IAXMeanings
  <2>2. \A a \in Addrs, f \in Ends, t \in Ends : Job(<<End(a), Pend("iax", a, f, t)>>)
    BY <1>1, OpsOf, TwoOps
  <2> QED
    BY <1>1, <1>2, <2>1, <2>2, RegisterMeans
<1> QED
  BY <1>3, <1>4

LEMMA DueIsJob ==
    ASSUME TInv, NEW g \in Watchers, NEW ops \in Due(g)
    PROVE  Job(ops)
<1>1. CASE rest[g] # <<>>
  <2>1. ops = rest[g] /\ rest[g] \in Seq(Ops) /\ Len(rest[g]) <= 1
    BY <1>1 DEF Due, TInv, Typed
  <2>2. ops[1] \in Ops /\ Tail(ops) \in Seq(Ops) /\ Len(Tail(ops)) = Len(ops) - 1
    BY <1>1, <2>1
  <2> QED
    BY <2>1, <2>2 DEF Job
<1>2. CASE rest[g] = <<>>
  BY <1>2, Meanings DEF Due
<1> QED
  BY <1>1, <1>2

(* What is done next, and what is left of the message.                     *)
LEMMA DoIt ==
    ASSUME TInv, NEW g \in Watchers, NEW ops \in Due(g), NEW op, Do(g, ops, op)
    PROVE  /\ rest' \in [Watchers -> Seq(Ops)] /\ \A h \in Watchers : Len(rest'[h]) <= 1
           /\ op = "register" => ops[1] \in RegisterOps
           /\ op = "pend" => ops[1] \in PendOps
           /\ op \in {"answer", "end"} => ops[1].call \in CallKeys
<1>1. /\ ops[1] \in Ops /\ Tail(ops) \in Seq(Ops) /\ Len(Tail(ops)) <= 1
  BY DueIsJob DEF Job
<1>2. ops[1].op = op /\ rest' = [rest EXCEPT ![g] = Tail(ops)]
  BY DEF Do
<1>3. rest \in [Watchers -> Seq(Ops)] /\ \A h \in Watchers : Len(rest[h]) <= 1
  BY DEF TInv, Typed
<1>4. rest' \in [Watchers -> Seq(Ops)] /\ \A h \in Watchers : Len(rest'[h]) <= 1
  BY <1>1, <1>2, <1>3
<1>5. /\ ops[1] \in RegisterOps => ops[1].op = "register"
      /\ ops[1] \in PendOps => ops[1].op = "pend"
      /\ ops[1] \in AnswerOps => ops[1].op = "answer" /\ ops[1].call \in CallKeys
      /\ ops[1] \in EndOps => ops[1].op = "end" /\ ops[1].call \in CallKeys
  BY DEF RegisterOps, PendOps, SIPPends, IAXPends, AnswerOps, EndOps
<1> QED
  BY <1>1, <1>2, <1>4, <1>5 DEF Ops

-----------------------------------------------------------------------------
(* Parties. *)

LEMMA PartiesAre ==
    ASSUME NEW keys, NEW protocol, NEW D, D \subseteq ExtKeys, AreParties(keys, protocol, D)
    PROVE  /\ keys \in Seq(ExtKeys) /\ keys \in BoundedSeq(ExtKeys, 2) /\ keys # <<>>
           /\ ToSet(keys) \subseteq D /\ ToSet(keys) # {}
           /\ \A k \in ToSet(keys) : k[1] = protocol
<1>1. CASE \E k \in D : k[1] = protocol /\ keys = <<k>>
  <2>1. PICK k \in D : k[1] = protocol /\ keys = <<k>>
    BY <1>1
  <2>2. keys \in [1..1 -> ExtKeys] /\ keys # <<>>
    BY <2>1
  <2>3. ToSet(keys) = {k}
    BY <2>1 DEF ToSet
  <2> QED
    BY <2>1, <2>2, <2>3 DEF BoundedSeq, SeqOf
<1>2. CASE \E j, k \in D : j # k /\ j[1] = protocol /\ k[1] = protocol /\ keys = <<j, k>>
  <2>1. PICK j \in D, k \in D : j # k /\ j[1] = protocol /\ k[1] = protocol /\ keys = <<j, k>>
    BY <1>2
  <2>2. keys \in [1..2 -> ExtKeys] /\ keys # <<>>
    BY <2>1
  <2>3. ToSet(keys) = {j, k}
    BY <2>1 DEF ToSet
  <2> QED
    BY <2>1, <2>2, <2>3 DEF BoundedSeq, SeqOf
<1> QED
  BY <1>1, <1>2 DEF AreParties

LEMMA TwoParties == ASSUME NEW j, NEW k PROVE <<j>> \o <<k>> = <<j, k>>
<1> DEFINE S == {j, k}
           q == <<j>> \o <<k>>
<1>1. <<j>> \in Seq(S) /\ <<k>> \in Seq(S) /\ <<j, k>> \in Seq(S)
  BY ShortSeqs
<1>2. Len(<<j>>) = 1 /\ Len(<<k>>) = 1 /\ <<j>>[1] = j /\ <<k>>[1] = k
  OBVIOUS
<1>3. q \in Seq(S) /\ Len(q) = 2 /\ q[1] = j /\ q[2] = k
  <2>1. q \in Seq(S) /\ Len(q) = 2
    BY <1>1, <1>2, ConcatProperties
  <2>2. q[1] = <<j>>[1] /\ q[2] = <<k>>[1]
    BY <1>1, <1>2
  <2> QED
    BY <1>2, <2>1, <2>2
<1> HIDE DEF q
<1>4. q = <<j, k>>
  BY <1>1, <1>3
<1> QED
  BY <1>4 DEF q

LEMMA PartiesSound ==
    ASSUME TInv, NEW m \in PendOps, Parties(m) # <<>>
    PROVE  AreParties(Parties(m), ProtocolOf(m.call), DOMAIN exts)
<1>1. m.protocol = ProtocolOf(m.call)
  BY KeyAssumption DEF PendOps, SIPPends, IAXPends, ProtocolOf
<1> DEFINE j == <<m.protocol, m.from>>
           k == <<m.protocol, m.to>>
<1>2. j[1] = m.protocol /\ k[1] = m.protocol /\ (m.from # m.to => j # k)
  OBVIOUS
<1> DEFINE f == Party(m, m.from)
           t == IF m.to = m.from THEN <<>> ELSE Party(m, m.to)
<1>3. f = <<>> \/ (f = <<j>> /\ j \in DOMAIN exts)
  BY DEF Party
<1>4. t = <<>> \/ (t = <<k>> /\ k \in DOMAIN exts /\ m.from # m.to)
  BY DEF Party
<1>5. Parties(m) = f \o t
  BY DEF Parties
<1> HIDE DEF f, t, j, k
<1>6. CASE f = <<>> /\ t = <<>>
  BY <1>5, <1>6
<1>7. CASE f = <<j>> /\ t = <<>> /\ j \in DOMAIN exts
  <2>1. Parties(m) = <<j>>
    BY <1>5, <1>7
  <2> QED
    BY <1>1, <1>2, <1>7, <2>1 DEF AreParties
<1>8. CASE f = <<>> /\ t = <<k>> /\ k \in DOMAIN exts
  <2>1. Parties(m) = <<k>>
    BY <1>5, <1>8
  <2> QED
    BY <1>1, <1>2, <1>8, <2>1 DEF AreParties
<1>9. CASE f = <<j>> /\ t = <<k>> /\ j \in DOMAIN exts /\ k \in DOMAIN exts /\ m.from # m.to
  <2>1. Parties(m) = <<j, k>>
    BY <1>5, <1>9, TwoParties
  <2> QED
    BY <1>1, <1>2, <1>9, <2>1 DEF AreParties
<1> QED
  BY <1>3, <1>4, <1>6, <1>7, <1>8, <1>9

LEMMA MoreRegistered ==
    ASSUME NEW keys, NEW protocol, NEW D, NEW E, D \subseteq E, AreParties(keys, protocol, D)
    PROVE  AreParties(keys, protocol, E)
BY DEF AreParties

(* Every party's record changes once, no other. *)
CreditIs(c, new) ==
    exts' = [k \in DOMAIN exts |-> IF k \in ToSet(calls[c].keys) THEN new[k] ELSE exts[k]]

LEMMA PartiesOf ==
    ASSUME TInv, NEW c \in DOMAIN calls
    PROVE  LET keys == calls[c].keys
           IN  \/ /\ Len(keys) = 1 /\ keys[1] \in DOMAIN exts /\ ToSet(keys) = {keys[1]}
               \/ /\ Len(keys) = 2 /\ keys[1] \in DOMAIN exts /\ keys[2] \in DOMAIN exts
                  /\ keys[1] # keys[2] /\ ToSet(keys) = {keys[1], keys[2]}
<1> DEFINE keys == calls[c].keys
<1>1. AreParties(keys, ProtocolOf(c), DOMAIN exts)
  BY DEF TInv, CallSound
<1>2. CASE \E k \in DOMAIN exts : keys = <<k>>
  BY <1>2 DEF ToSet
<1>3. CASE \E j, k \in DOMAIN exts : j # k /\ keys = <<j, k>>
  BY <1>3 DEF ToSet
<1> QED
  BY <1>1, <1>2, <1>3 DEF AreParties

(* A record that is changed, and then another one. *)
LEMMA CreditShape ==
    ASSUME TInv, NEW c \in DOMAIN calls, NEW new, NEW first,
           first = [exts EXCEPT ![calls[c].keys[1]] = new[calls[c].keys[1]]],
           exts' = IF Len(calls[c].keys) = 1 THEN first
                   ELSE [first EXCEPT ![calls[c].keys[2]] = new[calls[c].keys[2]]]
    PROVE  CreditIs(c, new)
<1> DEFINE keys == calls[c].keys
<1>1. exts = [k \in DOMAIN exts |-> exts[k]]
  BY DEF TInv, Typed
<1>2. CASE Len(keys) = 1 /\ keys[1] \in DOMAIN exts /\ ToSet(keys) = {keys[1]}
  BY <1>1, <1>2 DEF CreditIs
<1>3. CASE /\ Len(keys) = 2 /\ keys[1] \in DOMAIN exts /\ keys[2] \in DOMAIN exts
           /\ keys[1] # keys[2] /\ ToSet(keys) = {keys[1], keys[2]}
  BY <1>1, <1>3 DEF CreditIs
<1> QED
  BY <1>2, <1>3, PartiesOf

Other(c, first) == Len(calls[c].keys) # 1 => first[calls[c].keys[2]] = exts[calls[c].keys[2]]

LEMMA OtherIs ==
    ASSUME TInv, NEW c \in DOMAIN calls, NEW new,
           NEW first, first = [exts EXCEPT ![calls[c].keys[1]] = new]
    PROVE  Other(c, first)
<1>1. exts = [k \in DOMAIN exts |-> exts[k]]
  BY DEF TInv, Typed
<1> QED
  BY <1>1, PartiesOf DEF Other

LEMMA IsParty ==
    ASSUME TInv, NEW c \in DOMAIN calls
    PROVE  /\ calls[c].keys[1] \in DOMAIN exts
           /\ Len(calls[c].keys) # 1 => calls[c].keys[2] \in DOMAIN exts
BY PartiesOf

Counted == [k \in DOMAIN exts |-> CountCall(exts[k])]
Timed(t) == [k \in DOMAIN exts |-> [exts[k] EXCEPT !.callSeconds = @ + t]]
Bigger == [k \in DOMAIN exts |-> [exts[k] EXCEPT !.bytes = @ + 1]]

LEMMA CountIs ==
    ASSUME TInv, NEW c \in DOMAIN calls, exts' = AnsweredRecords(c)
    PROVE  CreditIs(c, Counted)
<1> DEFINE keys == calls[c].keys
           first == [exts EXCEPT ![keys[1]] = CountCall(exts[keys[1]])]
<1>1. exts' = IF Len(keys) = 1 THEN first
              ELSE [first EXCEPT ![keys[2]] = CountCall(first[keys[2]])]
  BY DEF AnsweredRecords, Credit
<1>2. first = [exts EXCEPT ![keys[1]] = Counted[keys[1]]]
  BY IsParty DEF Counted
<1>3. Other(c, first)
  BY OtherIs
<1> HIDE DEF first
<1>4. exts' = IF Len(keys) = 1 THEN first ELSE [first EXCEPT ![keys[2]] = Counted[keys[2]]]
  BY <1>1, <1>3, IsParty DEF Counted, Other
<1> QED
  BY <1>2, <1>4, CreditShape

LEMMA TimeIs ==
    ASSUME TInv, NEW c \in DOMAIN calls, NEW t,
           LET Talked(r) == [r EXCEPT !.callSeconds = @ + t] IN exts' = Credit(c, Talked)
    PROVE  CreditIs(c, Timed(t))
<1> DEFINE keys == calls[c].keys
           more(r) == [r EXCEPT !.callSeconds = @ + t]
           first == [exts EXCEPT ![keys[1]] = more(exts[keys[1]])]
<1>1. exts' = IF Len(keys) = 1 THEN first
              ELSE [first EXCEPT ![keys[2]] = more(first[keys[2]])]
  BY DEF Credit
<1>2. first = [exts EXCEPT ![keys[1]] = Timed(t)[keys[1]]]
  BY IsParty DEF Timed
<1>3. Other(c, first)
  BY OtherIs
<1> HIDE DEF first
<1>4. exts' = IF Len(keys) = 1 THEN first ELSE [first EXCEPT ![keys[2]] = Timed(t)[keys[2]]]
  BY <1>1, <1>3, IsParty DEF Timed, Other
<1> QED
  BY <1>2, <1>4, CreditShape

LEMMA MoreIs ==
    ASSUME TInv, NEW c \in DOMAIN calls,
           LET More(r) == [r EXCEPT !.bytes = @ + 1] IN exts' = Credit(c, More)
    PROVE  CreditIs(c, Bigger)
<1> DEFINE keys == calls[c].keys
           more(r) == [r EXCEPT !.bytes = @ + 1]
           first == [exts EXCEPT ![keys[1]] = more(exts[keys[1]])]
<1>1. exts' = IF Len(keys) = 1 THEN first
              ELSE [first EXCEPT ![keys[2]] = more(first[keys[2]])]
  BY DEF Credit
<1>2. first = [exts EXCEPT ![keys[1]] = Bigger[keys[1]]]
  BY IsParty DEF Bigger
<1>3. Other(c, first)
  BY OtherIs
<1> HIDE DEF first
<1>4. exts' = IF Len(keys) = 1 THEN first ELSE [first EXCEPT ![keys[2]] = Bigger[keys[2]]]
  BY <1>1, <1>3, IsParty DEF Bigger, Other
<1> QED
  BY <1>2, <1>4, CreditShape

(* What a credited record looks like: one field moves, the others stay.    *)
LEMMA RecordsCounted ==
    ASSUME TInv, NEW k \in DOMAIN exts
    PROVE  /\ exts[k] \in Records /\ exts[k].calls \in Nat
           /\ exts[k].callSeconds \in Nat /\ exts[k].bytes \in 0..carried
           /\ Counted[k] \in Records /\ Counted[k].bytes = exts[k].bytes
           /\ Counted[k].callSeconds = exts[k].callSeconds
           /\ Counted[k].calls = exts[k].calls + 1
<1>1. exts[k] \in Records /\ exts[k].bytes <= carried /\ carried \in Nat
  BY Bounds DEF TInv, Typed, BytesCountedOnce
<1> QED
  BY <1>1, Bounds DEF Records, Counted, CountCall

LEMMA RecordsTimed ==
    ASSUME TInv, NEW k \in DOMAIN exts, NEW t \in Nat
    PROVE  /\ Timed(t)[k] \in Records /\ Timed(t)[k].bytes = exts[k].bytes
           /\ Timed(t)[k].callSeconds = exts[k].callSeconds + t
           /\ Timed(t)[k].calls = exts[k].calls
<1>1. exts[k] \in Records
  BY RecordsCounted
<1> QED
  BY <1>1 DEF Records, Timed

LEMMA RecordsBigger ==
    ASSUME TInv, NEW k \in DOMAIN exts, carried < MaxBytes
    PROVE  /\ Bigger[k] \in Records /\ Bigger[k].bytes = exts[k].bytes + 1
           /\ Bigger[k].callSeconds = exts[k].callSeconds
           /\ Bigger[k].calls = exts[k].calls
<1>1. exts[k] \in Records /\ exts[k].bytes \in 0..carried /\ carried \in Nat
  BY RecordsCounted, Bounds DEF TInv, Typed
<1>2. exts[k].bytes + 1 \in 0..MaxBytes
  BY <1>1, Bounds
<1> QED
  BY <1>1, <1>2 DEF Records, Bigger

LEMMA Credited ==
    ASSUME NEW c, NEW new, CreditIs(c, new), TInv,
           \A k \in DOMAIN exts : new[k] \in Records
    PROVE  exts' \in [DOMAIN exts' -> Records] /\ DOMAIN exts' = DOMAIN exts
BY DEF TInv, Typed, CreditIs

-----------------------------------------------------------------------------
(* Calls that run. *)

LEMMA CallsFew ==
    ASSUME TInv
    PROVE  /\ IsFiniteSet(DOMAIN calls) /\ Cardinality(DOMAIN calls) \in Nat
           /\ Cardinality(DOMAIN calls) <= MaxCalls
<1>1. Lists(order, DOMAIN calls) /\ Len(order) <= MaxCalls
  BY DEF TInv, OrderSound
<1>2. IsFiniteSet(DOMAIN calls) /\ Cardinality(DOMAIN calls) <= Len(order)
      /\ Len(order) \in Nat
  BY <1>1, ListLen
<1> QED
  BY <1>1, <1>2, FS_CardinalityType, Bounds

LEMMA RunningFacts ==
    ASSUME TInv, NEW k \in DOMAIN exts
    PROVE  /\ Running(k) \subseteq DOMAIN calls /\ IsFiniteSet(Running(k))
           /\ Cardinality(Running(k)) \in Nat /\ Cardinality(Running(k)) <= MaxCalls
           /\ Cardinality(KeysFor(k[1])) \in Nat
           /\ Cardinality(Running(k)) <= Cardinality(KeysFor(k[1]))
           /\ \A c \in Running(k) : Talk[c] \in Nat
           /\ SumFunctionOnSet(Talk, Running(k)) \in Nat
<1>1. DOMAIN calls \subseteq CallKeys /\ DOMAIN exts \subseteq ExtKeys /\ now \in 0..MaxTime
      /\ calls \in [DOMAIN calls -> CallType]
  BY DEF TInv, Typed
<1>2. Running(k) \subseteq DOMAIN calls
  BY DEF Running
<1>3. Running(k) \subseteq KeysFor(k[1])
  <2> SUFFICES ASSUME NEW c \in Running(k) PROVE c \in KeysFor(k[1])
    OBVIOUS
  <2>1. c \in DOMAIN calls /\ k \in ToSet(calls[c].keys) /\ c \in CallKeys
    BY <1>1 DEF Running
  <2>2. k[1] = ProtocolOf(c)
    BY <1>1, <2>1, PartiesAre DEF TInv, CallSound
  <2> QED
    BY <2>1, <2>2 DEF ProtocolOf, KeysFor, CallKeys
<1>4. IsFiniteSet(DOMAIN calls) /\ Cardinality(DOMAIN calls) \in Nat
      /\ Cardinality(DOMAIN calls) <= MaxCalls
  BY CallsFew
<1>5. IsFiniteSet(KeysFor(k[1]))
  BY KeyAssumption DEF KeysFor
<1>6. IsFiniteSet(Running(k)) /\ Cardinality(Running(k)) \in Nat
      /\ Cardinality(Running(k)) <= Cardinality(DOMAIN calls)
      /\ Cardinality(Running(k)) <= Cardinality(KeysFor(k[1]))
      /\ Cardinality(KeysFor(k[1])) \in Nat
  BY <1>2, <1>3, <1>4, <1>5, FS_Subset, FS_CardinalityType
<1>7. \A c \in Running(k) : Talk[c] \in Nat
  <2> SUFFICES ASSUME NEW c \in Running(k) PROVE Talk[c] \in Nat
    OBVIOUS
  <2>1. c \in DOMAIN calls /\ Answered(c)
    BY DEF Running
  <2>2. calls[c].started <= now /\ calls[c].started \in 0..NotYet
    BY <1>1, <2>1 DEF TInv, CallSound, CallType
  <2>3. now - calls[c].started \in Nat
    BY <1>1, <2>2, Bounds
  <2> QED
    BY <2>1, <2>3 DEF Talk
<1>8. SumFunctionOnSet(Talk, Running(k)) \in Nat
  <2> DEFINE f == Talk
             S == Running(k)
  <2>1. IsFiniteSet(S) /\ \A c \in S : f[c] \in Nat
    BY <1>6, <1>7
  <2> HIDE DEF f, S
  <2>2. SumFunctionOnSet(f, S) \in Nat
    BY <2>1, SumNat
  <2> QED
    BY <2>2 DEF f, S
<1> QED
  BY <1>2, <1>4, <1>6, <1>7, <1>8, Bounds

(* A part of a sum of what is not negative. *)
LEMMA SumPart ==
    ASSUME NEW S, IsFiniteSet(S), NEW f, \A x \in S : f[x] \in Nat, NEW y
    PROVE  /\ SumFunctionOnSet(f, S \ {y}) \in Nat /\ SumFunctionOnSet(f, S) \in Nat
           /\ SumFunctionOnSet(f, S \ {y}) <= SumFunctionOnSet(f, S)
<1>1. IsFiniteSet(S \ {y})
  BY FS_Subset
<1>2. SumFunctionOnSet(f, S \ {y}) \in Nat /\ SumFunctionOnSet(f, S) \in Nat
  BY <1>1, SumNat
<1>3. CASE y \in S
  BY <1>2, <1>3, SumWithout
<1>4. CASE y \notin S
  <2>1. S \ {y} = S
    BY <1>4
  <2> QED
    BY <1>2, <2>1
<1> QED
  BY <1>2, <1>3, <1>4

-----------------------------------------------------------------------------
(* Types, limits and parties, step by step. *)

LEMMA TypedRest ==
    ASSUME TInv, NEW g \in Watchers, NEW ops \in Due(g), NEW op, Do(g, ops, op),
           UNCHANGED <<exts, peers, calls, order, now, carried>>
    PROVE  TInv'
<1>1. rest' \in [Watchers -> Seq(Ops)] /\ \A h \in Watchers : Len(rest'[h]) <= 1
  BY DoIt
<1>2. Typed'
  BY <1>1 DEF TInv, Typed
<1>3. OrderSound' /\ BytesCountedOnce'
  BY DEF TInv, OrderSound, BytesCountedOnce
<1>4. \A c \in DOMAIN calls' : CallSound(c)'
  BY DEF TInv, CallSound, Answered
<1> QED
  BY <1>2, <1>3, <1>4 DEF TInv

LEMMA LearnIs ==
    ASSUME TInv, NEW a \in Addrs, NEW k, NEW D, DOMAIN exts \subseteq D, k \in D
    PROVE  LET new == Learn(a, k)
           IN  /\ new \in [DOMAIN new -> D] /\ DOMAIN new \subseteq Addrs
               /\ Cardinality(DOMAIN new) <= MaxPeers
<1> DEFINE kept == IF Cardinality(DOMAIN peers) >= MaxPeers THEN {} ELSE DOMAIN peers
<1>1. /\ peers \in [DOMAIN peers -> DOMAIN exts] /\ DOMAIN peers \subseteq Addrs
      /\ Cardinality(DOMAIN peers) <= MaxPeers
  BY DEF TInv, Typed
<1>2. Learn(a, k) = [b \in kept \cup {a} |-> IF b = a THEN k ELSE peers[b]]
  BY DEF Learn
<1>3. kept \subseteq DOMAIN peers
  OBVIOUS
<1>4. IsFiniteSet(kept) /\ Cardinality(kept) \in Nat /\ Cardinality(kept) < MaxPeers
  <2>1. IsFiniteSet(DOMAIN peers)
    BY <1>1, FiniteKeys
  <2>2. CASE Cardinality(DOMAIN peers) >= MaxPeers
    BY <2>2, FS_EmptySet, Bounds
  <2>3. CASE ~(Cardinality(DOMAIN peers) >= MaxPeers)
    BY <2>1, <2>3, FS_CardinalityType, Bounds
  <2> QED
    BY <2>2, <2>3
<1>5. Cardinality(kept \cup {a}) <= MaxPeers
  <2> HIDE DEF kept
  <2>1. Cardinality(kept \cup {a}) <= Cardinality(kept) + 1
        /\ Cardinality(kept \cup {a}) \in Nat
    <3>1. /\ IsFiniteSet(kept \cup {a})
          /\ Cardinality(kept \cup {a}) = IF a \in kept THEN Cardinality(kept)
                                          ELSE Cardinality(kept) + 1
      BY <1>4, FS_AddElement
    <3> QED
      BY <1>4, <3>1
  <2> QED
    BY <1>4, <2>1, Bounds
<1>6. kept \cup {a} \subseteq Addrs
  BY <1>1, <1>3
<1>7. \A b \in kept \cup {a} : (IF b = a THEN k ELSE peers[b]) \in D
  BY <1>1, <1>3
<1> HIDE DEF kept
<1> QED
  BY <1>2, <1>5, <1>6, <1>7

LEMMA RegisterShape ==
    ASSUME TInv, NEW g \in Watchers, NEW ops \in Due(g), MarkRegister(g, ops)
    PROVE  /\ DOMAIN exts \subseteq DOMAIN exts' /\ DOMAIN exts' \subseteq ExtKeys
           /\ \A k \in DOMAIN exts : exts'[k] = exts[k]
           /\ \A k \in DOMAIN exts' \ DOMAIN exts : exts'[k] = NewRecord
           /\ exts' = [k \in DOMAIN exts' |-> exts'[k]]
           /\ peers' = Learn(ops[1].addr, ops[1].key) /\ ops[1].addr \in Addrs
           /\ ops[1].key \in DOMAIN exts'
           /\ UNCHANGED <<calls, order, now, carried, over>>
           /\ Do(g, ops, "register")
<1>1. Do(g, ops, "register") /\ UNCHANGED <<calls, order, now, carried, over>>
      /\ exts' = [k \in DOMAIN exts \cup {ops[1].key} |->
                    IF k \in DOMAIN exts THEN exts[k] ELSE NewRecord]
      /\ peers' = Learn(ops[1].addr, ops[1].key)
  BY DEF MarkRegister
<1>2. ops[1] \in RegisterOps
  BY <1>1, DoIt
<1>3. ops[1].key \in ExtKeys /\ ops[1].addr \in Addrs
  BY <1>2 DEF RegisterOps
<1>4. DOMAIN exts \subseteq ExtKeys
  BY DEF TInv, Typed
<1> QED
  BY <1>1, <1>3, <1>4

LEMMA TypedRegister ==
    ASSUME TInv, NEW g \in Watchers, NEW ops \in Due(g), MarkRegister(g, ops)
    PROVE  TInv'
<1>1. NewRecord \in Records /\ NewRecord.bytes = 0
  BY Bounds DEF NewRecord, Records
<1>2. exts \in [DOMAIN exts -> Records] /\ carried \in Nat
  BY DEF TInv, Typed
<1>3. exts' \in [DOMAIN exts' -> Records] /\ DOMAIN exts' \subseteq ExtKeys
  <2>1. \A k \in DOMAIN exts' : exts'[k] \in Records
    BY <1>1, <1>2, RegisterShape
  <2> QED
    BY <2>1, RegisterShape
<1>4. /\ peers' \in [DOMAIN peers' -> DOMAIN exts'] /\ DOMAIN peers' \subseteq Addrs
      /\ Cardinality(DOMAIN peers') <= MaxPeers
  BY RegisterShape, LearnIs
<1>5. rest' \in [Watchers -> Seq(Ops)] /\ \A h \in Watchers : Len(rest'[h]) <= 1
  BY RegisterShape, DoIt
<1>6. Typed'
  BY <1>3, <1>4, <1>5, RegisterShape DEF TInv, Typed
<1>7. OrderSound'
  BY RegisterShape DEF TInv, OrderSound
<1>8. BytesCountedOnce'
  <2> SUFFICES ASSUME NEW k \in DOMAIN exts' PROVE exts'[k].bytes <= carried'
    BY DEF BytesCountedOnce
  <2>1. CASE k \in DOMAIN exts
    BY <2>1, RegisterShape DEF TInv, BytesCountedOnce
  <2>2. CASE k \notin DOMAIN exts
    BY <1>1, <1>2, <2>2, RegisterShape
  <2> QED
    BY <2>1, <2>2
<1>9. ASSUME NEW c \in DOMAIN calls' PROVE CallSound(c)'
  <2>1. calls' = calls /\ now' = now /\ DOMAIN exts \subseteq DOMAIN exts' /\ CallSound(c)
    BY <1>9, RegisterShape DEF TInv
  <2>2. AreParties(calls[c].keys, ProtocolOf(c), DOMAIN exts')
    BY <2>1, MoreRegistered DEF CallSound
  <2> QED
    BY <2>1, <2>2 DEF CallSound, Answered
<1> QED
  BY <1>6, <1>7, <1>8, <1>9 DEF TInv

(* The call that is new, and perhaps one that has to go.                   *)
Registers(c, gone, keys) ==
    /\ AreParties(keys, ProtocolOf(c), DOMAIN exts)
    /\ Lists(order', DOMAIN calls') /\ Len(order') <= MaxCalls
    /\ \/ DOMAIN calls' = DOMAIN calls \cup {c} /\ gone = c
       \/ DOMAIN calls' = (DOMAIN calls \cup {c}) \ {gone}
    /\ calls' = [d \in DOMAIN calls' |->
                    IF d = c THEN [keys |-> keys, started |-> NotYet] ELSE calls[d]]

LEMMA PendShape ==
    ASSUME TInv, NEW g \in Watchers, NEW ops \in Due(g), PendCall(g, ops)
    PROVE  /\ Do(g, ops, "pend") /\ UNCHANGED <<exts, peers, now, carried>> /\ NoteOver
           /\ \/ UNCHANGED <<calls, order>>
              \/ \E c \in CallKeys \ DOMAIN calls, gone \in CallKeys :
                    \E keys : Registers(c, gone, keys)
<1>1. Do(g, ops, "pend") /\ UNCHANGED <<exts, peers, now, carried>> /\ NoteOver
  BY DEF PendCall
<1> DEFINE m == ops[1]
           c == m.call
           app == Append(order, c)
           kept == Prune(app)
           call == [keys |-> Parties(m), started |-> NotYet]
<1>2. m \in PendOps
  BY <1>1, DoIt
<1>3. c \in CallKeys
  BY <1>2 DEF PendOps, SIPPends, IAXPends, CallKeys
<1>4. CASE ~(IsNew(c) /\ call.keys # <<>>)
  BY <1>1, <1>4 DEF PendCall
<1>5. CASE IsNew(c) /\ call.keys # <<>>
  <2>1. /\ calls' = [d \in ToSet(kept) |-> IF d = c THEN call ELSE calls[d]]
        /\ order' = kept
    BY <1>5 DEF PendCall
  <2>2. c \in CallKeys \ DOMAIN calls
    BY <1>3, <1>5 DEF IsNew
  <2>3. AreParties(Parties(m), ProtocolOf(c), DOMAIN exts)
    BY <1>2, <1>5, PartiesSound
  <2>4. Lists(order, DOMAIN calls) /\ Len(order) <= MaxCalls
    BY DEF TInv, OrderSound
  <2>5. Len(order) \in Nat
    BY <2>4, ListLen
  <2> HIDE DEF c
  <2>6. Lists(app, DOMAIN calls \cup {c}) /\ Len(app) = Len(order) + 1
    BY <2>2, <2>4, ListAppend
  <2>7. CASE Len(app) > MaxCalls
    <3>1. app # <<>> /\ kept = Tail(app)
      <4>1. Len(app) > 0 /\ kept = Tail(app)
        BY <2>5, <2>6, <2>7, Bounds DEF Prune
      <4>2. Len(<<>>) = 0
        OBVIOUS
      <4> HIDE DEF app, kept
      <4> QED
        BY <4>1, <4>2
    <3> HIDE DEF app
    <3>2. Lists(kept, (DOMAIN calls \cup {c}) \ {Head(app)}) /\ Len(kept) = Len(app) - 1
          /\ Head(app) \in DOMAIN calls \cup {c}
      BY <2>6, <3>1, ListTail
    <3>3. Len(kept) <= MaxCalls
      BY <2>4, <2>5, <2>6, <3>2, Bounds
    <3>4. DOMAIN calls' = ToSet(kept) /\ ToSet(kept) = (DOMAIN calls \cup {c}) \ {Head(app)}
      BY <2>1, <3>2 DEF Lists
    <3>5. Head(app) \in CallKeys
      BY <2>2, <3>2 DEF TInv, Typed
    <3> HIDE DEF kept
    <3> QED
      <4>1. Registers(c, Head(app), Parties(m))
        BY <2>1, <2>2, <2>3, <3>2, <3>3, <3>4 DEF Registers
      <4> QED
        BY <1>1, <2>2, <3>5, <4>1
  <2>8. CASE ~(Len(app) > MaxCalls)
    <3>1. kept = app
      BY <2>8 DEF Prune
    <3>2. Len(kept) <= MaxCalls /\ Lists(kept, DOMAIN calls \cup {c})
      BY <2>5, <2>6, <2>8, <3>1, Bounds
    <3>3. DOMAIN calls' = ToSet(kept) /\ ToSet(kept) = DOMAIN calls \cup {c}
      BY <2>1, <3>2 DEF Lists
    <3> HIDE DEF kept
    <3>4. Registers(c, c, Parties(m))
      BY <2>1, <2>2, <2>3, <3>2, <3>3 DEF Registers
    <3> QED
      BY <1>1, <2>2, <3>4
  <2> QED
    BY <2>7, <2>8
<1> QED
  BY <1>4, <1>5

LEMMA TypedPend ==
    ASSUME TInv, NEW g \in Watchers, NEW ops \in Due(g), PendCall(g, ops)
    PROVE  TInv'
<1>1. CASE UNCHANGED <<calls, order>>
  BY <1>1, PendShape, TypedRest
<1>2. CASE ~UNCHANGED <<calls, order>>
  <2>0. PICK c \in CallKeys \ DOMAIN calls, gone \in CallKeys :
            \E keys : Registers(c, gone, keys)
    BY <1>2, PendShape
  <2>1. PICK keys :
            /\ AreParties(keys, ProtocolOf(c), DOMAIN exts)
            /\ Lists(order', DOMAIN calls') /\ Len(order') <= MaxCalls
            /\ DOMAIN calls' \subseteq DOMAIN calls \cup {c}
            /\ calls' = [d \in DOMAIN calls' |->
                            IF d = c THEN [keys |-> keys, started |-> NotYet]
                            ELSE calls[d]]
    BY <2>0 DEF Registers
  <2>2. UNCHANGED <<exts, peers, now, carried>>
    BY PendShape
  <2>3. rest' \in [Watchers -> Seq(Ops)] /\ \A h \in Watchers : Len(rest'[h]) <= 1
    BY PendShape, DoIt
  <2>4. calls \in [DOMAIN calls -> CallType] /\ DOMAIN calls \subseteq CallKeys
    BY DEF TInv, Typed
  <2>5. [keys |-> keys, started |-> NotYet] \in CallType
    BY <2>1, PartiesAre, Bounds DEF CallType, TInv, Typed
  <2>6. calls' \in [DOMAIN calls' -> CallType] /\ DOMAIN calls' \subseteq CallKeys
    <3>1. \A d \in DOMAIN calls' : calls'[d] \in CallType
      BY <2>1, <2>4, <2>5
    <3> QED
      BY <2>1, <2>4, <3>1
  <2>7. Typed'
    BY <2>2, <2>3, <2>6 DEF TInv, Typed
  <2>8. OrderSound' /\ BytesCountedOnce'
    BY <2>1, <2>2 DEF TInv, OrderSound, BytesCountedOnce
  <2>9. ASSUME NEW d \in DOMAIN calls' PROVE CallSound(d)'
    <3>1. CASE d = c
      BY <2>1, <2>2, <3>1 DEF CallSound, Answered
    <3>2. CASE d # c
      BY <2>1, <2>2, <3>2 DEF TInv, CallSound, Answered
    <3> QED
      BY <3>1, <3>2
  <2> QED
    BY <2>7, <2>8, <2>9 DEF TInv
<1> QED
  BY <1>1, <1>2

LEMMA AnswerShape ==
    ASSUME TInv, NEW g \in Watchers, NEW ops \in Due(g), AnswerCall(g, ops)
    PROVE  /\ Do(g, ops, "answer") /\ UNCHANGED <<peers, order, now, carried, over>>
           /\ \/ UNCHANGED <<calls, exts>>
              \/ \E c \in DOMAIN calls :
                    /\ ~Answered(c) /\ calls' = [calls EXCEPT ![c].started = now]
                    /\ CreditIs(c, Counted)
<1>1. Do(g, ops, "answer") /\ UNCHANGED <<peers, order, now, carried, over>>
  BY DEF AnswerCall
<1> DEFINE c == ops[1].call
<1>2. CASE c \in DOMAIN calls /\ ~Answered(c)
  <2>1. calls' = [calls EXCEPT ![c].started = now] /\ exts' = AnsweredRecords(c)
    BY <1>2 DEF AnswerCall
  <2>2. CreditIs(c, Counted)
    BY <1>2, <2>1, CountIs
  <2> QED
    BY <1>1, <1>2, <2>1, <2>2
<1>3. CASE ~(c \in DOMAIN calls /\ ~Answered(c))
  BY <1>1, <1>3 DEF AnswerCall
<1> QED
  BY <1>2, <1>3

LEMMA TypedAnswer ==
    ASSUME TInv, NEW g \in Watchers, NEW ops \in Due(g), AnswerCall(g, ops)
    PROVE  TInv'
<1>1. CASE UNCHANGED <<calls, exts>>
  BY <1>1, AnswerShape, TypedRest
<1>2. CASE ~UNCHANGED <<calls, exts>>
  <2>1. PICK c \in DOMAIN calls : /\ calls' = [calls EXCEPT ![c].started = now]
                                  /\ CreditIs(c, Counted)
    BY <1>2, AnswerShape
  <2>2. UNCHANGED <<peers, order, now, carried>>
    BY AnswerShape
  <2>3. rest' \in [Watchers -> Seq(Ops)] /\ \A h \in Watchers : Len(rest'[h]) <= 1
    BY AnswerShape, DoIt
  <2>4. calls \in [DOMAIN calls -> CallType] /\ now \in 0..MaxTime
    BY DEF TInv, Typed
  <2>5. exts' \in [DOMAIN exts' -> Records] /\ DOMAIN exts' = DOMAIN exts
    BY <2>1, Credited, RecordsCounted
  <2>6. /\ calls' \in [DOMAIN calls' -> CallType] /\ DOMAIN calls' = DOMAIN calls
        /\ \A d \in DOMAIN calls : calls'[d].keys = calls[d].keys
        /\ calls'[c].started = now /\ \A d \in DOMAIN calls \ {c} : calls'[d] = calls[d]
    <3> DEFINE n == [calls[c] EXCEPT !.started = now]
    <3>1. now \in 0..NotYet /\ calls[c] \in CallType
      BY <2>4, Bounds
    <3>2. n \in CallType /\ n.keys = calls[c].keys /\ n.started = now
      BY <3>1 DEF CallType
    <3>3. calls' = [calls EXCEPT ![c] = n]
      BY <2>1
    <3> HIDE DEF n
    <3> QED
      BY <2>4, <3>2, <3>3
  <2>7. Typed'
    BY <2>2, <2>3, <2>5, <2>6 DEF TInv, Typed
  <2>8. OrderSound'
    BY <2>2, <2>6 DEF TInv, OrderSound
  <2>9. BytesCountedOnce'
    <3> SUFFICES ASSUME NEW k \in DOMAIN exts PROVE exts'[k].bytes <= carried'
      BY <2>5 DEF BytesCountedOnce
    <3>1. exts'[k].bytes = exts[k].bytes
      BY <2>1, RecordsCounted DEF CreditIs
    <3> QED
      BY <2>2, <3>1 DEF TInv, BytesCountedOnce
  <2>10. ASSUME NEW d \in DOMAIN calls' PROVE CallSound(d)'
    <3>1. CallSound(d) /\ d \in DOMAIN calls
      BY <2>6 DEF TInv
    <3>2. CASE d = c
      BY <2>2, <2>4, <2>5, <2>6, <3>1, <3>2 DEF CallSound
    <3>3. CASE d # c
      BY <2>2, <2>5, <2>6, <3>1, <3>3 DEF CallSound, Answered
    <3> QED
      BY <3>2, <3>3
  <2> QED
    BY <2>7, <2>8, <2>9, <2>10 DEF TInv
<1> QED
  BY <1>1, <1>2

LEMMA EndShape ==
    ASSUME TInv, NEW g \in Watchers, NEW ops \in Due(g), EndCall(g, ops)
    PROVE  /\ Do(g, ops, "end") /\ UNCHANGED <<peers, now, carried>> /\ NoteOver
           /\ \/ UNCHANGED <<calls, order, exts>>
              \/ \E c \in DOMAIN calls :
                    /\ calls' = [d \in DOMAIN calls \ {c} |-> calls[d]]
                    /\ Lists(order', DOMAIN calls \ {c}) /\ Len(order') <= MaxCalls
                    /\ \/ ~Answered(c) /\ exts' = exts
                       \/ /\ Answered(c) /\ Talk[c] \in Nat
                          /\ CreditIs(c, Timed(Talk[c]))
<1>1. Do(g, ops, "end") /\ UNCHANGED <<peers, now, carried>> /\ NoteOver
  BY DEF EndCall
<1> DEFINE c == ops[1].call
           more(r) == [r EXCEPT !.callSeconds = @ + (now - calls[c].started)]
<1>2. CASE c \notin DOMAIN calls
  BY <1>1, <1>2 DEF EndCall
<1>3. CASE c \in DOMAIN calls
  <2>1. /\ Delete(c)
        /\ exts' = IF Answered(c) THEN Credit(c, more) ELSE exts
    BY <1>3 DEF EndCall
  <2> DEFINE t == now - calls[c].started
  <2>2. Lists(order, DOMAIN calls) /\ Len(order) <= MaxCalls
    BY DEF TInv, OrderSound
  <2>3. Len(order) \in Nat
    BY <2>2, ListLen
  <2>4. Lists(RemoveFirst(order, c), DOMAIN calls \ {c})
        /\ Len(RemoveFirst(order, c)) = Len(order) - 1
    BY <1>3, <2>2, ListWithout
  <2>5. /\ calls' = [d \in DOMAIN calls \ {c} |-> calls[d]]
        /\ Lists(order', DOMAIN calls \ {c}) /\ Len(order') <= MaxCalls
    BY <2>1, <2>2, <2>3, <2>4, Bounds DEF Delete
  <2>6. CASE ~Answered(c)
    BY <1>1, <1>3, <2>1, <2>5, <2>6
  <2>7. CASE Answered(c)
    <3>1. Talk[c] = t
      BY <1>3 DEF Talk
    <3>2. t \in Nat
      <4>1. calls[c].started <= now /\ calls[c].started \in 0..NotYet /\ now \in 0..MaxTime
        BY <1>3, <2>7 DEF TInv, CallSound, Typed, CallType
      <4> QED
        BY <4>1, Bounds
    <3>3. exts' = Credit(c, more)
      BY <2>1, <2>7
    <3>4. CreditIs(c, Timed(t))
      BY <1>3, <3>3, TimeIs
    <3> QED
      BY <1>1, <1>3, <2>5, <2>7, <3>1, <3>2, <3>4
  <2> QED
    BY <2>6, <2>7
<1> QED
  BY <1>2, <1>3

LEMMA TypedEnd ==
    ASSUME TInv, NEW g \in Watchers, NEW ops \in Due(g), EndCall(g, ops)
    PROVE  TInv'
<1>1. CASE UNCHANGED <<calls, order, exts>>
  BY <1>1, EndShape, TypedRest
<1>2. CASE ~UNCHANGED <<calls, order, exts>>
  <2>1. PICK c \in DOMAIN calls :
            /\ calls' = [d \in DOMAIN calls \ {c} |-> calls[d]]
            /\ Lists(order', DOMAIN calls \ {c}) /\ Len(order') <= MaxCalls
            /\ \/ exts' = exts
               \/ Talk[c] \in Nat /\ CreditIs(c, Timed(Talk[c]))
    BY <1>2, EndShape
  <2>2. UNCHANGED <<peers, now, carried>>
    BY EndShape
  <2>3. rest' \in [Watchers -> Seq(Ops)] /\ \A h \in Watchers : Len(rest'[h]) <= 1
    BY EndShape, DoIt
  <2>4. /\ exts' \in [DOMAIN exts' -> Records] /\ DOMAIN exts' = DOMAIN exts
        /\ \A k \in DOMAIN exts : exts'[k].bytes = exts[k].bytes
    <3>1. CASE exts' = exts
      BY <3>1 DEF TInv, Typed
    <3>2. CASE Talk[c] \in Nat /\ CreditIs(c, Timed(Talk[c]))
      <4> DEFINE t == Talk[c]
      <4>1. t \in Nat /\ CreditIs(c, Timed(t))
        BY <3>2
      <4> HIDE DEF t
      <4>2. \A k \in DOMAIN exts : Timed(t)[k] \in Records /\ Timed(t)[k].bytes = exts[k].bytes
        BY <4>1, RecordsTimed
      <4>3. exts' \in [DOMAIN exts' -> Records] /\ DOMAIN exts' = DOMAIN exts
        BY <4>1, <4>2, Credited
      <4> QED
        BY <4>1, <4>2, <4>3 DEF CreditIs
    <3> QED
      BY <2>1, <3>1, <3>2
  <2>5. DOMAIN calls' = DOMAIN calls \ {c} /\ \A d \in DOMAIN calls' : calls'[d] = calls[d]
    BY <2>1
  <2>6. calls' \in [DOMAIN calls' -> CallType]
    BY <2>1 DEF TInv, Typed
  <2>7. Typed'
    BY <2>2, <2>3, <2>4, <2>5, <2>6 DEF TInv, Typed
  <2>8. OrderSound' /\ BytesCountedOnce'
    BY <2>1, <2>2, <2>4, <2>5 DEF TInv, OrderSound, BytesCountedOnce
  <2>9. ASSUME NEW d \in DOMAIN calls' PROVE CallSound(d)'
    BY <2>2, <2>4, <2>5 DEF TInv, CallSound, Answered
  <2> QED
    BY <2>7, <2>8, <2>9 DEF TInv
<1> QED
  BY <1>1, <1>2

LEMMA BytesShape ==
    ASSUME TInv, AddBytes
    PROVE  /\ UNCHANGED <<peers, calls, order, rest, now, over>>
           /\ carried' = carried + 1 /\ carried' \in 0..MaxBytes
           /\ exts' \in [DOMAIN exts' -> Records] /\ DOMAIN exts' = DOMAIN exts
           /\ \A k \in DOMAIN exts : /\ exts'[k].bytes <= carried'
                                     /\ exts'[k].calls = exts[k].calls
                                     /\ exts'[k].callSeconds = exts[k].callSeconds
<1>1. /\ UNCHANGED <<peers, calls, order, rest, now, over>>
      /\ carried' = carried + 1 /\ carried < MaxBytes
  BY DEF AddBytes
<1>2. carried \in 0..MaxBytes /\ carried' \in 0..MaxBytes /\ carried \in Nat
  BY <1>1, Bounds DEF TInv, Typed
<1>3. exts \in [DOMAIN exts -> Records] /\ \A k \in DOMAIN exts : exts[k].bytes \in 0..carried
  BY RecordsCounted DEF TInv, Typed
<1>4. CASE exts' = exts
  BY <1>1, <1>2, <1>3, <1>4
<1>5. ASSUME NEW K \in SUBSET DOMAIN exts,
             exts' = [k \in DOMAIN exts |-> IF k \in K THEN Bigger[k] ELSE exts[k]]
      PROVE  /\ exts' \in [DOMAIN exts' -> Records] /\ DOMAIN exts' = DOMAIN exts
             /\ \A k \in DOMAIN exts : /\ exts'[k].bytes <= carried'
                                       /\ exts'[k].calls = exts[k].calls
                                       /\ exts'[k].callSeconds = exts[k].callSeconds
  <2>1. \A k \in DOMAIN exts :
          /\ Bigger[k] \in Records /\ Bigger[k].bytes = exts[k].bytes + 1
          /\ Bigger[k].callSeconds = exts[k].callSeconds /\ Bigger[k].calls = exts[k].calls
    BY <1>1, RecordsBigger
  <2>2. \A k \in DOMAIN exts : exts[k].bytes + 1 <= carried' /\ exts[k].bytes <= carried'
    BY <1>1, <1>2, <1>3
  <2> QED
    BY <1>3, <1>5, <2>1, <2>2
<1>6. ASSUME NEW a \in DOMAIN peers,
             exts' = [exts EXCEPT ![peers[a]] = [exts[peers[a]] EXCEPT !.bytes = @ + 1]]
      PROVE  exts' = [k \in DOMAIN exts |-> IF k \in {peers[a]} THEN Bigger[k] ELSE exts[k]]
  BY <1>3, <1>6 DEF Bigger
<1>7. ASSUME NEW a \in DOMAIN peers PROVE peers[a] \in DOMAIN exts
  BY DEF TInv, Typed
<1>8. ASSUME NEW c \in DOMAIN calls,
             LET More(r) == [r EXCEPT !.bytes = @ + 1] IN exts' = Credit(c, More)
      PROVE  /\ exts' = [k \in DOMAIN exts |-> IF k \in ToSet(calls[c].keys) THEN Bigger[k]
                                               ELSE exts[k]]
             /\ ToSet(calls[c].keys) \subseteq DOMAIN exts
  <2>1. CreditIs(c, Bigger)
    BY <1>8, MoreIs
  <2> QED
    BY <2>1, PartiesOf DEF CreditIs
<1>9. \/ exts' = exts
      \/ \E a \in DOMAIN peers :
            exts' = [exts EXCEPT ![peers[a]] = [exts[peers[a]] EXCEPT !.bytes = @ + 1]]
      \/ \E c \in DOMAIN calls :
            LET More(r) == [r EXCEPT !.bytes = @ + 1] IN exts' = Credit(c, More)
  BY DEF AddBytes
<1>10. CASE \E a \in DOMAIN peers :
            exts' = [exts EXCEPT ![peers[a]] = [exts[peers[a]] EXCEPT !.bytes = @ + 1]]
  <2>1. PICK a \in DOMAIN peers :
            exts' = [exts EXCEPT ![peers[a]] = [exts[peers[a]] EXCEPT !.bytes = @ + 1]]
    BY <1>10
  <2>2. {peers[a]} \in SUBSET DOMAIN exts
    BY <1>7
  <2>3. exts' = [k \in DOMAIN exts |-> IF k \in {peers[a]} THEN Bigger[k] ELSE exts[k]]
    BY <1>6, <2>1
  <2> QED
    BY <1>1, <1>2, <1>5, <2>2, <2>3
<1>11. CASE \E c \in DOMAIN calls :
            LET More(r) == [r EXCEPT !.bytes = @ + 1] IN exts' = Credit(c, More)
  BY <1>1, <1>2, <1>5, <1>8, <1>11
<1> QED
  BY <1>4, <1>9, <1>10, <1>11

LEMMA TypedBytes ==
    ASSUME TInv, AddBytes
    PROVE  TInv'
<1>1. Typed'
  BY BytesShape DEF TInv, Typed
<1>2. OrderSound'
  BY BytesShape DEF TInv, OrderSound
<1>3. BytesCountedOnce'
  BY BytesShape DEF BytesCountedOnce
<1>4. ASSUME NEW c \in DOMAIN calls' PROVE CallSound(c)'
  BY <1>4, BytesShape DEF TInv, CallSound, Answered
<1> QED
  BY <1>1, <1>2, <1>3, <1>4 DEF TInv

LEMMA TypedTick ==
    ASSUME TInv, Tick
    PROVE  TInv'
<1>1. UNCHANGED <<exts, peers, calls, order, rest, carried>> /\ now' = now + 1
      /\ now < MaxTime /\ now \in Nat
  BY DEF Tick, TInv, Typed
<1>2. Typed'
  BY <1>1, Bounds DEF TInv, Typed
<1>3. OrderSound' /\ BytesCountedOnce'
  BY <1>1 DEF TInv, OrderSound, BytesCountedOnce
<1>4. ASSUME NEW c \in DOMAIN calls' PROVE CallSound(c)'
  <2>1. c \in DOMAIN calls /\ CallSound(c) /\ calls \in [DOMAIN calls -> CallType]
    BY <1>1, <1>4 DEF TInv, Typed
  <2>2. calls[c].started \in Nat
    BY <2>1, Bounds DEF CallType
  <2>3. Answered(c) => calls[c].started <= now + 1
    BY <1>1, <2>1, <2>2 DEF CallSound
  <2> QED
    BY <1>1, <2>1, <2>3 DEF CallSound, Answered
<1> QED
  BY <1>2, <1>3, <1>4 DEF TInv

LEMMA TypedInit ==
    ASSUME Init
    PROVE  TInv
<1>1. /\ exts = <<>> /\ peers = <<>> /\ calls = <<>> /\ order = <<>>
      /\ rest = [g \in Watchers |-> <<>>] /\ now = 0 /\ carried = 0
  BY DEF Init
<1>2. DOMAIN exts = {} /\ DOMAIN peers = {} /\ DOMAIN calls = {}
  BY <1>1
<1>3. exts \in [{} -> Records] /\ peers \in [{} -> {}] /\ calls \in [{} -> CallType]
  BY <1>1
<1>4. Cardinality({}) = 0
  BY FS_EmptySet
<1>5. <<>> \in Seq(Ops) /\ <<>> \in Seq(CallKeys) /\ Len(<<>>) = 0 /\ DOMAIN <<>> = {}
  OBVIOUS
<1>6. Typed
  BY <1>1, <1>2, <1>3, <1>4, <1>5, Bounds DEF Typed
<1>7. OrderSound
  BY <1>1, <1>2, <1>5, Bounds DEF OrderSound, Lists, NoRepeat, ToSet
<1> QED
  BY <1>2, <1>6, <1>7 DEF TInv, BytesCountedOnce

LEMMA TypedStutter ==
    ASSUME TInv, UNCHANGED vars
    PROVE  TInv'
<1>1. Typed' /\ OrderSound' /\ BytesCountedOnce'
  BY DEF vars, TInv, Typed, OrderSound, BytesCountedOnce
<1>2. \A c \in DOMAIN calls' : CallSound(c)'
  BY DEF vars, TInv, CallSound, Answered
<1> QED
  BY <1>1, <1>2 DEF TInv

LEMMA TypedStep ==
    ASSUME TInv, [Next]_vars
    PROVE  TInv'
<1>1. ASSUME NEW g \in Watchers, NEW ops \in Due(g),
             \/ MarkRegister(g, ops) \/ PendCall(g, ops)
             \/ AnswerCall(g, ops) \/ EndCall(g, ops)
      PROVE  TInv'
  BY <1>1, TypedRegister, TypedPend, TypedAnswer, TypedEnd
<1> QED
  BY <1>1, TypedBytes, TypedTick, TypedStutter DEF Next

-----------------------------------------------------------------------------
(* What is counted, step by step: an extension's calls are those that run  *)
(* and those that are over, their time fits in what has passed, and who    *)
(* has not registered has no call that is over.                            *)

Time(k) == exts[k].callSeconds + SumFunctionOnSet(Talk, Running(k))
KeyCounted(k) ==
    /\ exts[k].calls = Cardinality(Running(k)) + over[k]
    /\ exts[k].callSeconds > 0 => exts[k].calls > 0
    /\ Time(k) <= now * Cardinality(KeysFor(k[1]))
OverSound ==
    /\ over \in [ExtKeys -> Nat]
    /\ \A k \in ExtKeys \ DOMAIN exts : over[k] = 0
CInv == OverSound /\ \A k \in DOMAIN exts : KeyCounted(k)

(* The calls of those that have not registered, of which there are none.   *)
LEMMA NotParty ==
    ASSUME TInv, NEW k, k \notin DOMAIN exts
    PROVE  Running(k) = {}
<1> SUFFICES ASSUME NEW c \in Running(k) PROVE FALSE
  OBVIOUS
<1>1. c \in DOMAIN calls /\ k \in ToSet(calls[c].keys)
  BY DEF Running
<1> QED
  BY <1>1, PartiesOf

LEMMA OverStep ==
    ASSUME TInv, OverSound, NoteOver, exts' = exts \/ DOMAIN exts' = DOMAIN exts
    PROVE  /\ OverSound'
           /\ \A k \in ExtKeys : over'[k] = over[k] + Cardinality(Running(k) \ DOMAIN calls')
<1>1. \A k \in ExtKeys : over'[k] = over[k] + Cardinality(Running(k) \ DOMAIN calls')
  BY DEF NoteOver
<1>2. ASSUME NEW k \in ExtKeys PROVE Cardinality(Running(k) \ DOMAIN calls') \in Nat
  <2>1. Running(k) \ DOMAIN calls' \subseteq DOMAIN calls
    BY DEF Running
  <2>2. IsFiniteSet(Running(k) \ DOMAIN calls')
    BY <2>1, CallsFew, FS_Subset
  <2> QED
    BY <2>2, FS_CardinalityType
<1>3. over' \in [ExtKeys -> Nat]
  <2>1. over \in [ExtKeys -> Nat]
    BY DEF OverSound
  <2>2. \A k \in ExtKeys : over[k] + Cardinality(Running(k) \ DOMAIN calls') \in Nat
    BY <1>2, <2>1
  <2> QED
    BY <2>2 DEF NoteOver
<1>4. ASSUME NEW k \in ExtKeys \ DOMAIN exts' PROVE over'[k] = 0
  <2>1. k \in ExtKeys \ DOMAIN exts
    BY <1>4
  <2>2. Running(k) \ DOMAIN calls' = {}
    BY <2>1, NotParty
  <2>3. Cardinality({}) = 0 /\ over[k] = 0
    BY <2>1, FS_EmptySet DEF OverSound
  <2> QED
    BY <1>1, <2>1, <2>2, <2>3
<1> QED
  BY <1>1, <1>3, <1>4 DEF OverSound

(* Nothing changes for an extension, or no more than that calls which have *)
(* been answered are over.                                                 *)
LEMMA SameCounted ==
    ASSUME TInv, TInv', NEW k \in DOMAIN exts, k \in DOMAIN exts', KeyCounted(k),
           exts'[k].calls = exts[k].calls, exts'[k].callSeconds = exts[k].callSeconds,
           now' = now, Running(k)' \subseteq Running(k),
           Running(k)' = Running(k) \/ \E y : Running(k)' = Running(k) \ {y},
           OverSound, over'[k] = over[k] + Cardinality(Running(k) \ Running(k)'),
           \A c \in Running(k)' : calls'[c].started = calls[c].started
    PROVE  KeyCounted(k)'
<1> DEFINE S == Running(k)
           T == Running(k)'
           f == Talk
           h == Talk'
           n == Cardinality(KeysFor(k[1]))
<1>1. T = S \/ \E y : T = S \ {y}
  OBVIOUS
<1>2. /\ IsFiniteSet(S) /\ S \subseteq DOMAIN calls /\ Cardinality(S) \in Nat
      /\ \A c \in S : f[c] \in Nat
  BY RunningFacts
<1>3. T \subseteq DOMAIN calls'
  BY DEF Running
<1>4. \A c \in T : h[c] = f[c]
  BY <1>1, <1>2, <1>3 DEF Talk
<1>5. exts[k].calls \in Nat /\ exts[k].callSeconds \in Nat
  BY RecordsCounted
<1>6. now \in Nat /\ n \in Nat
  BY RunningFacts DEF TInv, Typed
<1>7. /\ exts[k].calls = Cardinality(S) + over[k]
      /\ exts[k].callSeconds > 0 => exts[k].calls > 0
      /\ exts[k].callSeconds + SumFunctionOnSet(f, S) <= now * n
  BY DEF KeyCounted, Time
<1>8. over[k] \in Nat /\ over'[k] = over[k] + Cardinality(S \ T)
  BY DEF OverSound, TInv, Typed
<1> HIDE DEF S, T, f, h
<1>9. IsFiniteSet(T) /\ Cardinality(T) \in Nat
      /\ Cardinality(S \ T) = Cardinality(S) - Cardinality(T)
  <2>1. IsFiniteSet(T) /\ Cardinality(T) \in Nat
    BY <1>1, <1>2, FS_Subset, FS_CardinalityType
  <2>2. S \cap T = T
    BY <1>1
  <2>3. Cardinality(S \ T) = Cardinality(S) - Cardinality(S \cap T)
    BY <1>2, FS_Difference
  <2> QED
    BY <2>1, <2>2, <2>3
<1>10. /\ SumFunctionOnSet(h, T) = SumFunctionOnSet(f, T)
       /\ SumFunctionOnSet(f, T) \in Nat /\ SumFunctionOnSet(f, S) \in Nat
       /\ SumFunctionOnSet(f, T) <= SumFunctionOnSet(f, S)
  <2>1. SumFunctionOnSet(h, T) = SumFunctionOnSet(f, T)
    BY <1>4, <1>9, SumSame
  <2>2. CASE T = S
    <3>1. SumFunctionOnSet(f, S) \in Nat
      BY <1>2, SumNat
    <3> QED
      BY <2>1, <2>2, <3>1
  <2>3. CASE \E y : T = S \ {y}
    <3>1. PICK y : T = S \ {y}
      BY <2>3
    <3> QED
      BY <1>2, <2>1, <3>1, SumPart
  <2> QED
    BY <1>1, <2>2, <2>3
<1>11. now * n \in Nat
  BY <1>6
<1> HIDE DEF n
<1>12. exts[k].calls = Cardinality(T) + over'[k]
  BY <1>2, <1>7, <1>8, <1>9
<1>13. exts[k].callSeconds + SumFunctionOnSet(h, T) <= now * n
  BY <1>5, <1>7, <1>10, <1>11
<1>14. exts'[k].calls = Cardinality(Running(k)') + over'[k]
       /\ exts'[k].callSeconds + SumFunctionOnSet(Talk', Running(k)') <= now' * n
  BY <1>12, <1>13 DEF T, h
<1> QED
  BY <1>7, <1>14 DEF KeyCounted, Time, n

LEMMA OverSame ==
    ASSUME TInv, OverSound, over' = over, NEW k \in DOMAIN exts, Running(k)' = Running(k)
    PROVE  over'[k] = over[k] + Cardinality(Running(k) \ Running(k)')
<1>1. Running(k) \ Running(k)' = {}
  OBVIOUS
<1>2. Cardinality({}) = 0 /\ over[k] \in Nat
  BY FS_EmptySet DEF OverSound, TInv, Typed
<1> QED
  BY <1>1, <1>2

LEMMA CountedKept ==
    ASSUME TInv, TInv', CInv, UNCHANGED <<calls, now, over>>, DOMAIN exts' = DOMAIN exts,
           \A k \in DOMAIN exts : /\ exts'[k].calls = exts[k].calls
                                  /\ exts'[k].callSeconds = exts[k].callSeconds
    PROVE  CInv'
<1> SUFFICES ASSUME NEW k \in DOMAIN exts PROVE KeyCounted(k)'
  BY DEF CInv, OverSound
<1>1. Running(k)' = Running(k)
  BY DEF Running, Answered
<1>2. over'[k] = over[k] + Cardinality(Running(k) \ Running(k)')
  BY <1>1, OverSame DEF CInv
<1> QED
  BY <1>1, <1>2, SameCounted DEF CInv

LEMMA CountedRegister ==
    ASSUME TInv, TInv', CInv, NEW g \in Watchers, NEW ops \in Due(g), MarkRegister(g, ops)
    PROVE  CInv'
<1>1. calls' = calls /\ now' = now /\ over' = over
  BY RegisterShape
<1>0. OverSound'
  BY <1>1, RegisterShape DEF CInv, OverSound
<1> SUFFICES ASSUME NEW k \in DOMAIN exts' PROVE KeyCounted(k)'
  BY <1>0 DEF CInv
<1>2. Running(k)' = Running(k)
  BY <1>1 DEF Running, Answered
<1>3. CASE k \in DOMAIN exts
  <2>1. exts'[k] = exts[k]
    BY <1>3, RegisterShape
  <2>2. k \in DOMAIN exts' /\ KeyCounted(k)
    BY <1>3 DEF CInv
  <2>3. over'[k] = over[k] + Cardinality(Running(k) \ Running(k)')
    BY <1>1, <1>2, <1>3, OverSame DEF CInv
  <2> QED
    BY <1>1, <1>2, <1>3, <2>1, <2>2, <2>3, SameCounted DEF CInv
<1>4. CASE k \notin DOMAIN exts
  <2>1. Running(k) = {}
    BY <1>4, NotParty
  <2>6. over'[k] = 0
    BY <1>1, <1>4, RegisterShape DEF CInv, OverSound
  <2>2. exts'[k].calls = 0 /\ exts'[k].callSeconds = 0
    BY <1>4, RegisterShape DEF NewRecord
  <2>3. Cardinality({}) = 0 /\ SumFunctionOnSet(Talk', {}) = 0
    BY FS_EmptySet, SumOfNone
  <2>4. now' \in Nat /\ Cardinality(KeysFor(k[1])) \in Nat
    BY KeyAssumption, FS_CardinalityType DEF KeysFor, TInv, Typed
  <2>5. 0 <= now' * Cardinality(KeysFor(k[1]))
    BY <2>4
  <2> QED
    BY <1>2, <2>1, <2>2, <2>3, <2>5, <2>6 DEF KeyCounted, Time
<1> QED
  BY <1>3, <1>4

LEMMA OverStill ==
    ASSUME TInv, OverSound, NoteOver, calls' = calls
    PROVE  over' = over
<1>1. \A k \in ExtKeys : Running(k) \ DOMAIN calls' = {}
  BY DEF Running
<1>2. Cardinality({}) = 0
  BY FS_EmptySet
<1>3. \A k \in ExtKeys : over[k] + Cardinality(Running(k) \ DOMAIN calls') = over[k]
  BY <1>1, <1>2 DEF OverSound
<1> QED
  BY <1>3 DEF NoteOver, OverSound

LEMMA CountedPend ==
    ASSUME TInv, TInv', CInv, NEW g \in Watchers, NEW ops \in Due(g), PendCall(g, ops)
    PROVE  CInv'
<1>1. UNCHANGED <<exts, now>> /\ NoteOver
  BY PendShape
<1>0. /\ OverSound'
      /\ \A k \in ExtKeys : over'[k] = over[k] + Cardinality(Running(k) \ DOMAIN calls')
  BY <1>1, OverStep DEF CInv
<1>2. CASE UNCHANGED calls
  BY <1>1, <1>2, OverStill, CountedKept DEF CInv
<1>3. CASE ~UNCHANGED calls
  <2>0. PICK c \in CallKeys \ DOMAIN calls, gone \in CallKeys :
            \E keys : Registers(c, gone, keys)
    BY <1>3, PendShape
  <2>1. PICK keys :
            /\ AreParties(keys, ProtocolOf(c), DOMAIN exts)
            /\ Lists(order', DOMAIN calls') /\ Len(order') <= MaxCalls
            /\ \/ DOMAIN calls' = DOMAIN calls \cup {c} /\ gone = c
               \/ DOMAIN calls' = (DOMAIN calls \cup {c}) \ {gone}
            /\ calls' = [d \in DOMAIN calls' |->
                            IF d = c THEN [keys |-> keys, started |-> NotYet]
                            ELSE calls[d]]
    BY <2>0 DEF Registers
  <2> SUFFICES ASSUME NEW k \in DOMAIN exts PROVE KeyCounted(k)'
    BY <1>0, <1>1 DEF CInv
  <2>2. \A d \in DOMAIN calls' : d # c => d \in DOMAIN calls /\ calls'[d] = calls[d]
    BY <2>1
  <2>3. c \in DOMAIN calls' => calls'[c].started = NotYet
    BY <2>1
  <2>4. \A d \in DOMAIN calls \ {gone} : d \in DOMAIN calls' /\ d # c
    BY <2>1
  <2>5. Running(k)' \subseteq Running(k) /\ c \notin Running(k)
    BY <2>1, <2>2, <2>3 DEF Running, Answered
  <2>6. Running(k) \ {gone} \subseteq Running(k)'
    BY <2>2, <2>4 DEF Running, Answered
  <2>7. gone \in Running(k) => gone \in Running(k)' \/ gone \notin DOMAIN calls'
    BY <2>2, <2>5 DEF Running, Answered
  <2>8. \E y : Running(k)' = Running(k) \ {y}
    <3>1. CASE gone \in Running(k)'
      <4>1. Running(k)' = Running(k) \ {c}
        BY <2>5, <2>6, <3>1
      <4> QED
        BY <4>1
    <3>2. CASE gone \notin Running(k)'
      <4>1. Running(k)' = Running(k) \ {gone}
        BY <2>5, <2>6, <3>2
      <4> QED
        BY <4>1
    <3> QED
      BY <3>1, <3>2
  <2>9. \A d \in Running(k)' : calls'[d].started = calls[d].started
    <3>1. \A d \in Running(k)' : d \in DOMAIN calls' /\ d # c
      BY <2>3 DEF Running, Answered
    <3> QED
      BY <2>2, <3>1
  <2>10. over'[k] = over[k] + Cardinality(Running(k) \ Running(k)')
    <3>1. Running(k) \ Running(k)' = Running(k) \ DOMAIN calls'
      BY <2>2, <2>5 DEF Running, Answered
    <3> QED
      BY <1>0, <3>1 DEF TInv, Typed
  <2> QED
    BY <1>1, <2>5, <2>8, <2>9, <2>10, SameCounted DEF CInv
<1> QED
  BY <1>2, <1>3

(* An answered call is counted, and has not talked yet.                    *)
LEMMA CountedAnswer ==
    ASSUME TInv, TInv', CInv, NEW g \in Watchers, NEW ops \in Due(g), AnswerCall(g, ops)
    PROVE  CInv'
<1>1. UNCHANGED <<now, over>>
  BY AnswerShape
<1>2. CASE UNCHANGED <<calls, exts>>
  BY <1>1, <1>2, CountedKept
<1>3. CASE ~UNCHANGED <<calls, exts>>
  <2>1. PICK c \in DOMAIN calls : /\ ~Answered(c) /\ calls' = [calls EXCEPT ![c].started = now]
                                  /\ CreditIs(c, Counted)
    BY <1>3, AnswerShape
  <2>2. calls \in [DOMAIN calls -> CallType] /\ now \in 0..MaxTime /\ now # NotYet
    BY Bounds DEF TInv, Typed
  <2>3. /\ DOMAIN calls' = DOMAIN calls /\ calls'[c].keys = calls[c].keys
        /\ calls'[c].started = now
        /\ \A d \in DOMAIN calls \ {c} : calls'[d] = calls[d]
    BY <2>1, <2>2 DEF CallType
  <2>4. DOMAIN exts' = DOMAIN exts
    BY <2>1 DEF CreditIs
  <2> SUFFICES ASSUME NEW k \in DOMAIN exts PROVE KeyCounted(k)'
    BY <1>1, <2>4 DEF CInv, OverSound
  <2>5. c \notin Running(k)
    BY <2>1 DEF Running
  <2>6. CASE k \notin ToSet(calls[c].keys)
    <3>1. Running(k)' = Running(k)
      BY <2>1, <2>3, <2>6 DEF Running, Answered
    <3>2. exts'[k] = exts[k]
      BY <2>1, <2>6 DEF CreditIs
    <3>3. Running(k) = Running(k) \ {c} /\ \A d \in Running(k) : d \in DOMAIN calls \ {c}
      BY <2>5 DEF Running
    <3>4. over'[k] = over[k] + Cardinality(Running(k) \ Running(k)')
      BY <1>1, <3>1, OverSame DEF CInv
    <3> QED
      BY <1>1, <2>3, <2>4, <3>1, <3>2, <3>3, <3>4, SameCounted DEF CInv
  <2>7. CASE k \in ToSet(calls[c].keys)
    <3> DEFINE S == Running(k)
               T == Running(k)'
               f == Talk
               h == Talk'
               n == Cardinality(KeysFor(k[1]))
    <3>1. T = S \cup {c}
      BY <2>1, <2>2, <2>3, <2>7 DEF Running, Answered
    <3>2. /\ exts'[k].callSeconds = exts[k].callSeconds
          /\ exts'[k].calls = exts[k].calls + 1
          /\ exts[k].calls \in Nat /\ exts[k].callSeconds \in Nat
      BY <2>1, <2>7, RecordsCounted DEF CreditIs
    <3>3. /\ IsFiniteSet(S) /\ Cardinality(S) \in Nat /\ n \in Nat
          /\ SumFunctionOnSet(f, S) \in Nat /\ S \subseteq DOMAIN calls
          /\ \A d \in S : f[d] \in Nat
      BY RunningFacts
    <3>4. Cardinality(T) <= MaxCalls /\ IsFiniteSet(T) /\ Cardinality(T) \in Nat
      <4>1. T \subseteq DOMAIN calls
        BY <3>1, <3>3
      <4> HIDE DEF T
      <4>2. IsFiniteSet(T) /\ Cardinality(T) <= Cardinality(DOMAIN calls)
        BY <4>1, CallsFew, FS_Subset
      <4> QED
        BY <4>2, CallsFew, FS_CardinalityType, Bounds
    <3>5. h[c] = 0 /\ \A d \in S : h[d] = f[d]
      <4>1. h[c] = now - now
        BY <1>1, <2>3 DEF Talk
      <4>2. \A d \in S : d \in DOMAIN calls \ {c}
        BY <2>5, <3>3
      <4>3. \A d \in DOMAIN calls \ {c} : h[d] = f[d]
        BY <1>1, <2>3 DEF Talk
      <4> QED
        BY <2>2, <4>1, <4>2, <4>3
    <3>6. /\ exts[k].calls = Cardinality(S) + over[k]
          /\ exts[k].callSeconds + SumFunctionOnSet(f, S) <= now * n
      BY DEF CInv, KeyCounted, Time
    <3>7. c \notin S
      BY <2>5
    <3> HIDE DEF S, T, f, h, n
    <3>8. Cardinality(T) = Cardinality(S) + 1
      BY <3>1, <3>3, <3>7, FS_AddElement
    <3>9. SumFunctionOnSet(h, T) = SumFunctionOnSet(f, S)
      <4>1. T \ {c} = S /\ c \in T
        BY <3>1, <3>7
      <4>2. \A d \in T : h[d] \in Nat
        BY <3>1, <3>3, <3>5
      <4>3. SumFunctionOnSet(h, T) = h[c] + SumFunctionOnSet(h, T \ {c})
        BY <3>4, <4>1, <4>2, SumWithout
      <4>4. SumFunctionOnSet(h, S) = SumFunctionOnSet(f, S)
        BY <3>3, <3>5, SumSame
      <4>5. SumFunctionOnSet(h, T \ {c}) = SumFunctionOnSet(h, S)
        BY <4>1
      <4> QED
        BY <3>3, <3>5, <4>3, <4>4, <4>5
    <3>10. exts'[k].calls = Cardinality(T) + over'[k] /\ exts'[k].calls > 0
      <4>1. over[k] \in Nat /\ over' = over
        BY <1>1 DEF CInv, OverSound, TInv, Typed
      <4> QED
        BY <3>2, <3>3, <3>6, <3>8, <4>1
    <3>11. exts'[k].callSeconds + SumFunctionOnSet(h, T) <= now' * n
      BY <1>1, <3>2, <3>6, <3>9
    <3> QED
      BY <3>10, <3>11 DEF KeyCounted, Time, T, h, n
  <2> QED
    BY <2>6, <2>7
<1> QED
  BY <1>2, <1>3

(* The time of a call that ends is taken out of those that run and put     *)
(* down to its parties.                                                    *)
LEMMA CountedEnd ==
    ASSUME TInv, TInv', CInv, NEW g \in Watchers, NEW ops \in Due(g), EndCall(g, ops)
    PROVE  CInv'
<1>1. UNCHANGED now /\ NoteOver
  BY EndShape
<1>2. CASE UNCHANGED <<calls, exts>>
  BY <1>1, <1>2, OverStill, CountedKept DEF CInv
<1>3. CASE ~UNCHANGED <<calls, exts>>
  <2>1. PICK c \in DOMAIN calls :
            /\ calls' = [d \in DOMAIN calls \ {c} |-> calls[d]]
            /\ \/ ~Answered(c) /\ exts' = exts
               \/ Answered(c) /\ Talk[c] \in Nat /\ CreditIs(c, Timed(Talk[c]))
    BY <1>3, EndShape
  <2>2. DOMAIN calls' = DOMAIN calls \ {c} /\ \A d \in DOMAIN calls' : calls'[d] = calls[d]
    BY <2>1
  <2>3. DOMAIN exts' = DOMAIN exts
    BY <2>1 DEF CreditIs
  <2>0. /\ OverSound'
        /\ \A k \in ExtKeys : over'[k] = over[k] + Cardinality(Running(k) \ DOMAIN calls')
    BY <1>1, <2>3, OverStep DEF CInv
  <2> SUFFICES ASSUME NEW k \in DOMAIN exts PROVE KeyCounted(k)'
    BY <2>0, <2>3 DEF CInv
  <2>4. Running(k)' = Running(k) \ {c}
    BY <2>2 DEF Running, Answered
  <2>5. \A d \in Running(k)' : calls'[d].started = calls[d].started
    BY <2>2 DEF Running
  <2>8. /\ Running(k) \ Running(k)' = Running(k) \ DOMAIN calls'
        /\ over'[k] = over[k] + Cardinality(Running(k) \ Running(k)')
    <3>1. Running(k) \ Running(k)' = Running(k) \ DOMAIN calls'
      BY <2>2, <2>4 DEF Running
    <3> QED
      BY <2>0, <3>1 DEF TInv, Typed
  <2>6. CASE exts'[k] = exts[k]
    BY <1>1, <2>3, <2>4, <2>5, <2>6, <2>8, SameCounted DEF CInv
  <2>7. CASE /\ Answered(c) /\ Talk[c] \in Nat /\ CreditIs(c, Timed(Talk[c]))
             /\ k \in ToSet(calls[c].keys)
    <3> DEFINE S == Running(k)
               T == Running(k)'
               f == Talk
               h == Talk'
               n == Cardinality(KeysFor(k[1]))
    <3>1. c \in S /\ T = S \ {c}
      BY <2>4, <2>7 DEF Running
    <3>2. f[c] \in Nat
      BY <2>7
    <3>3. exts'[k] = Timed(f[c])[k]
      BY <2>7 DEF CreditIs
    <3>4. /\ IsFiniteSet(S) /\ Cardinality(S) \in Nat /\ n \in Nat
          /\ SumFunctionOnSet(f, S) \in Nat /\ S \subseteq DOMAIN calls
          /\ \A d \in S : f[d] \in Nat
      BY RunningFacts
    <3>5. \A d \in T : h[d] = f[d]
      <4>1. \A d \in T : d \in DOMAIN calls' /\ d \in DOMAIN calls
        BY <2>2, <3>1, <3>4
      <4> QED
        BY <1>1, <2>2, <4>1 DEF Talk
    <3>6. /\ exts[k].calls = Cardinality(S) + over[k]
          /\ exts[k].callSeconds + SumFunctionOnSet(f, S) <= now * n
      BY DEF CInv, KeyCounted, Time
    <3>7. exts[k].calls \in Nat /\ exts[k].callSeconds \in Nat
      BY RecordsCounted
    <3> HIDE DEF S, T, f, h, n
    <3>8. exts'[k].callSeconds = exts[k].callSeconds + f[c] /\ exts'[k].calls = exts[k].calls
      BY <3>2, <3>3, RecordsTimed
    <3>9. IsFiniteSet(T) /\ Cardinality(T) = Cardinality(S) - 1
      BY <3>1, <3>4, FS_RemoveElement
    <3>10. Cardinality(S) > 0
      BY <3>1, <3>4, FS_EmptySet
    <3>11. SumFunctionOnSet(f, S) = f[c] + SumFunctionOnSet(f, T)
           /\ SumFunctionOnSet(f, T) \in Nat
      BY <3>1, <3>4, <3>9, SumWithout, SumNat
    <3>12. SumFunctionOnSet(h, T) = SumFunctionOnSet(f, T)
      BY <3>5, <3>9, SumSame
    <3>13. exts'[k].calls = Cardinality(T) + over'[k] /\ exts'[k].calls > 0
      <4>1. over[k] \in Nat
        BY DEF CInv, OverSound, TInv, Typed
      <4>2. S \ T = {c}
        BY <3>1
      <4>3. Cardinality({c}) = 1
        BY FS_Singleton
      <4>4. over'[k] = over[k] + 1
        BY <2>8, <4>2, <4>3 DEF S, T
      <4> QED
        BY <3>4, <3>6, <3>7, <3>8, <3>9, <3>10, <4>1, <4>4
    <3>14. exts'[k].callSeconds + SumFunctionOnSet(h, T) <= now' * n
      BY <1>1, <3>2, <3>6, <3>7, <3>8, <3>11, <3>12
    <3> QED
      BY <3>13, <3>14 DEF KeyCounted, Time, T, h, n
  <2> QED
    BY <2>1, <2>6, <2>7 DEF CreditIs
<1> QED
  BY <1>2, <1>3

(* A second passes for every call that runs, and there is room for one     *)
(* each.                                                                   *)
LEMMA CountedTick ==
    ASSUME TInv, TInv', CInv, Tick
    PROVE  CInv'
<1>1. UNCHANGED <<exts, calls, over>> /\ now' = now + 1
  BY DEF Tick
<1> SUFFICES ASSUME NEW k \in DOMAIN exts PROVE KeyCounted(k)'
  BY <1>1 DEF CInv, OverSound
<1> DEFINE S == Running(k)
           f == Talk
           h == Talk'
           n == Cardinality(KeysFor(k[1]))
<1>2. Running(k)' = S
  BY <1>1 DEF Running, Answered
<1>3. /\ IsFiniteSet(S) /\ Cardinality(S) \in Nat /\ n \in Nat /\ Cardinality(S) <= n
      /\ SumFunctionOnSet(f, S) \in Nat /\ S \subseteq DOMAIN calls
      /\ \A d \in S : f[d] \in Nat
  BY RunningFacts
<1>4. now \in Nat /\ calls \in [DOMAIN calls -> CallType]
  BY DEF TInv, Typed
<1>5. \A d \in S : h[d] = f[d] + 1
  <2> SUFFICES ASSUME NEW d \in S PROVE h[d] = f[d] + 1
    OBVIOUS
  <2>1. calls[d].started \in Nat
    BY <1>3, <1>4, Bounds DEF CallType
  <2>2. f[d] = now - calls[d].started /\ h[d] = (now + 1) - calls[d].started
    BY <1>1, <1>3 DEF Talk
  <2> QED
    BY <1>4, <2>1, <2>2
<1>6. /\ exts[k].calls = Cardinality(S) + over[k]
      /\ exts[k].callSeconds > 0 => exts[k].calls > 0
      /\ exts[k].callSeconds + SumFunctionOnSet(f, S) <= now * n
  BY DEF CInv, KeyCounted, Time
<1>7. exts[k].callSeconds \in Nat
  BY RecordsCounted
<1> HIDE DEF S, f, h, n
<1>8. SumFunctionOnSet(h, S) = SumFunctionOnSet(f, S) + Cardinality(S)
  BY <1>3, <1>5, SumLater
<1>9. (now + 1) * n = now * n + n /\ now * n \in Nat
  BY <1>3, <1>4
<1>10. exts[k].callSeconds + SumFunctionOnSet(h, S) <= (now + 1) * n
  BY <1>3, <1>6, <1>7, <1>8, <1>9
<1> QED
  BY <1>1, <1>2, <1>6, <1>10 DEF KeyCounted, Time, h, n

LEMMA CountedStep ==
    ASSUME TInv, TInv', CInv, [Next]_vars
    PROVE  CInv'
<1>1. ASSUME NEW g \in Watchers, NEW ops \in Due(g),
             \/ MarkRegister(g, ops) \/ PendCall(g, ops)
             \/ AnswerCall(g, ops) \/ EndCall(g, ops)
      PROVE  CInv'
  BY <1>1, CountedRegister, CountedPend, CountedAnswer, CountedEnd
<1>2. CASE AddBytes
  BY <1>2, BytesShape, CountedKept
<1>3. CASE UNCHANGED vars
  BY <1>3, CountedKept DEF vars
<1> QED
  BY <1>1, <1>2, <1>3, CountedTick DEF Next

-----------------------------------------------------------------------------
(* The theorems. *)

LEMMA Invariant == Spec => [](TInv /\ CInv)
<1>1. Init => TInv /\ CInv
  <2>1. Init => TInv
    BY TypedInit
  <2>2. Init => CInv
    <3> SUFFICES ASSUME Init PROVE CInv
      OBVIOUS
    <3>1. DOMAIN exts = {} /\ over = [k \in ExtKeys |-> 0]
      BY DEF Init
    <3> QED
      BY <3>1 DEF CInv, OverSound
  <2> QED
    BY <2>1, <2>2
<1>2. TInv /\ CInv /\ [Next]_vars => (TInv /\ CInv)'
  BY TypedStep, CountedStep
<1> QED
  BY <1>1, <1>2, PTL DEF Spec

(* The tables hold what the code's types say, of keys that exist: the      *)
(* records of extensions, one or two parties to a call, the list of calls  *)
(* by age in step with the table, and at most one thing left to do of a    *)
(* message.                                                                *)
THEOREM TypeCorrect == Spec => []TypeOK
<1>1. TInv /\ CInv => TypeOK
  <2> SUFFICES ASSUME TInv, CInv PROVE TypeOK
    OBVIOUS
  <2>1. /\ DOMAIN exts \subseteq ExtKeys
        /\ \A k \in DOMAIN exts : exts[k] \in [calls : Nat, callSeconds : Nat, bytes : 0..MaxBytes]
    BY DEF TInv, Typed, Records
  <2>2. DOMAIN calls \subseteq CallKeys /\ ToSet(order) = DOMAIN calls
    BY DEF TInv, Typed, OrderSound, Lists
  <2>3. ASSUME NEW c \in DOMAIN calls
        PROVE  calls[c].keys \in BoundedSeq(ExtKeys, 2) /\ calls[c].started \in 0..NotYet
    <3>1. calls[c] \in CallType /\ AreParties(calls[c].keys, ProtocolOf(c), DOMAIN exts)
      BY DEF TInv, Typed, CallSound
    <3> QED
      BY <2>1, <3>1, PartiesAre DEF CallType
  <2> QED
    BY <2>1, <2>2, <2>3 DEF TInv, Typed, TypeOK, CInv, OverSound
<1> QED
  BY <1>1, Invariant, PTL

(* README: only extensions that registered are counted.  Whatever number a *)
(* message names, calls and addresses are put down to records that exist:  *)
(* the updates of answerCall, endCall and addBytes find them.              *)
THEOREM RegisteredOnly == Spec => []OnlyRegistered
<1>1. TInv => OnlyRegistered
  <2> SUFFICES ASSUME TInv PROVE OnlyRegistered
    OBVIOUS
  <2>1. \A c \in DOMAIN calls : ToSet(calls[c].keys) \subseteq DOMAIN exts
    BY PartiesOf
  <2>2. Range(peers) \subseteq DOMAIN exts
    BY DEF TInv, Typed, Range
  <2> QED
    BY <2>1, <2>2 DEF OnlyRegistered
<1> QED
  BY <1>1, Invariant, PTL

(* maxExtCalls and maxExtPeers hold, for any limits, numbers and calls     *)
(* that are never ended.                                                   *)
THEOREM Bounded == Spec => []TablesBounded
<1>1. TInv => TablesBounded
  BY CallsFew DEF TInv, Typed, TablesBounded
<1> QED
  BY <1>1, Invariant, PTL

(* A packet is counted at most once for an extension, by address or by     *)
(* call, also when caller and callee are the same.                         *)
THEOREM BytesOnce == Spec => []BytesCountedOnce
<1>1. TInv => BytesCountedOnce
  BY DEF TInv
<1> QED
  BY <1>1, Invariant, PTL

(* An extension has counted its calls exactly, those that run and those    *)
(* that are over, whichever of INVITE, 200, ACK, BYE and CANCEL came late  *)
(* or twice, for any number of goroutines between whose steps others act.  *)
THEOREM AnsweredFirst == Spec => []AnsweredIsCounted
<1>1. CInv => AnsweredIsCounted
  BY DEF CInv, KeyCounted, AnsweredIsCounted
<1> QED
  BY <1>1, Invariant, PTL

(* No second is counted twice for a call, however its messages are         *)
(* repeated or reordered: finished and running calls of an extension fit   *)
(* in the time that passed, once for each call key of its protocol.        *)
THEOREM TimeOnce == Spec => []TimeCountedOnce
<1>1. CInv => TimeCountedOnce
  BY DEF CInv, KeyCounted, Time, TimeCountedOnce
<1> QED
  BY <1>1, Invariant, PTL
=============================================================================
