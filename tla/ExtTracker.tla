----------------------------- MODULE ExtTracker -----------------------------
(***************************************************************************)
(* Extension statistics (server/extension.go): what extTracker makes of    *)
(* the SIP and IAX signalling that passes the server.                      *)
(*                                                                         *)
(* Several goroutines report messages, in whatever order UDP and the two   *)
(* directions deliver them, repeated or not.  A message becomes one or two *)
(* operations, each under the tracker's lock, and the lock is free between *)
(* the two.  The clock counts seconds; it is read right before the lock is *)
(* taken, and no second passes in between.                                 *)
(***************************************************************************)
EXTENDS Naturals, SequencesExt

CONSTANTS
    Watchers,   \* goroutines that report messages
    Numbers,    \* numbers that look like extensions
    Addrs,      \* addresses of phones; an IAX call goes by its address
    CallIDs,    \* SIP calls
    None,       \* a number that does not look like an extension
    MaxCalls,   \* 1024: maxExtCalls
    MaxPeers,   \* 4096: maxExtPeers
    MaxTime,    \* bound: seconds
    MaxAnswers, \* bound: calls of an extension after which no answer comes
    MaxBytes    \* bound: packets that pass the server

ASSUME LimitAssumption == MaxCalls \in Nat \ {0} /\ MaxPeers \in Nat \ {0}
ASSUME BoundAssumption == MaxTime \in Nat /\ MaxBytes \in Nat /\ MaxAnswers \in Nat
ASSUME NumberAssumption == None \notin Numbers
ASSUME KeyAssumption ==
    CallIDs \cap Addrs = {} /\ IsFiniteSet(CallIDs) /\ IsFiniteSet(Addrs)

VARIABLES
    exts,    \* the statistics, by protocol and number
    peers,   \* the extension an address registered last
    calls,   \* calls under way, by Call-ID or IAX address
    order,   \* these calls by the time they were registered (extCall.seen)
    rest,    \* what a goroutine has still to do for its message
    now,     \* seconds since the start
    carried, \* packets that passed the server
    over     \* history: answered calls of an extension that left the table

vars == <<exts, peers, calls, order, rest, now, carried, over>>

Ends == Numbers \cup {None}
CallKeys == CallIDs \cup Addrs
ExtKeys == {"sip", "iax"} \X Numbers

(* extCall.started before the call is answered: the zero time. *)
NotYet == MaxTime + 1
Answered(c) == calls[c].started # NotYet
Running(k) == {c \in DOMAIN calls : Answered(c) /\ k \in ToSet(calls[c].keys)}

TypeOK ==
    /\ DOMAIN exts \subseteq ExtKeys
    /\ \A k \in DOMAIN exts : exts[k] \in [calls : Nat, callSeconds : Nat, bytes : 0..MaxBytes]
    /\ DOMAIN peers \subseteq Addrs
    /\ DOMAIN calls \subseteq CallKeys /\ ToSet(order) = DOMAIN calls
    /\ \A c \in DOMAIN calls : /\ calls[c].keys \in BoundedSeq(ExtKeys, 2)
                               /\ calls[c].started \in 0..NotYet
    /\ \A g \in Watchers : Len(rest[g]) <= 1
    /\ now \in 0..MaxTime
    /\ carried \in 0..MaxBytes
    /\ over \in [ExtKeys -> Nat]

Init ==
    /\ exts = <<>>
    /\ peers = <<>>
    /\ calls = <<>>
    /\ order = <<>>
    /\ rest = [g \in Watchers |-> <<>>]
    /\ now = 0
    /\ carried = 0
    /\ over = [k \in ExtKeys |-> 0]

-----------------------------------------------------------------------------
(* What a message means. *)

(* Mutant: a number that is not an extension registers too. *)
RegisterAnybody(protocol, n, a) ==
    <<[op |-> "register", key |-> <<protocol, n>>, addr |-> a]>>

Register(protocol, n, a) ==
    IF n = None THEN <<>>
    ELSE <<[op |-> "register", key |-> <<protocol, n>>, addr |-> a]>>

Pend(protocol, c, from, to) ==
    [op |-> "pend", call |-> c, protocol |-> protocol, from |-> from, to |-> to]
Answer(c) == [op |-> "answer", call |-> c]
End(c) == [op |-> "end", call |-> c]

(* observeSIP.  REGISTER and its 200; INVITE; 200 to INVITE; ACK; BYE, its *)
(* response, CANCEL, and a failure response to INVITE.                     *)
SIPMeanings ==
    {Register("sip", n, a) : n \in Ends, a \in Addrs}
    \cup {<<Pend("sip", c, f, t)>> : c \in CallIDs, f \in Ends, t \in Ends}
    \cup {<<Pend("sip", c, f, t), Answer(c)>> : c \in CallIDs, f \in Ends, t \in Ends}
    \cup {<<Answer(c)>> : c \in CallIDs} \cup {<<End(c)>> : c \in CallIDs}

(* observeIAX.  REGREQ; NEW, which ends what went on at the address;       *)
(* ACCEPT; HANGUP and REJECT.                                              *)
IAXMeanings ==
    {Register("iax", n, a) : n \in Ends, a \in Addrs}
    \cup {<<End(a), Pend("iax", a, f, t)>> : a \in Addrs, f \in Ends, t \in Ends}
    \cup {<<Answer(a)>> : a \in Addrs} \cup {<<End(a)>> : a \in Addrs}

(* Bound: answers stop when an extension has many. *)
Enough == \E k \in DOMAIN exts : exts[k].calls >= MaxAnswers
Answers == {ops \in SIPMeanings \cup IAXMeanings :
                \E i \in DOMAIN ops : ops[i].op = "answer"}

(* A goroutine goes on with its message or takes up another. *)
Due(g) ==
    IF rest[g] # <<>> THEN {rest[g]}
    ELSE (SIPMeanings \cup IAXMeanings) \ ({<<>>} \cup (IF Enough THEN Answers ELSE {}))

Do(g, ops, op) ==
    /\ ops[1].op = op
    /\ rest' = [rest EXCEPT ![g] = Tail(ops)]

-----------------------------------------------------------------------------
(* The operations, each under the lock. *)

NewRecord == [calls |-> 0, callSeconds |-> 0, bytes |-> 0]

(* The index of addresses is emptied rather than let grow. *)
Learn(a, k) ==
    LET kept == IF Cardinality(DOMAIN peers) >= MaxPeers THEN {} ELSE DOMAIN peers
    IN  [b \in kept \cup {a} |-> IF b = a THEN k ELSE peers[b]]

(* markRegister *)
MarkRegister(g, ops) ==
    /\ Do(g, ops, "register")
    /\ LET m == ops[1]
       IN  /\ exts' = [k \in DOMAIN exts \cup {m.key} |->
                         IF k \in DOMAIN exts THEN exts[k] ELSE NewRecord]
           /\ peers' = Learn(m.addr, m.key)
    /\ UNCHANGED <<calls, order, now, carried, over>>

(* A number takes part in a call when it has registered. *)
Party(m, n) ==
    IF n # None /\ <<m.protocol, n>> \in DOMAIN exts THEN <<<<m.protocol, n>>>> ELSE <<>>

(* Mutant: whoever is in the call takes part. *)
PartiesOfAll(m) ==
    LET PartyOfAll(n) == IF n # None THEN <<<<m.protocol, n>>>> ELSE <<>>
    IN  PartyOfAll(m.from) \o (IF m.to = m.from THEN <<>> ELSE PartyOfAll(m.to))

(* Mutant: who calls its own number takes part twice. *)
PartiesTwice(m) == Party(m, m.from) \o Party(m, m.to)

(* Caller and callee, once each. *)
Parties(m) == Party(m, m.from) \o (IF m.to = m.from THEN <<>> ELSE Party(m, m.to))

(* Mutant: the call that is answered already is registered anew. *)
IsNewAlways(c) == TRUE

(* A call in the table is not registered again. *)
IsNew(c) == c \notin DOMAIN calls

(* Mutant: one call too many. *)
PruneLate(s) == IF Len(s) > MaxCalls + 1 THEN Tail(s) ELSE s

(* pruneCallsLocked: the call that was registered first has to go. *)
Prune(s) == IF Len(s) > MaxCalls THEN Tail(s) ELSE s

(* History: an answered call that leaves the table is over. *)
NoteOver == over' = [k \in ExtKeys |-> over[k] + Cardinality(Running(k) \ DOMAIN calls')]

(* pendCall *)
PendCall(g, ops) ==
    /\ Do(g, ops, "pend")
    /\ LET m == ops[1]
           kept == Prune(Append(order, m.call))
           call == [keys |-> Parties(m), started |-> NotYet]
       IN  IF IsNew(m.call) /\ call.keys # <<>>
           THEN /\ calls' = [c \in ToSet(kept) |-> IF c = m.call THEN call ELSE calls[c]]
                /\ order' = kept
           ELSE UNCHANGED <<calls, order>>
    /\ NoteOver
    /\ UNCHANGED <<exts, peers, now, carried>>

(* The parties' records are changed, one after the other. *)
Credit(c, Change(_)) ==
    LET keys == calls[c].keys
        first == [exts EXCEPT ![keys[1]] = Change(@)]
    IN  IF Len(keys) = 1 THEN first ELSE [first EXCEPT ![keys[2]] = Change(@)]
CountCall(r) == [r EXCEPT !.calls = @ + 1]

(* Mutant: the call is counted for the caller alone. *)
AnsweredRecordsOfOne(c) == [exts EXCEPT ![calls[c].keys[1]] = CountCall(@)]
AnsweredRecords(c) == Credit(c, CountCall)

(* answerCall *)
AnswerCall(g, ops) ==
    /\ Do(g, ops, "answer")
    /\ LET c == ops[1].call
       IN  IF c \in DOMAIN calls /\ ~Answered(c)
           THEN /\ calls' = [calls EXCEPT ![c].started = now]
                /\ exts' = AnsweredRecords(c)
           ELSE UNCHANGED <<calls, exts>>
    /\ UNCHANGED <<peers, order, now, carried, over>>

(* Mutant: the call stays in the table. *)
Forget(c) == UNCHANGED <<calls, order>>

(* The call leaves the table. *)
Delete(c) ==
    /\ calls' = [d \in DOMAIN calls \ {c} |-> calls[d]]
    /\ order' = RemoveFirst(order, c)

(* endCall *)
EndCall(g, ops) ==
    /\ Do(g, ops, "end")
    /\ LET c == ops[1].call
           Talked(r) == [r EXCEPT !.callSeconds = @ + (now - calls[c].started)]
       IN  IF c \in DOMAIN calls
           THEN /\ Delete(c)
                /\ exts' = IF Answered(c) THEN Credit(c, Talked) ELSE exts
           ELSE UNCHANGED <<calls, order, exts>>
    /\ NoteOver
    /\ UNCHANGED <<peers, now, carried>>

(* A packet of signalling, by its address (addPeerBytes), or of media, by  *)
(* its call (addCallBytes).  One direction stands for both.                *)
AddBytes ==
    /\ carried < MaxBytes
    /\ carried' = carried + 1
    /\ LET More(r) == [r EXCEPT !.bytes = @ + 1]
       IN  \/ \E a \in Addrs : exts' = IF a \in DOMAIN peers
                                       THEN [exts EXCEPT ![peers[a]] = More(@)] ELSE exts
           \/ \E c \in CallIDs : exts' = IF c \in DOMAIN calls
                                         THEN Credit(c, More) ELSE exts
    /\ UNCHANGED <<peers, calls, order, rest, now, over>>

Tick ==
    /\ now < MaxTime
    /\ now' = now + 1
    /\ UNCHANGED <<exts, peers, calls, order, rest, carried, over>>

Next ==
    \/ \E g \in Watchers : \E ops \in Due(g) :
          \/ MarkRegister(g, ops) \/ PendCall(g, ops)
          \/ AnswerCall(g, ops) \/ EndCall(g, ops)
    \/ AddBytes
    \/ Tick

Spec == Init /\ [][Next]_vars

-----------------------------------------------------------------------------
(* Properties. *)

(* README: only extensions that registered are counted.  However messages  *)
(* are ordered, no call and no address is put down to another number, so   *)
(* a record that operations look up is always there.                       *)
OnlyRegistered ==
    /\ \A c \in DOMAIN calls : ToSet(calls[c].keys) \subseteq DOMAIN exts
    /\ Range(peers) \subseteq DOMAIN exts

(* Repeated and reordered messages do not count a second twice: an         *)
(* extension's call time, with that of its calls still under way, fits in  *)
(* the time passed, once for each call key of its protocol.  This speaks   *)
(* of seconds alone: how often a call is counted is AnsweredIsCounted's.   *)
Talk == [c \in DOMAIN calls |-> now - calls[c].started]
KeysFor(protocol) == IF protocol = "sip" THEN CallIDs ELSE Addrs
TimeCountedOnce ==
    \A k \in DOMAIN exts :
        exts[k].callSeconds + SumFunctionOnSet(Talk, Running(k))
            <= now * Cardinality(KeysFor(k[1]))

(* A packet counts once for an extension, also for one that calls itself.  *)
BytesCountedOnce == \A k \in DOMAIN exts : exts[k].bytes <= carried

(* Both tables keep to their limits, whatever calls are never ended and    *)
(* however many addresses register.                                        *)
TablesBounded ==
    /\ Cardinality(DOMAIN calls) <= MaxCalls
    /\ Cardinality(DOMAIN peers) <= MaxPeers

(* An extension's counter is exactly the answered calls it is a party to   *)
(* and those that left the table, ended or evicted: a re-INVITE, a second  *)
(* 200 or ACK and the half of a 200 that waits while another message is    *)
(* handled count nothing for a call that is in the table.  A call that     *)
(* left is another to the tracker: a failed re-INVITE, or a BYE with a 200 *)
(* after it, has the next 200 or ACK count the same Call-ID once more.     *)
(* No call time is without a call.                                         *)
AnsweredIsCounted ==
    \A k \in DOMAIN exts :
        /\ exts[k].calls = Cardinality(Running(k)) + over[k]
        /\ exts[k].callSeconds > 0 => exts[k].calls > 0
=============================================================================
