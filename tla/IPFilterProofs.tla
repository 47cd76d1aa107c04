--------------------------- MODULE IPFilterProofs ---------------------------
(***************************************************************************)
(* What IPFilter guarantees for any lists, addresses, dashboard requests   *)
(* and listeners: a verdict is one of lists that were in force.            *)
(***************************************************************************)
EXTENDS IPFilter, WellFoundedInduction, TLAPS

(* A list of networks has a first one among those that hold an address.    *)
LEMMA FirstHit ==
    ASSUME NEW list \in Seq(Entries), NEW ip, Covers(list, ip)
    PROVE  Match(list, ip) \in Entries /\ ip \in Net[Match(list, ip)]
<1> DEFINE H == {i \in DOMAIN list : ip \in Net[list[i]]}
           R == {ss \in Nat \X Nat : ss[1] < ss[2]}
<1>1. H # {} /\ H \subseteq Nat
  BY DEF Covers
<1>2. IsWellFoundedOn(R, Nat)
  BY NatLessThanWellFounded DEF OpToRel
<1>3. PICK i \in H : \A j \in H : ~(<<j, i>> \in R)
  <2> HIDE DEF H, R
  <2> QED BY <1>1, <1>2, WFMin
<1>4. ASSUME NEW j \in H PROVE i <= j
  <2>1. <<j, i>> \in Nat \X Nat /\ i \in Nat /\ j \in Nat
    BY <1>1
  <2>2. ~(<<j, i>>[1] < <<j, i>>[2])
    BY <1>3, <2>1
  <2> QED BY <2>1, <2>2
<1>5. \E k \in DOMAIN list : First(list, ip, k)
  BY <1>4 DEF First
<1> QED
  BY <1>5 DEF Match, Covers, First

(* For every filter and address the dashboard's verdict is the listener's, *)
(* with the rule that decides it.                                          *)
THEOREM CheckIsAllow ==
    \A f \in Lists, ip \in Addrs \cup {None} : CheckExplains(f, ip)
<1> SUFFICES ASSUME NEW f \in Lists, NEW ip \in Addrs \cup {None}
             PROVE  CheckExplains(f, ip)
  OBVIOUS
<1> DEFINE Hit(list) == Match(list, ip)
<1>0. Allow(f, ip) \in BOOLEAN
  BY DEF Allow
<1>1. ASSUME NEW list \in Seq(Entries)
      PROVE  /\ Covers(list, ip) => Hit(list) \in Entries /\ ip \in Net[Hit(list)]
             /\ ~Covers(list, ip) => Hit(list) = None
  BY FirstHit DEF Match
<1>2. f.allow \in Seq(Entries) /\ f.deny \in Seq(Entries) /\ f.enable \in BOOLEAN
  BY DEF Lists
<1>3. ~Covers(<<>>, ip)
  BY DEF Covers
<1> HIDE DEF Hit
<1>4. CASE ~f.enable
  BY <1>4 DEF CheckExplains, Check, Allow, Result, Lists
<1>5. CASE f.enable /\ ip = None
  BY <1>5 DEF CheckExplains, Check, Allow, Result
<1>6. CASE f.enable /\ ip # None /\ Covers(f.deny, ip)
  <2>1. Match(f.deny, ip) \in Entries /\ ip \in Net[Match(f.deny, ip)] /\ Match(f.deny, ip) # None
    BY <1>1, <1>2, <1>6, NoneAssumption DEF Hit
  <2>2. Check(f, ip) = Result(f, FALSE, Match(f.deny, ip), "deny")
    BY <1>6, <2>1 DEF Check
  <2>3. Allow(f, ip) = FALSE
    BY <1>6 DEF Allow
  <2>4. Check(f, ip).allowed = FALSE /\ Check(f, ip).rule = Match(f.deny, ip)
        /\ Check(f, ip).source = "deny"
    BY <2>2 DEF Result
  <2> QED BY <2>1, <2>3, <2>4 DEF CheckExplains
<1>7. CASE f.enable /\ ip # None /\ ~Covers(f.deny, ip) /\ f.allow # <<>>
  <2>1. Match(f.deny, ip) = None
    BY <1>1, <1>2, <1>7 DEF Hit
  <2>2. CASE Covers(f.allow, ip)
    <3>1. Match(f.allow, ip) \in Entries /\ ip \in Net[Match(f.allow, ip)] /\ Match(f.allow, ip) # None
      BY <1>1, <1>2, <2>2, NoneAssumption DEF Hit
    <3>2. Check(f, ip) = Result(f, TRUE, Match(f.allow, ip), "allow")
      BY <1>7, <2>1, <3>1 DEF Check
    <3>3. Allow(f, ip) = TRUE
      BY <1>7, <2>2 DEF Allow
    <3> QED BY <3>1, <3>2, <3>3 DEF CheckExplains, Result
  <2>3. CASE ~Covers(f.allow, ip)
    <3>1. Match(f.allow, ip) = None
      BY <1>1, <1>2, <2>3 DEF Hit
    <3>2. Check(f, ip) = Result(f, FALSE, None, "default")
      BY <1>7, <2>1, <3>1 DEF Check
    <3>3. Allow(f, ip) = FALSE
      BY <1>7, <2>3 DEF Allow
    <3>4. Check(f, ip).allowed = FALSE /\ Check(f, ip).rule = None
          /\ Check(f, ip).source = "default"
      BY <3>2 DEF Result
    <3> QED BY <3>3, <3>4 DEF CheckExplains
  <2> QED BY <2>2, <2>3
<1>8. CASE f.enable /\ ip # None /\ ~Covers(f.deny, ip) /\ f.allow = <<>>
  <2>1. Match(f.deny, ip) = None
    BY <1>1, <1>2, <1>8 DEF Hit
  <2>2. Check(f, ip) = Result(f, TRUE, None, "default")
    BY <1>8, <2>1 DEF Check
  <2>3. Allow(f, ip) = TRUE
    BY <1>8 DEF Allow
  <2> QED BY <2>2, <2>3 DEF CheckExplains, Result
<1> QED
  BY <1>2, <1>4, <1>5, <1>6, <1>7, <1>8

-----------------------------------------------------------------------------
(* Verdicts. *)

CallType == [at : {"quiet", "asked", "let in", "kept out"},
             ip : Addrs \cup {None}, since : SUBSET BOOLEAN]

(* What has been noted of a call holds the verdict of the filter as it is, *)
(* until the call has judged; a server that is down judges nothing.        *)
Noted ==
    /\ call \in [Listeners -> CallType]
    /\ \A l \in Listeners :
        /\ ~up => call[l].at = "quiet"
        /\ call[l].at = "asked" => Allow(filter, call[l].ip) \in call[l].since

IInv == Noted /\ VerdictInForce

-----------------------------------------------------------------------------
LEMMA Verdict == ASSUME NEW f, NEW ip PROVE Allow(f, ip) \in BOOLEAN
BY DEF Allow

LEMMA QuietType == Quiet \in CallType
BY DEF Quiet, CallType

LEMMA InitIInv == Init => IInv
<1> SUFFICES ASSUME Init PROVE IInv
  OBVIOUS
<1>1. \A l \in Listeners : call[l] = Quiet
  BY DEF Init
<1>2. Quiet.at = "quiet"
  BY DEF Quiet
<1>3. call \in [Listeners -> CallType]
  BY QuietType DEF Init
<1> QED
  BY <1>1, <1>2, <1>3 DEF IInv, Noted, VerdictInForce

(* Steps that leave the listeners, the filter and the server as they are. *)
LEMMA OthersKeep ==
    ASSUME IInv, UNCHANGED <<up, filter, call>>
    PROVE  IInv'
BY DEF IInv, Noted, VerdictInForce

LEMMA ReloadKeeps ==
    ASSUME IInv, NEW r \in Requests, Reload(r)
    PROVE  IInv'
<1> DEFINE next == req[r].next
           Told(l) == [call[l] EXCEPT !.since = @ \cup {Allow(next, call[l].ip)}]
<1>1. /\ filter' = next /\ up' = up
      /\ call' = [l \in Listeners |-> IF call[l].at # "asked" THEN call[l] ELSE Told(l)]
  BY DEF Reload
<1>2. ASSUME NEW l \in Listeners
      PROVE  /\ Told(l) \in CallType /\ Told(l).at = call[l].at /\ Told(l).ip = call[l].ip
             /\ Allow(next, call[l].ip) \in Told(l).since
  <2>1. call[l] \in CallType /\ Allow(next, call[l].ip) \in BOOLEAN
    BY Verdict DEF IInv, Noted
  <2> QED
    BY <2>1 DEF CallType
<1> HIDE DEF next, Told
<1> QED
  BY <1>1, <1>2 DEF IInv, Noted, VerdictInForce

LEMMA EnabledKeeps ==
    ASSUME IInv, NEW l \in Listeners, Enabled(l)
    PROVE  IInv'
<1>1. PICK ip \in Addrs \cup {None} :
        call' = [call EXCEPT ![l] = [Quiet EXCEPT !.at = "asked", !.ip = ip,
                                                  !.since = {Allow(filter, ip)}]]
  BY DEF Enabled
<1> DEFINE new == [Quiet EXCEPT !.at = "asked", !.ip = ip, !.since = {Allow(filter, ip)}]
<1>2. /\ new \in CallType /\ new.at = "asked" /\ new.ip = ip
      /\ Allow(filter, ip) \in new.since
  BY Verdict DEF Quiet, CallType
<1> HIDE DEF new
<1>3. up /\ up' = up /\ filter' = filter /\ call' = [call EXCEPT ![l] = new]
  BY <1>1 DEF Enabled, new
<1> QED
  BY <1>2, <1>3 DEF IInv, Noted, VerdictInForce

LEMMA JudgeKeeps ==
    ASSUME IInv, NEW l \in Listeners, Judge(l)
    PROVE  IInv'
<1> DEFINE verdict == Allow(filter, call[l].ip)
           to == IF verdict THEN "let in" ELSE "kept out"
           new == [call[l] EXCEPT !.at = to]
<1>1. /\ call[l].at = "asked" /\ up' = up /\ filter' = filter
      /\ call' = [call EXCEPT ![l].at = to]
  BY DEF Judge, Judged
<1>2. /\ call[l] \in CallType /\ verdict \in call[l].since /\ verdict \in BOOLEAN /\ up
  BY <1>1, Verdict DEF IInv, Noted
<1>3. \/ to = "let in" /\ TRUE \in call[l].since
      \/ to = "kept out" /\ FALSE \in call[l].since
  <2>1. verdict \in BOOLEAN => verdict = TRUE \/ verdict = FALSE
    BY Zenon
  <2> QED
    BY <1>2, <2>1
<1> HIDE DEF verdict, to
<1>4. new \in CallType /\ new.at = to /\ new.since = call[l].since
  BY <1>2, <1>3 DEF CallType
<1>5. call' = [call EXCEPT ![l] = new]
  BY <1>1 DEF IInv, Noted
<1> HIDE DEF new
<1> QED
  BY <1>1, <1>2, <1>3, <1>4, <1>5 DEF IInv, Noted, VerdictInForce

LEMMA ReturnKeeps ==
    ASSUME IInv, NEW l \in Listeners, Return(l)
    PROVE  IInv'
BY QuietType DEF IInv, Noted, VerdictInForce, Return, Quiet

LEMMA CrashKeeps == ASSUME IInv, Crash PROVE IInv'
BY QuietType DEF IInv, Noted, VerdictInForce, Crash, Quiet

LEMMA RestartKeeps == ASSUME IInv, Restart PROVE IInv'
BY DEF IInv, Noted, VerdictInForce, Restart

LEMMA NextKeeps == IInv /\ [Next]_vars => IInv'
<1> SUFFICES ASSUME IInv, [Next]_vars PROVE IInv'
  OBVIOUS
<1>1. ASSUME NEW r \in Requests, RequestNext(r) PROVE IInv'
  <2>1. CASE Reload(r)
    BY <2>1, ReloadKeeps
  <2>2. CASE ~Reload(r)
    <3>1. UNCHANGED <<up, filter, call>>
      BY <1>1, <2>2
      DEF RequestNext, Begin, Write, WriteFails, Rename, RenameFails, Commit
    <3> QED BY <3>1, OthersKeep
  <2> QED BY <2>1, <2>2
<1>2. ASSUME NEW l \in Listeners, ListenerNext(l) PROVE IInv'
  BY <1>2, EnabledKeeps, JudgeKeeps, ReturnKeeps DEF ListenerNext
<1>3. CASE Crash \/ Restart
  BY <1>3, CrashKeeps, RestartKeeps
<1>4. CASE UNCHANGED vars
  BY <1>4, OthersKeep DEF vars
<1> QED
  BY <1>1, <1>2, <1>3, <1>4 DEF Next

(* AllowAddr asks Enabled and then Allow, each under a read lock of its    *)
(* own (ipfilter.go), while the dashboard reloads the lists any number of  *)
(* times: its verdict is still that of lists in force at one time between. *)
THEOREM VerdictWasInForce == Spec => []VerdictInForce
<1>1. IInv => VerdictInForce
  BY DEF IInv
<1> QED
  BY <1>1, InitIInv, NextKeeps, PTL DEF Spec

-----------------------------------------------------------------------------
(* Changes.  A request holds the lock from its copy of the lists to its    *)
(* reply, and where it stands tells which of file, filter and              *)
(* configuration have its lists.                                           *)
ReqType == [at : {"free", "write", "rename", "reload", "commit"}, next : ListsUpTo]

Typed(good) ==
    /\ file \in good /\ cfg \in ListsUpTo /\ filter \in ListsUpTo
    /\ tmp \in {"absent", "torn", "complete"} /\ up \in BOOLEAN
    /\ ipMu \in Requests \cup {Nobody}
    /\ req \in [Requests -> ReqType]

(* Whoever is not free has the lock, and whoever is about to rename has    *)
(* found the section in the file; a server that is down has nobody.        *)
LockHeld ==
    /\ \A r \in Requests : req[r].at # "free" => ipMu = r
    /\ ipMu # Nobody => up /\ req[ipMu].at # "free"
    /\ \A r \in Requests : req[r].at = "rename" => HasSection(file)

InStep ==
    up => IF ipMu = Nobody THEN Load(file) = cfg /\ filter = cfg
          ELSE LET q == req[ipMu] IN
               /\ q.next \in Changes(cfg)
               /\ Load(file) = IF q.at \in {"write", "rename"} THEN cfg ELSE q.next
               /\ filter = IF q.at = "commit" THEN q.next ELSE cfg

Held(good) == Typed(good) /\ LockHeld /\ InStep

LEMMA NoListsTyped == NoLists \in ListsUpTo
<1>1. <<>> \in BoundedSeq(Entries, MaxLen)
  <2>1. <<>> \in [1..0 -> Entries] /\ 0 \in 0..MaxLen
    BY BoundAssumption
  <2> QED
    BY <2>1 DEF BoundedSeq, SeqOf
<1> QED
  BY <1>1 DEF NoLists, ListsUpTo

LEMMA FreeTyped == Free \in ReqType /\ Free.at = "free"
BY NoListsTyped DEF Free, ReqType

LEMMA InitHeld ==
    ASSUME NEW good, Files \subseteq good, RoundTrips(good), Init
    PROVE  Held(good)
<1>1. Typed(good)
  BY FreeTyped DEF Init, Typed, RoundTrips
<1>2. LockHeld /\ InStep
  BY FreeTyped DEF Init, LockHeld, InStep
<1> QED
  BY <1>1, <1>2 DEF Held

(* A request that goes on from one point to the next. *)
LEMMA StepOn ==
    ASSUME NEW good, Held(good), NEW r \in Requests, req[r].at # "free",
           NEW to \in {"rename", "reload", "commit"}, req' = [req EXCEPT ![r].at = to]
    PROVE  /\ ipMu = r /\ r # Nobody /\ up /\ req' \in [Requests -> ReqType]
           /\ req'[r].at = to /\ req'[r].next = req[r].next
           /\ \A q \in Requests : q # r => req'[q] = req[q]
<1>1. ipMu = r /\ r # Nobody /\ up
  BY NobodyAssumption DEF Held, LockHeld
<1>2. req \in [Requests -> ReqType] /\ req[r] \in ReqType
  BY DEF Held, Typed
<1> QED
  BY <1>1, <1>2 DEF ReqType

LEMMA Replied ==
    ASSUME NEW good, Held(good), NEW r \in Requests, req[r].at # "free", Reply(r)
    PROVE  /\ ipMu = r /\ r # Nobody /\ up /\ req' \in [Requests -> ReqType]
           /\ ipMu' = Nobody /\ \A q \in Requests : req'[q].at = "free"
<1>1. ipMu = r /\ r # Nobody /\ up
  BY NobodyAssumption DEF Held, LockHeld
<1>2. req \in [Requests -> ReqType] /\ req' = [req EXCEPT ![r] = Free] /\ ipMu' = Nobody
  BY DEF Held, Typed, Reply
<1>3. \A q \in Requests : q # r => req[q].at = "free"
  BY <1>1 DEF Held, LockHeld
<1> QED
  BY <1>1, <1>2, <1>3, FreeTyped

LEMMA BeginHeld ==
    ASSUME NEW good, Held(good), NEW r \in Requests, Begin(r)
    PROVE  Held(good)'
<1>1. /\ up /\ ipMu = Nobody /\ ipMu' = r /\ r # Nobody
      /\ UNCHANGED <<file, tmp, up, cfg, filter, call>>
  BY NobodyAssumption DEF Begin
<1>2. PICK next \in Changes(cfg) \cap ListsUpTo :
        req' = [req EXCEPT ![r] = [at |-> "write", next |-> next]]
  BY DEF Begin
<1>3. /\ req' \in [Requests -> ReqType] /\ req'[r].at = "write" /\ req'[r].next = next
      /\ \A q \in Requests : q # r => req'[q] = req[q]
  BY <1>2 DEF Held, Typed, ReqType
<1>4. Typed(good)'
  BY <1>1, <1>3 DEF Held, Typed
<1>5. LockHeld'
  BY <1>1, <1>3, NobodyAssumption DEF Held, LockHeld
<1>6. InStep'
  BY <1>1, <1>2, <1>3 DEF Held, InStep, Changes
<1> QED
  BY <1>4, <1>5, <1>6 DEF Held

LEMMA WriteHeld ==
    ASSUME NEW good, Held(good), NEW r \in Requests, Write(r)
    PROVE  Held(good)'
<1>1. /\ req[r].at = "write" /\ HasSection(file) /\ tmp' = "complete"
      /\ req' = [req EXCEPT ![r].at = "rename"]
      /\ UNCHANGED <<file, up, cfg, filter, ipMu, call>>
  BY DEF Write
<1>2. /\ ipMu = r /\ r # Nobody /\ up /\ req' \in [Requests -> ReqType]
      /\ req'[r].at = "rename" /\ req'[r].next = req[r].next
      /\ \A q \in Requests : q # r => req'[q] = req[q]
  BY <1>1, StepOn
<1>3. Typed(good)' /\ LockHeld'
  BY <1>1, <1>2 DEF Held, Typed, LockHeld
<1>4. InStep'
  BY <1>1, <1>2 DEF Held, InStep, Changes
<1> QED
  BY <1>3, <1>4 DEF Held

(* Giving up before the file is renamed. *)
LEMMA FailHeld ==
    ASSUME NEW good, Held(good), NEW r \in Requests, WriteFails(r) \/ RenameFails(r)
    PROVE  Held(good)'
<1>1. /\ req[r].at \in {"write", "rename"} /\ Reply(r)
      /\ tmp' \in {"absent", "torn", "complete"}
      /\ UNCHANGED <<file, up, cfg, filter, call>>
  BY DEF WriteFails, RenameFails, Held, Typed
<1>2. /\ ipMu = r /\ r # Nobody /\ up /\ req' \in [Requests -> ReqType]
      /\ ipMu' = Nobody /\ \A q \in Requests : req'[q].at = "free"
  BY <1>1, Replied
<1>3. Typed(good)' /\ LockHeld'
  BY <1>1, <1>2 DEF Held, Typed, LockHeld
<1>4. InStep'
  BY <1>1, <1>2 DEF Held, InStep
<1> QED
  BY <1>3, <1>4 DEF Held

LEMMA RenameHeld ==
    ASSUME NEW good, RoundTrips(good), Held(good), NEW r \in Requests, Rename(r)
    PROVE  /\ Held(good)'
           /\ Loadable(file') /\ Load(file') \in Changes(Load(file))
<1> DEFINE next == req[r].next
<1>1. /\ req[r].at = "rename" /\ file' = ReplaceIPFilterSection(file, next)
      /\ tmp' = "absent" /\ req' = [req EXCEPT ![r].at = "reload"]
      /\ UNCHANGED <<up, cfg, filter, ipMu, call>>
  BY DEF Rename
<1>2. /\ ipMu = r /\ r # Nobody /\ up /\ req' \in [Requests -> ReqType]
      /\ req'[r].at = "reload" /\ req'[r].next = next
      /\ \A q \in Requests : q # r => req'[q] = req[q]
  BY <1>1, StepOn
<1>3. file' \in good /\ Load(file') = next /\ Loadable(file')
  <2>1. next \in ListsUpTo /\ file \in good /\ HasSection(file)
    BY <1>1 DEF Held, Typed, LockHeld, ReqType
  <2> QED
    BY <1>1, <2>1 DEF RoundTrips
<1>4. Load(file) = cfg /\ next \in Changes(cfg) /\ filter = cfg
  BY <1>1, <1>2 DEF Held, InStep
<1>5. Typed(good)' /\ LockHeld'
  BY <1>1, <1>2, <1>3 DEF Held, Typed, LockHeld
<1>6. InStep'
  BY <1>1, <1>2, <1>3, <1>4 DEF InStep, Changes
<1> QED
  BY <1>3, <1>4, <1>5, <1>6 DEF Held

LEMMA ReloadHeld ==
    ASSUME NEW good, Held(good), NEW r \in Requests, Reload(r)
    PROVE  Held(good)'
<1>1. /\ req[r].at = "reload" /\ filter' = req[r].next
      /\ req' = [req EXCEPT ![r].at = "commit"]
      /\ UNCHANGED <<file, tmp, up, cfg, ipMu>>
  BY DEF Reload
<1>2. /\ ipMu = r /\ r # Nobody /\ up /\ req' \in [Requests -> ReqType]
      /\ req'[r].at = "commit" /\ req'[r].next = req[r].next
      /\ \A q \in Requests : q # r => req'[q] = req[q]
  BY <1>1, StepOn
<1>3. req[r].next \in ListsUpTo
  BY DEF Held, Typed, ReqType
<1>4. Typed(good)' /\ LockHeld'
  BY <1>1, <1>2, <1>3 DEF Held, Typed, LockHeld
<1>5. InStep'
  BY <1>1, <1>2 DEF Held, InStep, Changes
<1> QED
  BY <1>4, <1>5 DEF Held

LEMMA CommitHeld ==
    ASSUME NEW good, Held(good), NEW r \in Requests, Commit(r)
    PROVE  Held(good)'
<1>1. /\ req[r].at = "commit" /\ cfg' = req[r].next /\ Reply(r)
      /\ UNCHANGED <<file, tmp, up, filter, call>>
  BY DEF Commit
<1>2. /\ ipMu = r /\ r # Nobody /\ up /\ req' \in [Requests -> ReqType]
      /\ ipMu' = Nobody /\ \A q \in Requests : req'[q].at = "free"
  BY <1>1, Replied
<1>3. req[r].next \in ListsUpTo
  BY DEF Held, Typed, ReqType
<1>4. Typed(good)' /\ LockHeld'
  BY <1>1, <1>2, <1>3 DEF Held, Typed, LockHeld
<1>5. InStep'
  BY <1>1, <1>2 DEF Held, InStep
<1> QED
  BY <1>4, <1>5 DEF Held

LEMMA CrashHeld == ASSUME NEW good, Held(good), Crash PROVE Held(good)'
<1>1. /\ up' = FALSE /\ ipMu' = Nobody /\ req' = [r \in Requests |-> Free]
      /\ tmp' \in {"absent", "torn", "complete"} /\ cfg' = NoLists /\ filter' = NoLists
      /\ file' = file
  BY DEF Crash, Held, Typed
<1> QED
  BY <1>1, FreeTyped, NoListsTyped DEF Held, Typed, LockHeld, InStep

LEMMA RestartHeld ==
    ASSUME NEW good, RoundTrips(good), Held(good), Restart
    PROVE  Held(good)'
<1>1. /\ ~up /\ up' = TRUE /\ cfg' = Load(file) /\ filter' = Load(file)
      /\ UNCHANGED <<file, tmp, ipMu, req, call>>
  BY DEF Restart
<1>2. ipMu = Nobody
  BY <1>1 DEF Held, LockHeld
<1>3. Load(file) \in ListsUpTo
  BY DEF Held, Typed, RoundTrips
<1> QED
  BY <1>1, <1>2, <1>3 DEF Held, Typed, LockHeld, InStep

LEMMA NextHeld ==
    ASSUME NEW good, RoundTrips(good), Held(good), [Next]_vars
    PROVE  /\ Held(good)'
           /\ file' # file => Loadable(file') /\ Load(file') \in Changes(Load(file))
<1>1. ASSUME NEW r \in Requests, RequestNext(r)
      PROVE  /\ Held(good)'
             /\ file' # file => Loadable(file') /\ Load(file') \in Changes(Load(file))
  <2>1. CASE Rename(r)
    BY <2>1, RenameHeld
  <2>2. CASE ~Rename(r)
    <3>1. file' = file
      BY <1>1, <2>2 DEF RequestNext, Begin, Write, WriteFails, RenameFails, Reload, Commit
    <3>2. Held(good)'
      BY <1>1, <2>2, BeginHeld, WriteHeld, FailHeld, ReloadHeld, CommitHeld DEF RequestNext
    <3> QED
      BY <3>1, <3>2
  <2> QED
    BY <2>1, <2>2
<1>2. ASSUME UNCHANGED <<file, tmp, up, cfg, filter, ipMu, req>>
      PROVE  Held(good)' /\ file' = file
  BY <1>2 DEF Held, Typed, LockHeld, InStep, Changes
<1>3. CASE \E l \in Listeners : ListenerNext(l)
  BY <1>2, <1>3 DEF ListenerNext, Enabled, Judge, Judged, Return
<1>4. CASE Crash \/ Restart
  BY <1>4, CrashHeld, RestartHeld DEF Crash, Restart
<1> QED
  BY <1>1, <1>2, <1>3, <1>4 DEF Next, vars

-----------------------------------------------------------------------------
(* On files that keep what is written, for any requests, failures and      *)
(* crashes: every state has its types, ...                                 *)
THEOREM TypeCorrect ==
    ASSUME NEW good, Files \subseteq good, RoundTrips(good)
    PROVE  Spec => []TypeOK
<1>1. Init => Held(good) /\ Noted
  BY InitHeld, InitIInv DEF IInv
<1>2. IInv /\ Held(good) => TypeOK
  BY DEF IInv, Noted, Held, Typed, TypeOK, CallType, ReqType
<1>3. Held(good) /\ [Next]_vars => Held(good)'
  BY NextHeld
<1> QED
  BY <1>1, <1>2, <1>3, InitIInv, NextKeeps, PTL DEF Spec

(* ... file, filter and configuration agree between requests, and during   *)
(* one the file is first (mutateIPFilter), ...                             *)
THEOREM Agrees ==
    ASSUME NEW good, Files \subseteq good, RoundTrips(good)
    PROVE  Spec => []Agreement
<1>1. Init => Held(good)
  BY InitHeld
<1>2. Held(good) => Agreement
  BY DEF Held, Typed, LockHeld, InStep, Agreement
<1>3. Held(good) /\ [Next]_vars => Held(good)'
  BY NextHeld
<1> QED
  BY <1>1, <1>2, <1>3, PTL DEF Spec

(* ... each write of the file is one change to what the file says, ...     *)
THEOREM NoChangeLost ==
    ASSUME NEW good, Files \subseteq good, RoundTrips(good)
    PROVE  Spec => OneChangeAtATime
<1>1. Init => Held(good)
  BY InitHeld
<1>2. Held(good) /\ [Next]_vars =>
        /\ Held(good)'
        /\ [file' # file => Loadable(file') /\ Load(file') \in Changes(Load(file))]_vars
  BY NextHeld
<1> QED
  BY <1>1, <1>2, PTL DEF Spec, OneChangeAtATime

(* ... and the dashboard explains the verdicts of the lists in force.      *)
THEOREM DashboardAgrees ==
    ASSUME NEW good, Files \subseteq good, RoundTrips(good)
    PROVE  Spec => []CheckAgrees
<1>1. Init => Held(good)
  BY InitHeld
<1>2. Held(good) => CheckAgrees
  <2>1. ListsUpTo \subseteq Lists
    <3>1. BoundedSeq(Entries, MaxLen) \subseteq Seq(Entries)
      BY BoundAssumption DEF BoundedSeq, SeqOf
    <3> QED
      BY <3>1 DEF ListsUpTo, Lists
  <2> QED
    BY <2>1, CheckIsAllow DEF Held, Typed, CheckAgrees
<1>3. Held(good) /\ [Next]_vars => Held(good)'
  BY NextHeld
<1> QED
  BY <1>1, <1>2, <1>3, PTL DEF Spec
=============================================================================
