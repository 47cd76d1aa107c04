------------------------------ MODULE IPFilter ------------------------------
(***************************************************************************)
(* The IP filter of a running server: the dashboard changes it             *)
(* (server/web.go), the configuration file keeps it (common/config) and    *)
(* the listeners ask it (common/ipfilter).                                 *)
(*                                                                         *)
(* A change holds ipMu from the copy of the lists to the reply and passes  *)
(* the temporary file, the rename, the filter and the configuration in     *)
(* memory.  It may fail, and the server may die, between any two of these. *)
(* A listener asks twice, Enabled and then Allow, each under a read lock   *)
(* of its own.                                                             *)
(***************************************************************************)
EXTENDS IPLists, ConfigFile

CONSTANTS
    Requests,   \* handlers of dashboard requests
    Listeners,  \* goroutines that judge an address
    Files,      \* configuration files the server may be started with
    MaxLen,     \* bound: entries of a list
    Nobody

ASSUME BoundAssumption == MaxLen \in Nat
ASSUME NobodyAssumption == Nobody \notin Requests

VARIABLES
    file,    \* the configuration file
    tmp,     \* the temporary file beside it: absent, torn or complete
    up,      \* the server runs
    cfg,     \* Server.cfg.IPFilter
    filter,  \* the lists the listeners use
    ipMu,    \* who holds Server.ipMu
    req,     \* dashboard requests under way
    call     \* AllowAddr calls under way

vars == <<file, tmp, up, cfg, filter, ipMu, req, call>>

NoLists == [enable |-> FALSE, allow |-> <<>>, deny |-> <<>>]
Free == [at |-> "free", next |-> NoLists]
Quiet == [at |-> "quiet", ip |-> None, since |-> {}]

ListsUpTo == [enable : BOOLEAN, allow : BoundedSeq(Entries, MaxLen),
              deny : BoundedSeq(Entries, MaxLen)]

TypeOK ==
    /\ tmp \in {"absent", "torn", "complete"}
    /\ up \in BOOLEAN
    /\ cfg \in ListsUpTo /\ filter \in ListsUpTo
    /\ ipMu \in Requests \cup {Nobody}
    /\ req \in [Requests -> [at : {"free", "write", "rename", "reload", "commit"},
                             next : ListsUpTo]]
    /\ \A l \in Listeners : /\ call[l].at \in {"quiet", "asked", "let in", "kept out"}
                            /\ call[l].ip \in Addrs \cup {None}
                            /\ call[l].since \subseteq BOOLEAN

Init ==
    /\ file \in Files
    /\ tmp = "absent"
    /\ up = TRUE
    /\ cfg = Load(file)
    /\ filter = Load(file)
    /\ ipMu = Nobody
    /\ req = [r \in Requests |-> Free]
    /\ call = [l \in Listeners |-> Quiet]

-----------------------------------------------------------------------------
(* What the dashboard may ask for: the switch, and adding to and removing  *)
(* from either list.  An entry that is there is not added again.           *)
With(list, e) == IF e \in ToSet(list) THEN list ELSE Append(list, e)
Without(list, e) == SelectSeq(list, LAMBDA x : x # e)

Changes(f) ==
    {[f EXCEPT !.enable = b] : b \in BOOLEAN}
    \cup UNION {{[f EXCEPT !.allow = With(@, e)], [f EXCEPT !.deny = With(@, e)],
                 [f EXCEPT !.allow = Without(@, e)], [f EXCEPT !.deny = Without(@, e)]} :
                e \in Entries}

-----------------------------------------------------------------------------
(* mutateIPFilter.  The entries were brought to normal form before, so     *)
(* Validate and Reload have nothing to object to.                          *)

(* Mutant: the lists are copied before the lock is taken. *)
BeginUnlocked(r) ==
    /\ up
    /\ req[r].at = "free"
    /\ \E next \in Changes(cfg) \cap ListsUpTo :
        req' = [req EXCEPT ![r] = [at |-> "write", next |-> next]]
    /\ UNCHANGED <<file, tmp, up, cfg, filter, ipMu, call>>

Begin(r) ==
    /\ up
    /\ req[r].at = "free"
    /\ ipMu = Nobody
    /\ ipMu' = r
    /\ \E next \in Changes(cfg) \cap ListsUpTo :
        req' = [req EXCEPT ![r] = [at |-> "write", next |-> next]]
    /\ UNCHANGED <<file, tmp, up, cfg, filter, call>>

(* The request is answered. *)
Reply(r) ==
    /\ req' = [req EXCEPT ![r] = Free]
    /\ ipMu' = Nobody

(* SaveIPFilter: read, write beside it, rename.  A file without an         *)
(* ipFilter section is an error.                                           *)
Write(r) ==
    /\ req[r].at = "write"
    /\ HasSection(file)
    /\ tmp' = "complete"
    /\ req' = [req EXCEPT ![r].at = "rename"]
    /\ UNCHANGED <<file, up, cfg, filter, ipMu, call>>

WriteFails(r) ==
    /\ req[r].at = "write"
    /\ tmp' = tmp \/ (HasSection(file) /\ tmp' = "torn")
    /\ Reply(r)
    /\ UNCHANGED <<file, up, cfg, filter, call>>

Rename(r) ==
    /\ req[r].at = "rename"
    /\ file' = ReplaceIPFilterSection(file, req[r].next)
    /\ tmp' = "absent"
    /\ req' = [req EXCEPT ![r].at = "reload"]
    /\ UNCHANGED <<up, cfg, filter, ipMu, call>>

(* Mutant: the error is not noticed. *)
RenameIgnored(r) ==
    /\ req[r].at = "rename"
    /\ tmp' = "absent"
    /\ req' = [req EXCEPT ![r].at = "reload"]
    /\ UNCHANGED <<file, up, cfg, filter, ipMu, call>>

RenameFails(r) ==
    /\ req[r].at = "rename"
    /\ tmp' = "absent"
    /\ Reply(r)
    /\ UNCHANGED <<file, up, cfg, filter, call>>

(* Filter.Reload: one write lock.  (since: the verdicts on the address     *)
(* that held at some time during the call.)                                *)
Reload(r) ==
    /\ req[r].at = "reload"
    /\ filter' = req[r].next
    /\ call' = [l \in Listeners |->
                    IF call[l].at # "asked" THEN call[l]
                    ELSE [call[l] EXCEPT !.since = @ \cup {Allow(req[r].next, call[l].ip)}]]
    /\ req' = [req EXCEPT ![r].at = "commit"]
    /\ UNCHANGED <<file, tmp, up, cfg, ipMu>>

Commit(r) ==
    /\ req[r].at = "commit"
    /\ cfg' = req[r].next
    /\ Reply(r)
    /\ UNCHANGED <<file, tmp, up, filter, call>>

-----------------------------------------------------------------------------
(* AllowAddr, when the filter is enabled at the first look; otherwise the  *)
(* address is let in at once.                                              *)
Enabled(l) ==
    /\ up
    /\ call[l].at = "quiet"
    /\ filter.enable
    /\ \E ip \in Addrs \cup {None} :
        call' = [call EXCEPT ![l] = [Quiet EXCEPT !.at = "asked", !.ip = ip,
                                                  !.since = {Allow(filter, ip)}]]
    /\ UNCHANGED <<file, tmp, up, cfg, filter, ipMu, req>>

Judged(l, verdict) ==
    /\ call[l].at = "asked"
    /\ call' = [call EXCEPT ![l].at = IF verdict THEN "let in" ELSE "kept out"]
    /\ UNCHANGED <<file, tmp, up, cfg, filter, ipMu, req>>

(* Mutant: the switch is not looked at again. *)
JudgeOn(l) == Judged(l, Allow([filter EXCEPT !.enable = TRUE], call[l].ip))

Judge(l) == Judged(l, Allow(filter, call[l].ip))

Return(l) ==
    /\ call[l].at \in {"let in", "kept out"}
    /\ call' = [call EXCEPT ![l] = Quiet]
    /\ UNCHANGED <<file, tmp, up, cfg, filter, ipMu, req>>

-----------------------------------------------------------------------------
(* The process is killed; it is started again and loads the file.  What is *)
(* on disk stays (the machine itself does not fail).                       *)
Crash ==
    /\ up
    /\ up' = FALSE
    /\ \/ tmp' = tmp
       \/ HasSection(file) /\ (\E r \in Requests : req[r].at = "write") /\ tmp' = "torn"
    /\ ipMu' = Nobody
    /\ req' = [r \in Requests |-> Free]
    /\ call' = [l \in Listeners |-> Quiet]
    /\ cfg' = NoLists
    /\ filter' = NoLists
    /\ UNCHANGED file

(* Mutant: the entries of the file are added twice. *)
RestartTwice ==
    /\ ~up
    /\ Loadable(file)
    /\ up' = TRUE
    /\ cfg' = [Load(file) EXCEPT !.allow = @ \o @, !.deny = @ \o @]
    /\ filter' = cfg'
    /\ UNCHANGED <<file, tmp, ipMu, req, call>>

Restart ==
    /\ ~up
    /\ Loadable(file)
    /\ up' = TRUE
    /\ cfg' = Load(file)
    /\ filter' = Load(file)
    /\ UNCHANGED <<file, tmp, ipMu, req, call>>

-----------------------------------------------------------------------------
RequestNext(r) ==
    \/ Begin(r) \/ Write(r) \/ WriteFails(r) \/ Rename(r) \/ RenameFails(r)
    \/ Reload(r) \/ Commit(r)

ListenerNext(l) == Enabled(l) \/ Judge(l) \/ Return(l)

Next ==
    \/ \E r \in Requests : RequestNext(r)
    \/ \E l \in Listeners : ListenerNext(l)
    \/ Crash \/ Restart

Spec == Init /\ [][Next]_vars

-----------------------------------------------------------------------------
(* Properties. *)

(* Comment at mutateIPFilter: a step that fails leaves file and lists as   *)
(* they were.  Between requests the file, the filter and the configuration *)
(* in memory say the same, whatever failed and whenever the server died;   *)
(* during one the file is changed before the filter.                       *)
Agreement ==
    up => \/ ipMu = Nobody /\ Load(file) = cfg /\ filter = cfg
          \/ \E r \in Requests :
                /\ ipMu = r
                /\ Load(file) \in {cfg, req[r].next}
                /\ filter \in {cfg, Load(file)}

(* Every write of the file is one change someone asked for, made to what   *)
(* the file says: no earlier change is lost, not even across a crash, and  *)
(* the file can always be loaded.                                          *)
OneChangeAtATime ==
    [][file' # file => Loadable(file') /\ Load(file') \in Changes(Load(file))]_vars

(* README: the rest of the file and its comments stay as they are.  Not so *)
(* what stands in or behind an entry: its line is written anew, and those  *)
(* under a key that is not the filter's are gone.  All else stays, in its  *)
(* order, however often the section is rewritten.                          *)
OthersKept == [][Others(file') = Others(file)]_vars

(* AllowAddr takes the lock twice.  Its verdict is nevertheless that of    *)
(* lists that were in force at one time during the call.                   *)
VerdictInForce ==
    \A l \in Listeners :
        /\ call[l].at = "let in" => TRUE \in call[l].since
        /\ call[l].at = "kept out" => FALSE \in call[l].since

(* Whatever lists the dashboard put in force, its check of an address says *)
(* what the listeners do, and why.                                         *)
CheckAgrees == \A ip \in Addrs \cup {None} : CheckExplains(filter, ip)

-----------------------------------------------------------------------------
(* Files on which writing and reading agree, as far as the lists go.  The  *)
(* text is the matter of the runs; what the server makes of it is not.     *)
RoundTrips(good) ==
    \A f \in good :
        /\ Loadable(f) /\ Load(f) \in ListsUpTo
        /\ HasSection(f) =>
            \A next \in ListsUpTo : /\ ReplaceIPFilterSection(f, next) \in good
                                    /\ Load(ReplaceIPFilterSection(f, next)) = next
=============================================================================
