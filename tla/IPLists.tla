------------------------------ MODULE IPLists ------------------------------
(***************************************************************************)
(* What an IP filter decides (common/ipfilter): Allow, which listeners     *)
(* use, and Check, which the dashboard shows.  An entry of a list is a     *)
(* network; of a network only matters which addresses are in it.           *)
(***************************************************************************)
EXTENDS Naturals, Sequences

CONSTANTS
    Entries,  \* IPs and CIDRs in normal form
    Addrs,    \* addresses
    Net,      \* the addresses of an entry
    None      \* an address that cannot be parsed; no rule

ASSUME NetAssumption == Net \in [Entries -> SUBSET Addrs]
ASSUME NoneAssumption == None \notin Entries \cup Addrs

Lists == [enable : BOOLEAN, allow : Seq(Entries), deny : Seq(Entries)]

Covers(list, ip) == \E i \in DOMAIN list : ip \in Net[list[i]]

(* The first rule that is hit. *)
First(list, ip, i) ==
    /\ ip \in Net[list[i]]
    /\ \A j \in DOMAIN list : ip \in Net[list[j]] => i <= j
Match(list, ip) ==
    IF Covers(list, ip) THEN list[CHOOSE i \in DOMAIN list : First(list, ip, i)] ELSE None

(* Mutant: the allow list comes first. *)
AllowFirst(f, ip) ==
    ~f.enable \/ (ip # None /\ (Covers(f.allow, ip) \/ (f.allow = <<>> /\ ~Covers(f.deny, ip))))

(* Deny first; a non-empty allow list lets nobody else in. *)
Allow(f, ip) ==
    ~f.enable \/ (/\ ip # None
                  /\ ~Covers(f.deny, ip)
                  /\ f.allow # <<>> => Covers(f.allow, ip))

Result(f, allowed, rule, source) ==
    [enabled |-> f.enable, allowed |-> allowed, rule |-> rule, source |-> source]

Check(f, ip) ==
    IF ~f.enable THEN Result(f, TRUE, None, "default")
    ELSE IF ip = None THEN Result(f, FALSE, None, "default")
    ELSE IF Match(f.deny, ip) # None THEN Result(f, FALSE, Match(f.deny, ip), "deny")
    ELSE IF f.allow = <<>> THEN Result(f, TRUE, None, "default")
    ELSE IF Match(f.allow, ip) # None THEN Result(f, TRUE, Match(f.allow, ip), "allow")
    ELSE Result(f, FALSE, None, "default")

-----------------------------------------------------------------------------
(* Check tells what Allow does: comment at Check in ipfilter.go and README *)
(* (the order of judgement is that of the running filter).  The rule it    *)
(* names is one of the list it names and contains the address.             *)
CheckExplains(f, ip) ==
    LET c == Check(f, ip)
    IN  /\ c.allowed = Allow(f, ip)
        /\ c.source = "default" <=> c.rule = None
        /\ c.source = "deny" => c.rule \in Entries /\ ip \in Net[c.rule] /\ ~c.allowed
        /\ c.source = "allow" => c.rule \in Entries /\ ip \in Net[c.rule] /\ c.allowed
=============================================================================
