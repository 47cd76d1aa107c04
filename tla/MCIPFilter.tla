---------------------------- MODULE MCIPFilter ----------------------------
(* Small instances of IPFilter for TLC. *)
EXTENDS IPFilter

CONSTANTS e1, e2, i1, i2, r1, r2, l1

Alike == Permutations(Requests)

(* A host and the network it is in. *)
HostAndNet == (e1 :> {i1}) @@ (e2 :> {i1, i2})

Switch(b) == Line("enable", b)
Listed(kind, entries) == <<Line(kind, <<>>)>> \o Items(entries)
Comment == Line("note", "comment")
Empty == Line("note", "")
Other == Line("top", "bindPort")

(* A file as README shows it, with comments in the lines of a list and of  *)
(* an entry; one with the lists in their lines, comments inside and a      *)
(* comment of the next section; one that lacks two keys, at the end of the *)
(* file, and has a list that is not the filter's; one with nothing but the *)
(* section's name; one without the section.                                *)
SomeFiles ==
    {<<Other, Line("section", ""), Switch(FALSE), Remarked(Line("allow", <<>>), "in force"),
       Remarked(Line("item", e2), "office")>> \o Listed("deny", <<>>) \o <<Empty, Other>>,
     <<Line("section", ""), Line("deny", <<e1>>), Comment, Line("allow", <<>>),
       Switch(TRUE), Empty, Line("margin", "web"), Other>>,
     <<Other, Line("section", ""), Comment>> \o Listed("key", <<e2>>)
        \o Listed("allow", <<e1>>) \o <<Empty>>,
     <<Line("section", ""), Other>>,
     <<Other, Comment>>}

(* These files and whatever the server makes of them keep what is written: *)
(* the hypothesis of the theorems in IPFilterProofs holds here.            *)
Kept ==
    LET WithSection == {f \in SomeFiles : HasSection(f)}
    IN  SomeFiles \cup {ReplaceIPFilterSection(f, next) : f \in WithSection, next \in ListsUpTo}
ASSUME RoundTripAssumption == RoundTrips(Kept)
=============================================================================
