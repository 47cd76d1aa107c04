----------------------------- MODULE ConfigFile -----------------------------
(***************************************************************************)
(* The configuration file as SaveIPFilter sees it (common/config): lines,  *)
(* of which the ipFilter section is rewritten and the rest is kept.  A     *)
(* line is its kind, what it carries and the comment that follows on it:   *)
(*   section  ipFilter:                                                    *)
(*   enable   the switch, with its value                                   *)
(*   allow, deny   the key of a list; its entries are the item lines that  *)
(*            follow, or stand in the line itself                          *)
(*   item     - entry                                                      *)
(*   key      a key that is no part of the filter                          *)
(*   note     an indented comment or an empty line                         *)
(*   margin   a comment in the first column                                *)
(*   top      a line of another section                                    *)
(***************************************************************************)
EXTENDS Naturals, SequencesExt

Line(kind, val) == [kind |-> kind, val |-> val, remark |-> ""]
Remarked(l, remark) == [l EXCEPT !.remark = remark]

Start(file) == SelectInSeq(file, LAMBDA l : l.kind = "section")
HasSection(file) == Start(file) # 0

(* Where the section ends for the code: at the first line that begins in   *)
(* the first column, less the empty lines before it.                       *)
AtMargin(l) == l.kind \in {"top", "margin", "section"}
Blank(l) == l.kind = "note" /\ l.val = ""
End(file) ==
    LET s == Start(file)
        next == SelectInSubSeq(file, s + 1, Len(file), AtMargin)
        limit == IF next = 0 THEN Len(file) ELSE next - 1
    IN  CHOOSE e \in s..limit : /\ \A i \in (e + 1)..limit : Blank(file[i])
                                /\ e > s => ~Blank(file[e])

Items(list) == [i \in DOMAIN list |-> Line("item", list[i])]
RenderList(kind, list, remark) == <<Remarked(Line(kind, <<>>), remark)>> \o Items(list)

(* Mutant: a key is written again without the comment in its line. *)
RewrittenPlain(l, f) ==
    CASE l.kind = "enable" -> <<Line("enable", f.enable)>>
      [] l.kind = "allow" -> RenderList("allow", f.allow, "")
      [] l.kind = "deny" -> RenderList("deny", f.deny, "")
      [] l.kind = "item" -> <<>>
      [] OTHER -> <<l>>

(* What becomes of a line of the section.  The filter's keys are written   *)
(* again with the comment in their line; every entry goes, with the        *)
(* comment in its line, whatever key it is under.                          *)
Rewritten(l, f) ==
    CASE l.kind = "enable" -> <<Remarked(Line("enable", f.enable), l.remark)>>
      [] l.kind = "allow" -> RenderList("allow", f.allow, l.remark)
      [] l.kind = "deny" -> RenderList("deny", f.deny, l.remark)
      [] l.kind = "item" -> <<>>
      [] OTHER -> <<l>>

(* Keys the section lacks are added at its end. *)
Missing(body, f) ==
    LET Has(kind) == \E i \in DOMAIN body : body[i].kind = kind
    IN  (IF Has("enable") THEN <<>> ELSE <<Line("enable", f.enable)>>)
        \o (IF Has("allow") THEN <<>> ELSE RenderList("allow", f.allow, ""))
        \o (IF Has("deny") THEN <<>> ELSE RenderList("deny", f.deny, ""))

(* replaceIPFilterSection, of a file that has the section. *)
ReplaceIPFilterSection(file, f) ==
    LET body == SubSeq(file, Start(file) + 1, End(file))
    IN  SubSeq(file, 1, Start(file))
        \o FlattenSeq([i \in DOMAIN body |-> Rewritten(body[i], f)])
        \o Missing(body, f)
        \o SubSeq(file, End(file) + 1, Len(file))

(* The section as YAML understands it: up to the next section, whatever    *)
(* comments there are.  A key that occurs twice is an error.               *)
Section(file) ==
    LET s == Start(file)
        next == SelectInSubSeq(file, s + 1, Len(file), LAMBDA l : l.kind = "top")
    IN  IF s = 0 THEN <<>>
        ELSE SelectSeq(SubSeq(file, s + 1, IF next = 0 THEN Len(file) ELSE next - 1),
                       LAMBDA l : l.kind \notin {"note", "margin"})

Keys == {"enable", "allow", "deny"}
Loadable(file) ==
    LET body == Section(file)
    IN  \A i, j \in DOMAIN body : body[i].kind \in Keys /\ body[i].kind = body[j].kind => i = j

(* The list under a key: what stands in its line, then the item lines that *)
(* follow.                                                                 *)
ListUnder(body, kind) ==
    LET k == SelectInSeq(body, LAMBDA l : l.kind = kind)
        next == SelectInSubSeq(body, k + 1, Len(body), LAMBDA l : l.kind # "item")
        items == SubSeq(body, k + 1, IF next = 0 THEN Len(body) ELSE next - 1)
    IN  IF k = 0 THEN <<>>
        ELSE body[k].val \o [i \in DOMAIN items |-> items[i].val]

(* LoadServerConfig, as far as the filter goes. *)
Load(file) ==
    LET body == Section(file)
        e == SelectInSeq(body, LAMBDA l : l.kind = "enable")
    IN  [enable |-> IF e = 0 THEN FALSE ELSE body[e].val,
         allow |-> ListUnder(body, "allow"),
         deny |-> ListUnder(body, "deny")]

(* Everything that is neither the filter's nor an entry: whole lines, and  *)
(* the comments in the lines of the filter's keys.                         *)
Others(file) ==
    LET Erased(l) == IF l.kind \in Keys THEN [l EXCEPT !.val = <<>>] ELSE l
        lines == [i \in DOMAIN file |-> Erased(file[i])]
    IN  SelectSeq(lines, LAMBDA l : IF l.kind \in Keys THEN l.remark # ""
                                    ELSE l.kind # "item")
=============================================================================
