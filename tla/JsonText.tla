------------------------------ MODULE JsonText ------------------------------
(***************************************************************************)
(* The JSON that fsrip prints by hand (jsonhelp.h, util.cpp), and whether  *)
(* a text is JSON.                                                         *)
(*                                                                         *)
(* A text is a sequence of tokens: the six marks of JSON, "val" for a      *)
(* number or a string that needs no escape, "junk" for what follows a      *)
(* quotation mark inside of a string, and the names of members.  A name    *)
(* that no colon follows stands for a member with a value like "val".      *)
(***************************************************************************)
EXTENDS Integers, SequencesExt

Marks == {"{", "}", "[", "]", ",", ":"}

\* Strings that are printed: ones without special characters, and ones with a quotation
\* mark in them.
Strings == {"plain", "quoted"}

\* j(const std::string&) puts quotation marks around x, and does nothing else.
j(x) == IF x = "quoted" THEN <<"val", "junk">> ELSE <<"val">>

\* JsonPair: a member, with the comma that divides it from the one before.
pair(key, val, first) == (IF first THEN <<>> ELSE <<",">>) \o <<key, ":">> \o val

\* Members that are numbers, or strings known to need no escape.
plainPairs(keys, first) ==
    FlattenSeq([i \in 1 .. Len(keys) |-> IF first /\ i = 1 THEN <<keys[i]>> ELSE <<",", keys[i]>>])

\* writeSequence, over texts already printed.
writeSequence(texts) ==
    FlattenSeq([i \in 1 .. Len(texts) |-> (IF i = 1 THEN <<>> ELSE <<",">>) \o texts[i]])

-----------------------------------------------------------------------------
(***************************************************************************)
(* The grammar.  open holds the objects and arrays not closed yet, with    *)
(* the members of each object; want is what may come next.                 *)
(***************************************************************************)
Begin == [open |-> <<>>, want |-> "value"]

Bad == [open |-> <<>>, want |-> "nothing"]

\* A value is complete.
Complete(open) == [open |-> open, want |-> IF open = <<>> THEN "end" ELSE "next"]

AfterToken(s, t) ==
    LET top   == Last(s.open)
        outer == Front(s.open)
        within(kind, want) == [open |-> Append(s.open, [kind |-> kind, keys |-> {}]), want |-> want]
    IN  CASE s.want \in {"value", "first value"} /\ t = "{"   -> within("{", "first key")
          [] s.want \in {"value", "first value"} /\ t = "["   -> within("[", "first value")
          [] s.want \in {"value", "first value"} /\ t = "val" -> Complete(s.open)
          [] s.want = "first value" /\ t = "]"                -> Complete(outer)
          [] s.want = "first key" /\ t = "}"                  -> Complete(outer)
          [] /\ s.want \in {"key", "first key"}
             /\ t \notin Marks \cup {"val", "junk"} \cup top.keys ->
                 [open |-> Append(outer, [top EXCEPT !.keys = @ \cup {t}]), want |-> "member"]
          [] s.want = "member" /\ t = ":"                     -> [s EXCEPT !.want = "value"]
          [] s.want \in {"next", "member"} /\ t = "," ->
                 [s EXCEPT !.want = IF top.kind = "{" THEN "key" ELSE "value"]
          [] s.want \in {"next", "member"} /\ <<top.kind, t>> \in {<<"{", "}">>, <<"[", "]">>} -> Complete(outer)
          [] OTHER -> Bad

\* What the tokens of text behind number first, up to number last, make of state s.
ReadPart(s, text, first, last) ==
    LET read[n \in first .. last] == IF n = first THEN s ELSE AfterToken(read[n - 1], text[n])
    IN  read[last]

\* A text is read in parts of twenty tokens, each when the state before it is known: in one
\* go, TLC would go as deep as the text is long.
PartEnd(text, k) == IF 20 * k <= Len(text) THEN 20 * k ELSE Len(text)

Read(s, text) ==
    LET parts == (Len(text) + 19) \div 20
        read[k \in 0 .. parts] ==
            IF k = 0 THEN s
            ELSE CHOOSE t \in {ReadPart(known, text, PartEnd(text, k - 1), PartEnd(text, k)) :
                                   known \in {read[k - 1]}} : TRUE
    IN  read[parts]

\* One JSON value, in which no object has two members of one name.
IsJson(text) == Read(Begin, text).want = "end"
=============================================================================
