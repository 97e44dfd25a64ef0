----------------------------- MODULE PoCatalogue -----------------------------
(***************************************************************************)
(* read_po (i18n.py): the translations out of a .po file, line by line, in *)
(* a source checkout, which has no compiled catalogues.                    *)
(*                                                                         *)
(* The file is its entries; how each is laid out in lines, with comments,  *)
(* blank lines or none, strings in one line or several, is chosen as it is *)
(* read.  A text is a sequence of words.                                   *)
(***************************************************************************)
EXTENDS Naturals, Sequences, SequencesExt

CONSTANTS
  Ids, Strings,  \* texts: of msgid and msgstr, the empty one included
  MaxEntries

Texts == \A text \in Ids \cup Strings : text \in Seq(ToSet(text))

VARIABLES
  phase,    \* "read" or "done"
  po,       \* the entries of the file
  nth,      \* the one being read
  part,     \* and how far: "start", "flagged", "msgid" or "msgstr"
  rest,     \* what is left of its msgid or msgstr
  catalog, entry, field, fuzzy

poVars == <<phase, po, nth, part, rest, catalog, entry, field, fuzzy>>

NoEntry == [msgid |-> <<>>, msgstr |-> <<>>]

\* msgfmt refuses a file that has a msgid twice.
Init ==
  /\ phase = "read" /\ nth = 1 /\ part = "start" /\ rest = <<>>
  /\ \E n \in 1 .. MaxEntries :
       po \in [1 .. n -> [msgid : Ids, msgstr : Strings, fuzzy : BOOLEAN]]
  /\ \A i, j \in 1 .. Len(po) : i # j => po[i].msgid # po[j].msgid
  /\ catalog = {} /\ entry = NoEntry /\ field = "none" /\ fuzzy = FALSE

-----------------------------------------------------------------------------
(* The reader                                                              *)

\* flush
Flushed ==
  IF entry.msgid # <<>> /\ entry.msgstr # <<>> /\ ~fuzzy THEN catalog \cup {entry} ELSE catalog

\* Mutant: only a comment starts the next entry.
StartsAtComment(line) == line = "blank" \/ (field = "msgstr" /\ line \in {"comment", "flag"})

\* "a comment or a msgid after a msgstr starts the next entry", a blank line too.
Starts(line) == line = "blank" \/ (field = "msgstr" /\ line \in {"comment", "flag", "msgid"})

\* One line, with the text in it.
Read(line, text) ==
  LET before == IF Starts(line) THEN NoEntry ELSE entry IN
  /\ catalog' = IF Starts(line) THEN Flushed ELSE catalog
  /\ fuzzy' = (line = "flag" \/ (~Starts(line) /\ fuzzy))
  /\ field' = IF line \in {"msgid", "msgstr"} THEN line
              ELSE IF Starts(line) THEN "none" ELSE field
  /\ entry' = CASE line = "msgid" -> [before EXCEPT !.msgid = text]
                [] line = "msgstr" -> [before EXCEPT !.msgstr = text]
                [] line = "string" /\ field = "msgid" -> [before EXCEPT !.msgid = @ \o text]
                [] line = "string" /\ field = "msgstr" -> [before EXCEPT !.msgstr = @ \o text]
                [] OTHER -> before

-----------------------------------------------------------------------------
(* The lines                                                               *)

Reading == phase = "read" /\ UNCHANGED <<phase, po>>
EntryEnds == part = "msgstr" /\ rest = <<>>

\* Blank lines stand between entries, comments before the strings of one.
Blank ==
  /\ Reading /\ (part = "start" \/ EntryEnds)
  /\ Read("blank", <<>>) /\ UNCHANGED <<nth, part, rest>>
Comment ==
  /\ Reading /\ part \in {"start", "flagged"}
  /\ Read("comment", <<>>) /\ UNCHANGED <<nth, part, rest>>
Flag ==
  /\ Reading /\ part = "start" /\ po[nth].fuzzy /\ part' = "flagged"
  /\ Read("flag", <<>>) /\ UNCHANGED <<nth, rest>>

\* A string begins on the line of its keyword, or on the next one.
Keyword(line, text) ==
  \E n \in 0 .. Len(text) :
    /\ Read(line, SubSeq(text, 1, n)) /\ rest' = SubSeq(text, n + 1, Len(text))
    /\ part' = line /\ UNCHANGED nth
Msgid ==
  /\ Reading /\ part = IF po[nth].fuzzy THEN "flagged" ELSE "start"
  /\ Keyword("msgid", po[nth].msgid)
Msgstr == Reading /\ part = "msgid" /\ rest = <<>> /\ Keyword("msgstr", po[nth].msgstr)
MoreString ==
  /\ Reading /\ rest # <<>> /\ rest' = Tail(rest)
  /\ Read("string", <<Head(rest)>>) /\ UNCHANGED <<nth, part>>

NextEntry ==
  /\ Reading /\ EntryEnds /\ nth < Len(po) /\ nth' = nth + 1 /\ part' = "start"
  /\ UNCHANGED <<rest, catalog, entry, field, fuzzy>>
EndOfFile ==
  /\ phase = "read" /\ EntryEnds /\ nth = Len(po) /\ phase' = "done" /\ catalog' = Flushed
  /\ UNCHANGED <<po, nth, part, rest, entry, field, fuzzy>>

Next == Blank \/ Comment \/ Flag \/ Msgid \/ Msgstr \/ MoreString \/ NextEntry \/ EndOfFile

Spec == Init /\ [][Next]_poVars

-----------------------------------------------------------------------------
\* read_po: the catalogue has each translated entry, whole, and the
\* "untranslated and fuzzy entries left out", however the file is laid out.
CatalogueIsRight ==
  phase = "done" =>
    catalog = {[msgid |-> e.msgid, msgstr |-> e.msgstr] :
                 e \in {f \in ToSet(po) : f.msgid # <<>> /\ f.msgstr # <<>> /\ ~f.fuzzy}}
=============================================================================
