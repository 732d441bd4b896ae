------------------------------- MODULE IniText -------------------------------
(* What an ini file object does with sections, entries and lines: finding,     *)
(* changing, loading and saving. comn::IniFile compares names as they are,     *)
(* the copy of it in CLog.cpp may ignore their case: IniSame says when two     *)
(* names are the same.                                                         *)
(*                                                                             *)
(* An object is a record of its header and its sections, a section of its name *)
(* and entries, an entry of its name, value and comment. A line is the tuple   *)
(* of its kind and its parts, a name or a value the sequence of its words.     *)
EXTENDS Integers, Sequences, SequencesExt

CONSTANT IniSame(_, _)

IniEmpty == <<"empty">>
IniComment(c) == <<"comment", c>>
IniText(c) == <<"unknown", c>>
IniHead(n) == <<"section", n>>
IniLine(k, v) == <<"entry", k, v>>

-----------------------------------------------------------------------------
(* Finding, reading and changing entries *)

\* The index of the first section or entry that has a name, 0 when none has it.
IniFind(seq, name) == SelectInSeq(seq, LAMBDA e : IniSame(e.name, name))

IniSection(m, s) == m.sections[IniFind(m.sections, s)]
IniHas(m, s, k) == /\ IniFind(m.sections, s) # 0
                   /\ IniFind(IniSection(m, s).entries, k) # 0
IniEntry(m, s, k) == LET sec == IniSection(m, s) IN sec.entries[IniFind(sec.entries, k)]

\* getValue: the whole value, or the default.
IniGet(m, s, k, default) == IF IniHas(m, s, k) THEN IniEntry(m, s, k).value ELSE default

\* A faulty variant: the value is read as it is.
IniQueryWhole(m, s, k, was) == IniGet(m, s, k, was)

\* queryValue of a string: the stream leaves the destination as it was when there
\* is no word to extract, and stops at the end of the first one.
IniQuery(m, s, k, was) ==
  IF IniHas(m, s, k) /\ IniEntry(m, s, k).value # <<>>
  THEN <<Head(IniEntry(m, s, k).value)>>
  ELSE was

\* ensure, of sections and of entries: the first that has the name, or a new last one.
IniEnsure(seq, new) == IF IniFind(seq, new.name) = 0 THEN Append(seq, new) ELSE seq

IniNewEntry(k) == [name |-> k, value |-> <<>>, comment |-> <<>>]
IniNewSection(s) == [name |-> s, entries |-> <<>>]

\* The object after a field of entry k of section s, which is made when missing, changes.
IniChange(m, s, k, field, new) ==
  LET sections == IniEnsure(m.sections, IniNewSection(s))
      i == IniFind(sections, s)
      entries == IniEnsure(sections[i].entries, IniNewEntry(k))
      j == IniFind(entries, k)
  IN [m EXCEPT !.sections = [sections EXCEPT ![i].entries = [entries EXCEPT ![j][field] = new]]]

IniSet(m, s, k, v) == IniChange(m, s, k, "value", v)
IniSetComment(m, s, k, c) == IniChange(m, s, k, "comment", c)

IniInsertSection(m, s) == [m EXCEPT !.sections = IniEnsure(m.sections, IniNewSection(s))]
IniRemoveSection(m, s) ==
  IF IniFind(m.sections, s) = 0 THEN m
  ELSE [m EXCEPT !.sections = RemoveAt(m.sections, IniFind(m.sections, s))]

\* A faulty variant: the name is not looked for before the entry is erased.
IniRemoveKeyFirst(m, s, k) ==
  IF ~IniHas(m, s, k) THEN m
  ELSE [m EXCEPT !.sections[IniFind(m.sections, s)].entries = Tail(@)]

IniRemoveKey(m, s, k) ==
  IF ~IniHas(m, s, k) THEN m
  ELSE LET i == IniFind(m.sections, s)
           entries == m.sections[i].entries
       IN [m EXCEPT !.sections[i].entries = RemoveAt(entries, IniFind(entries, k))]

IniUncommented(sec) == [sec EXCEPT !.entries =
                          [j \in DOMAIN sec.entries |-> [sec.entries[j] EXCEPT !.comment = <<>>]]]
IniRemoveComments(m) == [m EXCEPT !.sections = [i \in DOMAIN m.sections |-> IniUncommented(m.sections[i])]]

-----------------------------------------------------------------------------
(* Loading and saving *)

IniCleared == [header |-> <<>>, sections |-> <<>>]

\* A faulty variant: a section without entries is dropped too.
IniPushedFull(sections, sec) == IF sec.entries = <<>> THEN sections ELSE Append(sections, sec)

\* A section that has neither name nor entries is dropped.
IniPushed(sections, sec) == IF sec = IniNewSection(<<>>) THEN sections ELSE Append(sections, sec)

\* One line: st holds the finished sections, the one being read, and the comment
\* lines and unknown lines that the next entry will own.
IniLoadLine(st, line) ==
  CASE line[1] = "section" -> [st EXCEPT !.done = IniPushed(@, st.sec),
                                         !.sec = IniNewSection(line[2])]
    [] line[1] \in {"comment", "unknown"} -> [st EXCEPT !.comment = Append(@, line)]
    [] line[1] = "entry" -> [st EXCEPT !.sec.entries =
                                         Append(@, [name |-> line[2], value |-> line[3], comment |-> st.comment]),
                                       !.comment = <<>>]
    [] OTHER -> st

\* A faulty variant: the header is all that stands before the first section.
IniLoadTop(lines) ==
  [header |-> SelectSeq(lines, LAMBDA l : l[1] \in {"comment", "unknown"}),
   sections |-> FoldLeft(IniLoadLine, [done |-> <<>>, sec |-> IniNewSection(<<>>), comment |-> <<>>], lines).done]

\* The header is made of the comments before the first other line.
IniLoad(lines) ==
  LET first == SelectInSeq(lines, LAMBDA l : l[1] # "comment")
      rest == IF first = 0 THEN <<>> ELSE SubSeq(lines, first, Len(lines))
      st == FoldLeft(IniLoadLine, [done |-> <<>>, sec |-> IniNewSection(<<>>), comment |-> <<>>], rest)
  IN [header |-> SubSeq(lines, 1, Len(lines) - Len(rest)), sections |-> IniPushed(st.done, st.sec)]

\* A faulty variant: the empty line before a section is left out.
IniSectionLinesTight(sec) ==
  <<IniHead(sec.name)>> \o FlattenSeq([j \in DOMAIN sec.entries |->
                             <<IniLine(sec.entries[j].name, sec.entries[j].value)>> \o sec.entries[j].comment])

IniEntryLines(e) == Append(e.comment, IniLine(e.name, e.value))
IniSectionLines(sec) ==
  <<IniEmpty, IniHead(sec.name)>> \o FlattenSeq([j \in DOMAIN sec.entries |-> IniEntryLines(sec.entries[j])])
IniSave(m) == m.header \o FlattenSeq([i \in DOMAIN m.sections |-> IniSectionLines(m.sections[i])])

=============================================================================
