------------------------------- MODULE LogIni --------------------------------
(* The copy of the ini file class in CLog.cpp, which may ignore the case of    *)
(* names. It works on the objects that IniFile builds up.                      *)
EXTENDS IniFile

CONSTANT LogLower    \* [name -> the same name in lower case]

\* A faulty variant: only one of the names is converted.
LogSameOneSided(a, b) == LogLower[a] = b

\* StringPredicator::equals. A key is a sequence of names.
LogSame(a, b) == LogLower[a] = LogLower[b]

Copy == INSTANCE IniText WITH IniSame <- LogSame

LogIniFind(seq, name) == Copy!IniFind(seq, name)
LogIniEnsure(seq, new) == Copy!IniEnsure(seq, new)
LogIniGet(m, s, k, default) == Copy!IniGet(m, s, k, default)
LogIniQuery(m, s, k, was) == Copy!IniQuery(m, s, k, was)
LogIniSet(m, s, k, v) == Copy!IniSet(m, s, k, v)
LogIniSetComment(m, s, k, c) == Copy!IniSetComment(m, s, k, c)
LogIniInsertSection(m, s) == Copy!IniInsertSection(m, s)
LogIniRemoveSection(m, s) == Copy!IniRemoveSection(m, s)
LogIniRemoveKey(m, s, k) == Copy!IniRemoveKey(m, s, k)
LogIniRemoveComments(m) == Copy!IniRemoveComments(m)
LogIniLoad(lines) == Copy!IniLoad(lines)
LogIniSave(m) == Copy!IniSave(m)

\* queryValue of a bool: only these two words are true.
LogIniBool(m, s, k, was) ==
  IF Copy!IniHas(m, s, k) THEN LogIniQuery(m, s, k, <<>>) \in {<<"true">>, <<"1">>} ELSE was

-----------------------------------------------------------------------------
(* The lines of the file: a line's text is the sequence of its words and marks. *)

\* getFirstVisibleChar: where the text begins, 0 when there is none.
LogIniFirst(text) == SelectInSeq(text, LAMBDA w : w \notin {" ", "\t"})

\* parseSectionName: what is in the brackets, or all from the bracket on.
LogIniSectionOf(text) ==
  LET start == SelectInSeq(text, LAMBDA w : w = "[")
      stop == SelectLastInSeq(text, LAMBDA w : w = "]")
  IN IF stop = 0 THEN IniHead(SubSeq(text, start, Len(text))) ELSE IniHead(SubSeq(text, start + 1, stop - 1))

\* A faulty variant: the end of a line that DOS wrote is left in the value.
LogIniEntryOfUnix(text) ==
  LET eq == SelectInSeq(text, LAMBDA w : w = "=")
  IN IniLine(SubSeq(text, 1, eq - 1), SubSeq(text, eq + 1, Len(text)))

\* parseEntry: the key before the first "=", and the value without the end of a DOS line.
LogIniEntryOf(text) ==
  LET eq == SelectInSeq(text, LAMBDA w : w = "=")
      end == IF Last(text) = "\r" THEN Len(text) - 1 ELSE Len(text)
  IN IniLine(SubSeq(text, 1, eq - 1), SubSeq(text, eq + 1, end))

\* parseLine, and what load makes of the line.
LogIniLineOf(text) ==
  LET mark == IF LogIniFirst(text) = 0 THEN "" ELSE text[LogIniFirst(text)]
  IN IF text = <<>> THEN IniEmpty
     ELSE IF mark \in {";", "#"} THEN IniComment(text)
     ELSE IF mark = "[" THEN LogIniSectionOf(text)
     ELSE IF "=" \in Range(text) THEN LogIniEntryOf(text)
     ELSE IniText(text)

\* The text that save writes for a section and for an entry.
LogIniTextOf(line) ==
  IF line[1] = "section" THEN <<"[">> \o line[2] \o <<"]">> ELSE line[2] \o <<"=">> \o line[3]

-----------------------------------------------------------------------------
(* Properties *)

LogSpellings(names) == {n \in DOMAIN LogLower : \E m \in names : LogLower[n] = LogLower[m]}

\* In a file with sections, a setting written under one spelling is read under each, and
\* under no other name; the removal of a key obeys the same rule, and a section that exists
\* in some spelling is not made a second time (CLog.cpp, ignoreCase).
LogIniAnySpelling ==
  ini.sections # <<>> =>
    \A s \in LogSpellings(IniNames), k \in LogSpellings(IniKeys) :
      LET set == LogIniSet(ini, s, k, <<"new">>)
          gone == LogIniRemoveKey(ini, s, k)
          made == LogIniInsertSection(IniCleared, s)
      IN \A t \in LogSpellings(IniNames) :
           /\ LogIniFind(LogIniRemoveSection(made, t).sections, s) = IF LogLower[s] = LogLower[t] THEN 0 ELSE 1
           /\ \A l \in LogSpellings(IniKeys) :
                IF LogLower[s] = LogLower[t] /\ LogLower[k] = LogLower[l] THEN LogIniQuery(set, t, l, <<>>) = <<"new">>
                ELSE /\ LogIniQuery(set, t, l, <<>>) = LogIniQuery(ini, t, l, <<>>)
                     /\ LogIniGet(gone, t, l, <<>>) = LogIniGet(ini, t, l, <<>>)

\* What the copy saves, it loads again: header, sections, entries and comments.
LogIniRoundTrip ==
  LET changed == LogIniSetComment(LogIniRemoveComments(ini), <<"App">>, CHOOSE k \in IniKeys : TRUE, <<IniComment("set")>>)
  IN LogIniLoad(LogIniSave(changed)) = IniVisible(changed)

\* Every section and entry that was saved is read for what it is, also where an editor
\* of DOS wrote the file anew, or a section was moved in (parseLine, parseEntry).
LogIniLinesRead ==
  \A line \in Range(LogIniSave(ini)), indent \in {<<>>, <<" ", "\t">>}, end \in {<<>>, <<"\r">>} :
    line[1] = "section" \/ (line[1] = "entry" /\ indent = <<>>)
      => LogIniLineOf(indent \o LogIniTextOf(line) \o end) = line
=============================================================================
