------------------------------- MODULE IniFile -------------------------------
(* comn::IniFile and AppConfig, through which the programs read their          *)
(* settings: the object, the file it is loaded from and saved to, and the      *)
(* operations on it. A path is the sequence of its parts between dots.         *)
(* Comments are given to setComment as whole lines.                            *)
EXTENDS IniText

CONSTANTS
  IniNames,      \* section names besides the empty one
  IniKeys,       \* key names
  IniWords,      \* words of which values are made
  IniFiles,      \* the files the program may be started with: sequences of lines
  IniMaxOps      \* bound: operations after the first load

VARIABLES
  ini,           \* the object: m_fileComment and m_sections
  iniDisk,       \* the file, a sequence of lines
  iniOps         \* operations done

iniVars == <<ini, iniDisk, iniOps>>

-----------------------------------------------------------------------------
(* AppConfig: settings by path *)

\* The section and the key of a path; a path without a dot is in section App.
AppSplit(path) == IF Len(path) <= 1 THEN <<<<"App">>, path>> ELSE <<<<Head(path)>>, Tail(path)>>

AppGet(m, path, default) == IniQuery(m, AppSplit(path)[1], AppSplit(path)[2], default)
AppSet(m, path, v) == IniSet(m, AppSplit(path)[1], AppSplit(path)[2], v)

AppGetBool(m, path, default) ==
  LET s == AppSplit(path)[1]
      k == AppSplit(path)[2]
  IN IF IniHas(m, s, k) THEN IniQuery(m, s, k, <<>>) \notin {<<>>, <<"0">>, <<"false">>} ELSE default

AppGetKeys(m, s) ==
  IF IniFind(m.sections, s) = 0 THEN <<>>
  ELSE LET entries == IniSection(m, s).entries IN [j \in DOMAIN entries |-> entries[j].name]

-----------------------------------------------------------------------------
(* The program *)

IniValues == {<<>>} \cup {<<w>> : w \in IniWords} \cup {<<w, w>> : w \in IniWords}
IniPaths == {n \o k : n \in IniNames, k \in IniKeys} \cup IniKeys

IniInit ==
  /\ iniDisk \in IniFiles
  /\ ini = IniLoad(iniDisk)
  /\ iniOps = 0

IniDo(m) ==
  /\ iniOps < IniMaxOps
  /\ iniOps' = iniOps + 1
  /\ ini' = m
  /\ UNCHANGED iniDisk

IniSetting(path, v) == IniDo(AppSet(ini, path, v))
IniRemoving(s, k) == IniDo(IniRemoveKey(ini, s, k))
IniErasing(s) == IniDo(IniRemoveSection(ini, s))
IniInserting(s) == IniDo(IniInsertSection(ini, s))
IniCommenting(s, k) == IniDo(IniSetComment(ini, s, k, <<IniComment("set")>>))
IniUncommenting == IniDo(IniRemoveComments(ini))
IniHeading == IniDo([ini EXCEPT !.header = <<IniComment("set")>>])
IniReloading == IniDo(IniLoad(iniDisk))

IniSaving ==
  /\ iniOps < IniMaxOps
  /\ iniOps' = iniOps + 1
  /\ iniDisk' = IniSave(ini)
  /\ UNCHANGED ini

IniNext ==
  \/ \E path \in IniPaths, v \in IniValues : IniSetting(path, v)
  \/ \E s \in IniNames \cup {<<>>}, k \in IniKeys : IniRemoving(s, k) \/ IniCommenting(s, k)
  \/ \E s \in IniNames \cup {<<>>} : IniErasing(s) \/ IniInserting(s)
  \/ IniUncommenting \/ IniHeading \/ IniReloading \/ IniSaving

-----------------------------------------------------------------------------
(* Properties *)

IniLines == {IniComment("c"), IniComment("set"), IniText("t")}

\* Sections hold entries, entries a value and the lines of their comment.
IniTypeOK ==
  /\ \A i \in DOMAIN ini.header : ini.header[i][1] = "comment"
  /\ \A i \in DOMAIN ini.sections :
       /\ ini.sections[i].name \in IniNames \cup {<<>>}
       /\ \A j \in DOMAIN ini.sections[i].entries :
            LET e == ini.sections[i].entries[j]
            IN /\ e.name \in IniKeys
               /\ e.value \in IniValues
               /\ \A n \in DOMAIN e.comment : e.comment[n] \in IniLines
  /\ iniOps \in 0..IniMaxOps

\* Sections that a file can tell from nothing.
IniVisible(m) == [m EXCEPT !.sections = SelectSeq(@, LAMBDA sec : sec # IniNewSection(<<>>))]

\* Whatever was loaded, set, removed or commented on: a program that loads what save
\* writes has the same header, the same sections and entries in the same order, and
\* each comment before the entry it was before (IniFile::load, save).
IniRoundTrip == IniLoad(IniSave(ini)) = IniVisible(ini)

\* A setting is read back by its path, as its first word; an empty one reads as the
\* default, as "IP=" of the programs' files does; no other setting changes
\* (AppConfig::set, get).
IniSetsOne ==
  [][\A path \in IniPaths, v \in IniValues : IniSetting(path, v) =>
       \A p \in IniPaths :
         AppGet(ini', p, <<"default">>) =
           IF AppSplit(p) # AppSplit(path) THEN AppGet(ini, p, <<"default">>)
           ELSE IF v = <<>> THEN <<"default">> ELSE <<v[1]>>]_iniVars

\* What is removed is one occurrence of the key named, and no other key of any
\* section reads differently (IniFile::removeKey).
IniOccurrences(m, s, k) ==
  IF IniFind(m.sections, s) = 0 THEN 0
  ELSE Len(SelectSeq(IniSection(m, s).entries, LAMBDA e : IniSame(e.name, k)))

IniRemovesOne ==
  [][\A s \in IniNames \cup {<<>>}, k \in IniKeys : IniRemoving(s, k) =>
       \A t \in IniNames \cup {<<>>}, l \in IniKeys :
         IF <<t, l>> = <<s, k>>
         THEN IniOccurrences(ini', s, k) + (IF IniHas(ini, s, k) THEN 1 ELSE 0) = IniOccurrences(ini, s, k)
         ELSE /\ IniGet(ini', t, l, <<"default">>) = IniGet(ini, t, l, <<"default">>)
              /\ IniOccurrences(ini', t, l) = IniOccurrences(ini, t, l)]_iniVars
=============================================================================
