------------------------------- MODULE Options -------------------------------
(* OptionParser: the options of a program, the parsing of command lines, item  *)
(* by item, and what the program is told of them. A name of an option or an    *)
(* item is a string, and OpLetters are the names of one character.             *)
EXTENDS TextUtil

CONSTANTS
  OpLetters,     \* the letters that options have
  OpLongs,       \* the long names, of which some may be letters
  OpTexts,       \* values and plain items
  OpDefaults,    \* default values
  OpMaxWork      \* bound: command lines, and items in all of them

\* No name, no option, no text.
OpNone == ""

ASSUME OptionsAssumption == OpNone \notin OpLetters \cup OpLongs /\ OpMaxWork \in Nat

VARIABLES
  opMap,         \* m_optionMap: options by long name
  opArgs,        \* m_args
  opParsing,     \* parse runs
  opOption,      \* its option: the name in the map, or OpNone
  opNeedArg,     \* its needArg
  opLine,        \* the items that parse has gone through
  opResult,      \* what the last parse gave, or will give
  opWork         \* command lines and items so far

opVars == <<opMap, opArgs, opParsing, opOption, opNeedArg, opLine, opResult, opWork>>

\* Option::equal, existOption: the letter or the long name is taken.
OpTaken(short, long) ==
  \E o \in DOMAIN opMap : (opMap[o].short = short /\ short # OpNone) \/ o = long

\* A faulty variant: the letter is looked up first.
OpFindLetter(name) ==
  LET short == {o \in DOMAIN opMap : opMap[o].short = name}
  IN IF short # {} THEN CHOOSE o \in short : TRUE ELSE IF name \in DOMAIN opMap THEN name ELSE OpNone

\* find, findOption: by the long name, then a name of one character by the letter.
OpFind(name) ==
  LET short == {o \in DOMAIN opMap : opMap[o].short = name}
  IN IF name \in DOMAIN opMap THEN name
     ELSE IF name \in OpLetters /\ short # {} THEN CHOOSE o \in short : TRUE ELSE OpNone

\* addOption; without a long name the letter is it.
OpAddOption(short, long, needArg, def) ==
  /\ ~opParsing /\ opWork = 0
  /\ short # OpNone \/ long # OpNone
  /\ LET name == IF long = OpNone THEN short ELSE long
     IN /\ ~OpTaken(short, name)
        /\ opMap' = [o \in DOMAIN opMap \cup {name} |->
                       IF o = name
                       THEN [short |-> short, needArg |-> needArg, def |-> def, present |-> FALSE, value |-> def]
                       ELSE opMap[o]]
  /\ UNCHANGED <<opArgs, opParsing, opOption, opNeedArg, opLine, opResult, opWork>>

\* parse is called with a program and its items, or with nothing at all, which fails at once.
OpBegin(empty) ==
  /\ ~opParsing /\ opWork < OpMaxWork
  /\ opArgs' = <<>> /\ opLine' = <<>> /\ opOption' = OpNone /\ opNeedArg' = FALSE
  /\ opParsing' = ~empty /\ opResult' = ~empty /\ opWork' = opWork + 1

\* A faulty variant: what was present stays so.
OpParseUncleared(empty) == OpBegin(empty) /\ UNCHANGED opMap

\* parse clears what the line before it left, the values apart (clearResult).
OpParse(empty) ==
  /\ OpBegin(empty)
  /\ opMap' = [o \in DOMAIN opMap |-> [opMap[o] EXCEPT !.present = FALSE]]

\* parse returns at an item that it refuses, or at the end.
OpReturn(result) == opParsing' = FALSE /\ opResult' = result /\ UNCHANGED <<opArgs, opOption, opNeedArg>>

OpSetValue(o, value) == opMap' = [opMap EXCEPT ![o].present = TRUE, ![o].value = value]

\* An item "--name", "-name", "--name=value" or "-name=value"; double is for "--".
OpNameItem(double, name, given, value) ==
  /\ opParsing /\ opWork < OpMaxWork
  /\ opLine' = Append(opLine, [plain |-> FALSE, double |-> double, name |-> name, given |-> given, text |-> value])
  /\ LET o == OpFind(name)
     IN IF opNeedArg \/ o = OpNone THEN OpReturn(FALSE) /\ UNCHANGED opMap
        ELSE /\ opOption' = o /\ UNCHANGED <<opArgs, opParsing, opResult>>
             /\ IF given THEN OpSetValue(o, value) /\ UNCHANGED opNeedArg
                ELSE /\ opMap' = [opMap EXCEPT ![o].present = TRUE]
                     /\ opNeedArg' = (opMap[o].needArg /\ (double => opMap[o].def = OpNone))
  /\ opWork' = opWork + 1

\* A faulty variant: the option goes on taking what follows.
OpPlainItemGreedy(text) ==
  /\ opParsing /\ opWork < OpMaxWork
  /\ opLine' = Append(opLine, [plain |-> TRUE, double |-> FALSE, name |-> OpNone, given |-> FALSE, text |-> text])
  /\ IF opOption # OpNone /\ opNeedArg THEN OpSetValue(opOption, text) /\ UNCHANGED opArgs
     ELSE opArgs' = Append(opArgs, text) /\ UNCHANGED opMap
  /\ opWork' = opWork + 1
  /\ UNCHANGED <<opParsing, opOption, opNeedArg, opResult>>

\* Any other item is the argument of the option before it, or of the program.
OpPlainItem(text) ==
  /\ opParsing /\ opWork < OpMaxWork
  /\ opLine' = Append(opLine, [plain |-> TRUE, double |-> FALSE, name |-> OpNone, given |-> FALSE, text |-> text])
  /\ IF opOption # OpNone /\ opNeedArg THEN OpSetValue(opOption, text) /\ UNCHANGED opArgs
     ELSE opArgs' = Append(opArgs, text) /\ UNCHANGED opMap
  /\ opNeedArg' = FALSE
  /\ opWork' = opWork + 1
  /\ UNCHANGED <<opParsing, opOption, opResult>>

OpEnd == opParsing /\ OpReturn(TRUE) /\ UNCHANGED <<opMap, opLine, opWork>>

OpHasOption(name) == OpFind(name) # OpNone /\ opMap[OpFind(name)].present
\* getOption leaves the caller's value alone when the option is not present.
OpGetOption(name, value) == IF OpHasOption(name) THEN opMap[OpFind(name)].value ELSE value

OpInit ==
  /\ opMap = <<>> /\ opArgs = <<>> /\ opParsing = FALSE /\ opOption = OpNone /\ opNeedArg = FALSE
  /\ opLine = <<>> /\ opResult = TRUE /\ opWork = 0

OpNext ==
  \/ \E short \in OpLetters \cup {OpNone}, long \in OpLongs \cup {OpNone}, need \in BOOLEAN, def \in OpDefaults \cup {OpNone} :
       OpAddOption(short, long, need, def)
  \/ \E empty \in BOOLEAN : OpParse(empty)
  \/ OpEnd
  \/ \E double, given \in BOOLEAN, name \in OpLetters \cup OpLongs, value \in OpTexts :
       OpNameItem(double, name, given, IF given THEN value ELSE OpNone)
  \/ \E text \in OpTexts : OpPlainItem(text)

OpSpec == OpInit /\ [][OpNext]_opVars

-----------------------------------------------------------------------------
(* The split of a command line into items, at blanks and quotes                *)

OpPieces(line, keepEmpty) ==
  LET from[i \in 1..(Len(line) + 1), prev \in 1..(Len(line) + 1), inQuote \in BOOLEAN] ==
        LET piece == IF i > prev \/ keepEmpty THEN <<SubSeq(line, prev, i - 1)>> ELSE <<>>
            \* substr(prev, i - prev - 1): all the rest when nothing is between the quotes
            quoted == <<IF i = prev THEN TxFrom(line, prev) ELSE SubSeq(line, prev, i - 2)>>
        IN IF i > Len(line) THEN (IF prev <= Len(line) THEN <<TxFrom(line, prev)>> ELSE <<>>)
           ELSE IF line[i] = 34 THEN (IF inQuote THEN quoted ELSE piece) \o from[i + 1, i + 1, ~inQuote]
           ELSE IF line[i] \in {9, 32} THEN piece \o from[i + 1, i + 1, inQuote]
           ELSE from[i + 1, prev, inQuote]
  IN from[1, 1, FALSE]

\* A faulty variant: there is an item between two blanks.
OpItemsEmpty(line) == OpPieces(line, TRUE)
OpItems(line) == OpPieces(line, FALSE)

-----------------------------------------------------------------------------
(* Properties *)

OpNames(i, o) == ~opLine[i].plain /\ OpFind(opLine[i].name) = o
OpAsks(i) ==
  /\ i \in DOMAIN opLine /\ ~opLine[i].plain /\ ~opLine[i].given
  /\ LET o == opMap[OpFind(opLine[i].name)] IN o.needArg /\ (opLine[i].double => o.def = OpNone)
\* No item so far was refused; there is none in an empty line, which fails all the same.
OpAccepted == opParsing \/ opResult \/ opLine = <<>>
\* The items that gave option o a value.
OpGives(o) ==
  {i \in DOMAIN opLine : (OpNames(i, o) /\ opLine[i].given) \/ (opLine[i].plain /\ OpAsks(i - 1) /\ OpNames(i - 1, o))}

\* An option is present exactly when this command line names it, and has the last value that
\* this line gives it, if it gives one (parse, clearResult, setValue).
OpTold ==
  opWork > 0 /\ OpAccepted =>
    \A o \in DOMAIN opMap :
      /\ opMap[o].present <=> \E i \in DOMAIN opLine : OpNames(i, o)
      /\ OpGives(o) # {} => opMap[o].value = opLine[Max(OpGives(o))].text

\* Every plain item is an argument of the program or of the option just before it, in their
\* order, and of one of the two only (parse).
OpArgsKept ==
  OpAccepted =>
    LET kept == {i \in DOMAIN opLine : opLine[i].plain /\ ~OpAsks(i - 1)}
    IN /\ Len(opArgs) = Cardinality(kept)
       /\ \A i \in kept : opArgs[Cardinality({j \in kept : j <= i})] = opLine[i].text

\* A line is refused only at an item that names no option or stands where an argument must;
\* and a line that goes on has no such item (parse).
OpRefused ==
  LET Bad(i) == ~opLine[i].plain /\ (OpFind(opLine[i].name) = OpNone \/ (i > 1 /\ OpAsks(i - 1)))
  IN \A i \in DOMAIN opLine : Bad(i) <=> ~OpAccepted /\ i = Len(opLine)

\* No option hides another: each is found by its long name, and by its letter unless that is
\* the long name of another (addOption, find).
OpFound ==
  \A o \in DOMAIN opMap :
    /\ OpFind(o) = o
    /\ opMap[o].short \notin DOMAIN opMap \cup {OpNone} => OpFind(opMap[o].short) = o

\* A value goes only where an item gives one. An option that a line names without a value has
\* the one it had before: of its default, or of a line long gone (clearResult, getOption).
OpValuesStay ==
  [][\A o \in DOMAIN opMap : OpGives(o)' = {} => opMap'[o].value = opMap[o].value]_opVars

\* A program is told which options and arguments its last command line has, and for each
\* option the value given last, by that line or by one before it.
OptionsTold == [](OpTold /\ OpArgsKept /\ OpRefused /\ OpFound) /\ OpValuesStay

\* A command line without quotes is split at its blanks, and no item is empty
\* (detail::split).
OpItemsApart ==
  (\A i \in DOMAIN txStr : txStr[i] # 34) =>
    OpItems(txStr) = SelectSeq(TxSplitAll([i \in DOMAIN txStr |-> IF txStr[i] = 9 THEN 32 ELSE txStr[i]], <<32>>),
                               LAMBDA p : p # <<>>)
=============================================================================
