----------------------------- MODULE MCData ---------------------------------
(* The containers, buffers, codings, texts and files of comn, the message and  *)
(* the calendar of AssistData.c for TLC, each in a part of the behaviours of   *)
(* its own: part says in which.                                                *)
EXTENDS LogIni, Buffers, Containers, CStrView, PathText, Codings, Options, MsmLayout, GpsTime

App == <<"App">>
S == <<"S">>
K == <<"k">>
L == <<"l">>

MCIniNames == {App, S}
MCIniKeys == {K, L}
MCIniSame(a, b) == a = b
(* Comments, empty lines, keys without values and sections that come twice. *)
MCIniFiles == {
  <<>>,
  <<IniText("t"), IniEmpty, IniHead(App), IniComment("c"), IniLine(K, <<>>), IniText("t"), IniEmpty,
    IniComment("c"), IniLine(L, <<"w">>)>>,
  <<IniComment("c"), IniComment("c"), IniHead(App), IniHead(S), IniLine(K, <<"w">>), IniComment("c"),
    IniHead(App), IniLine(K, <<"w", "w">>), IniLine(K, <<"w">>), IniText("t")>>,
  <<IniComment("c"), IniLine(K, <<"w">>), IniHead(<<>>), IniHead(S), IniComment("c"), IniLine(L, <<"w">>),
    IniLine(K, <<>>)>>,
  <<IniComment("c")>>}
MCLower ==
  [n \in {<<>>, App, S, K, L, <<"APP">>, <<"K">>} |->
     CASE n \in {<<"APP">>, App} -> <<"app">> [] n = <<"K">> -> K [] OTHER -> n]

(* "/", ".", "a", "//", "a/" *)
MCWords == {<<47>>, <<46>>, <<97>>, <<47, 47>>, <<97, 47>>}

(* A station, moments around the end of an hour, and satellites that appear, *)
(* slip and leave the offset behind.                                         *)
Ob(p, l, i, h, s) == [P |-> p, L |-> l, lli |-> i, half |-> h, snr |-> s]
MCObs ==
  {Ob(p, l, i, 0, 160) : p \in {0, 70, 90}, l \in {0, 5, 12, -40}, i \in BOOLEAN}
    \cup {Ob(225, 5, FALSE, 1, 201), Ob(33, 1, FALSE, 1, 163)}
MCStation == <<-75, 500, 33>>
MCMoments == {1525564800 + d : d \in {10, 33, 1100}}
MCFrames ==
  {<<>>, (2 :> Ob(70, 5, FALSE, 0, 160)) @@ (4 :> Ob(90, -9, FALSE, 1, 180))}
    \cup {2 :> o : o \in MCObs} \cup {(1 :> Ob(100, 7, FALSE, 0, 160)) @@ (2 :> o) : o \in MCObs}

VARIABLE part

Parts == {"ini", "io", "bytes", "chars", "map", "array", "numbers", "text", "codings", "options", "msm", "time"}
allVars == <<part, iniVars, ioVars, bfVars, cnVars, csVars, coVars, opVars, mlVars, gtVars>>

(* Only the part that moves begins with any of its states. *)
Init ==
  /\ part \in Parts
  /\ IniInit /\ (part # "ini" => iniDisk = <<>>)
  /\ IoInit /\ BfInit /\ CsInit /\ CoInit /\ OpInit /\ CnInit
  /\ MlInit /\ (part # "msm" => mlSys = "GPS")
  /\ GtInit /\ (part # "time" => gtTime = GtGps0)

Next ==
  /\ UNCHANGED part
  /\ \/ part = "ini" /\ IniNext /\ UNCHANGED <<ioVars, bfVars, cnVars, csVars, coVars, opVars, mlVars, gtVars>>
     \/ part = "io" /\ IoNext /\ UNCHANGED <<iniVars, bfVars, cnVars, csVars, coVars, opVars, mlVars, gtVars>>
     \/ part = "bytes" /\ BbNext /\ UNCHANGED <<iniVars, ioVars, cnVars, csVars, coVars, opVars, mlVars, gtVars>>
     \/ part = "chars" /\ ChNext /\ UNCHANGED <<iniVars, ioVars, cnVars, csVars, coVars, opVars, mlVars, gtVars>>
     \/ part = "map" /\ MapNext /\ UNCHANGED <<iniVars, ioVars, bfVars, csVars, coVars, opVars, mlVars, gtVars>>
     \/ part = "array" /\ CnArrayNext /\ UNCHANGED <<iniVars, ioVars, bfVars, csVars, coVars, opVars, mlVars, gtVars>>
     \/ part = "numbers" /\ CnNumNext /\ UNCHANGED <<iniVars, ioVars, bfVars, csVars, coVars, opVars, mlVars, gtVars>>
     \/ part = "text" /\ CsSteps /\ UNCHANGED <<iniVars, ioVars, bfVars, cnVars, coVars, opVars, mlVars, gtVars>>
     \/ part = "codings" /\ CoNext /\ UNCHANGED <<iniVars, ioVars, bfVars, cnVars, csVars, opVars, mlVars, gtVars>>
     \/ part = "options" /\ OpNext /\ UNCHANGED <<iniVars, ioVars, bfVars, cnVars, csVars, coVars, mlVars, gtVars>>
     \/ part = "msm" /\ MlNext /\ UNCHANGED <<iniVars, ioVars, bfVars, cnVars, csVars, coVars, opVars, gtVars>>
     \/ part = "time" /\ GtNext /\ UNCHANGED <<iniVars, ioVars, bfVars, cnVars, csVars, coVars, opVars, mlVars>>

Spec == Init /\ [][Next]_allVars

-----------------------------------------------------------------------------
(* The properties, part by part: what does not move is in one of the first     *)
(* states of the part, where it is checked as well.                            *)

\* Settings survive loading, changing and saving, in both ini file classes.
IniKept ==
  /\ [](part = "ini" => IniTypeOK /\ IniRoundTrip /\ LogIniAnySpelling /\ LogIniRoundTrip /\ LogIniLinesRead)
  /\ IniSetsOne /\ IniRemovesOne

\* Texts, views and paths are taken apart without loss, at the places that were looked
\* for, and put together again.
TextsKept ==
  part = "text" =>
    /\ TxTakenApart /\ TxReplaced /\ TxUndone /\ TxFitted /\ TxExtracted
    /\ CsInside /\ CsLossless /\ CsSameAsSplit /\ CsOrdered
    /\ PtRejoined /\ PtJoined /\ PtExtended /\ OpItemsApart

\* A rover reads from the bits the satellites, ranges and lock times of the frame, and
\* phase ranges that go on as long as their lock time does.
MessageRead ==
  /\ [](part = "msm" => MlFramed /\ MlStationRead /\ MlRangesRead /\ MlNumbered)
  /\ MlPhaseKept
=============================================================================
