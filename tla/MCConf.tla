------------------------------- MODULE MCConf -------------------------------
(***************************************************************************)
(* Files of up to three lines of every kind, with and without a last end   *)
(* of line and with brackets and quotation marks that are not closed, and  *)
(* lookups by section and index.                                           *)
(***************************************************************************)
EXTENDS Conf

LineSet ==
    { <<>>, <<";", "k", "=">>, <<"k", "=", "yes">>, <<"_", "k", "_", "=", "_", "1", "_", ";", "v">>,
      <<"k", "=">>, <<"k", "k">>, <<"=", "v">>, <<"[", "a", "]">>, <<"[", "b", "]", "_", ";">>,
      <<"k", "=", "q", ";", "b", "q", "b", "t", "_", "q">>,
      <<"j", "_", "=", "q", "b", "b", "b", "v", "w", "q">>,
      <<"[", "a">>, <<"k", "=", "q", "no">> }

RECURSIVE Joined(_)
Joined(lines) == IF Len(lines) = 1 THEN lines[1] ELSE lines[1] \o <<"n">> \o Joined(Tail(lines))

Texts(n) == {Joined(lines) : lines \in [1..n -> LineSet]}

\* Files whose first line is empty.
MCFiles == {<<"n">> \o text : text \in Texts(1) \cup Texts(2) \cup Texts(3)}

\* Files that start with a key.
MCCompact == {<<"k", "=", "v", "n">> \o text : text \in Texts(1) \cup Texts(2)}

MCLookups ==
    [section : {<<>>}, index : {-1}, key : {<<"k">>}, as : {"bool", "int"}]
    \cup [section : {<<>>}, index : {-1}, key : {<<"j">>}, as : {"str"}]
    \cup [section : {<<"a">>}, index : {-1}, key : {<<"k">>}, as : {"exists"}]
    \cup [section : {<<"a">>}, index : {0, 1}, key : {<<"k">>}, as : {"bool"}]
    \cup [section : {<<"a">>}, index : {0, 1}, key : {<<>>}, as : {"exists"}]
=============================================================================
