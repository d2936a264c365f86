----------------------------- MODULE MCIniSave ------------------------------
(***************************************************************************)
(* IniSave over short files, and the operators of IniText over every       *)
(* value of up to four characters that matter, every line of up to three,  *)
(* every name and key of up to three, and a few files beyond these.        *)
(***************************************************************************)
EXTENDS IniSave

A == <<"[", "a", "]", NL>>
B == <<"[", "b", "]", NL>>
NoName == <<"[", "]", NL>>
Line(s) == A \o s \o <<NL>>
Assign(v) == Line(<<"a", "=">> \o v)

ValueChars == {"a", " ", ";", ",", Quote, CR}
LineChars == ValueChars \cup {"=", "[", "]"}
Strings(S, n) == UNION {[1..m -> S] : m \in 0..n}

\* Two sections; a pair under no name, alone and after a section; a mark.
Sections == A \o <<"a", "=", "a", NL>> \o B \o <<"b", "=", NL>>
Unnamed == NoName \o <<"a", "=", "a", NL>>
SomeUnnamed == A \o Unnamed
Marked == <<BOM>> \o A
\* Lines of just less than, and of, a buffer; longer ones that are not refused.
Full == Assign(<<"a", "a", "a", "a", "a">>)
Overfull == Assign(<<"a", "a", "a", "a", "a", "a">>)
Quoted == Assign(<<";", "a", "a", "a">>)
Split == Line(<<" ", "a", "=", "a", "a", "a", "a", "a", "a", "=", "a">>)
Commented == Line(<<";", "a", "a", "a", "a", "a", "a", "a", "a", "=", "a">>)

MCSamples ==
  {<<>>, Sections, Unnamed, SomeUnnamed, Marked, Full, Overfull, Quoted, Split, Commented}
    \cup {Assign(v) : v \in Strings(ValueChars, 4)}
    \cup {Line(l) : l \in Strings(LineChars, 3)}

\* What one call of setString makes of an empty context.
Context(n, k, v) == [m \in {n} |-> [l \in {k} |-> v]]
AnyChars == LineChars \cup {NL}
MCChars == AnyChars \cup {"b", "#", "\t", BOM, NUL}
MCMade ==
  {Context(n, <<"a">>, <<"a">>) : n \in Strings(AnyChars, 3)}
    \cup {Context(<<"a">>, k, <<"a">>) : k \in Strings(AnyChars, 3)}
    \cup {Context(<<"a">>, <<"a">>, v) : v \in Strings(ValueChars \cup {NL}, 3)}

MCTexts == {SomeUnnamed}
MCOther == {A \o NoName}
MCChanged == {Assign(<<"a">>)}
MCNames == {<<"a">>, <<"b">>}
MCKeys == {<<"a">>}
=============================================================================
