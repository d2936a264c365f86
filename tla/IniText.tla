------------------------------ MODULE IniText -------------------------------
(***************************************************************************)
(* The text of INI files, character by character as far as ini_good,       *)
(* ini_load and ini_save tell characters apart: what the first accepts,    *)
(* what the second understands and what the third writes.  A text is a     *)
(* sequence of characters; one character stands for the three of the UTF-8 *)
(* byte order mark.  fgets hands out pieces of fewer than LineMax          *)
(* characters, so that a long line comes in several.                       *)
(***************************************************************************)
EXTENDS Integers, SequencesExt

CONSTANTS
  Chars,     \* the characters
  LineMax,   \* INI_LINE_MAX
  Samples,   \* texts to try
  Made       \* contexts to try: setString stores any name, key and value

ASSUME LineMaxAssumption == LineMax \in Nat /\ LineMax > 2

NL == "\n"
CR == "\r"
BOM == "BOM"
NUL == "NUL"
Quote == "\""
Blanks == {" ", "\t"}
Comments == {";", "#"}
Global == <<>>     \* the name ""
Text == Seq(Chars)

ASSUME CharsAssumption ==
  {NL, CR, BOM, NUL, Quote, "[", "]", "=", ","} \cup Blanks \cup Comments \subseteq Chars
ASSUME SamplesAssumption == Samples \subseteq Text

\* A finite map of finite maps.
IsTable(t) ==
  /\ IsFiniteSet(DOMAIN t) /\ t = [k \in DOMAIN t |-> t[k]]
  /\ \A k \in DOMAIN t : k \in Text /\ t[k] \in Text
IsContext(c) ==
  /\ IsFiniteSet(DOMAIN c) /\ c = [n \in DOMAIN c |-> c[n]]
  /\ \A n \in DOMAIN c : n \in Text /\ IsTable(c[n])

ASSUME MadeAssumption == \A c \in Made : IsContext(c)

\* strchr: the first position of c in s, or 0.
Find(s, c) == SelectInSeq(s, LAMBDA x : x = c)
First(s) == IF s = <<>> THEN NL ELSE s[1]

TrimLeft(s) ==
  LET i == SelectInSeq(s, LAMBDA x : x \notin Blanks) IN
  IF i = 0 THEN <<>> ELSE SubSeq(s, i, Len(s))
TrimRight(s, S) == SubSeq(s, 1, SelectLastInSeq(s, LAMBDA x : x \notin S))

\* ini_check_utf8_bom: the stream is past the mark, if there is one.
WithoutBom(text) == IF First(text) = BOM THEN Tail(text) ELSE text

\* What fgets delivers: up to a newline or to a full buffer.
Pieces(text) ==
  LET column[i \in 0..Len(text)] ==
        IF i = 0 THEN 0
        ELSE IF i = 1 \/ text[i - 1] = NL \/ column[i - 1] = LineMax - 1 THEN 1
        ELSE column[i - 1] + 1
      starts == {i \in 1..Len(text) : column[i] = 1}
      End(i) == IF \E j \in starts : j > i
                THEN (CHOOSE j \in starts : j > i /\ \A l \in starts : l > i => j <= l) - 1
                ELSE Len(text)
  IN [n \in 1..Cardinality(starts) |->
        LET i == CHOOSE i \in starts : Cardinality({j \in starts : j <= i}) = n
        IN SubSeq(text, i, End(i))]

\* A string ends at the first NUL in it.
UpToNul(s) == IF Find(s, NUL) = 0 THEN s ELSE SubSeq(s, 1, Find(s, NUL) - 1)

\* What both look at, piece by piece.
Lines(text) ==
  LET ps == Pieces(WithoutBom(text)) IN [i \in DOMAIN ps |-> TrimLeft(UpToNul(ps[i]))]

-----------------------------------------------------------------------------
(* ini_good *)

GoodSkips(t) == First(t) \in {NL} \cup Comments
TooLong(t) == Len(t) >= LineMax - 1 /\ t[LineMax - 1] # NL
IsHeader(t) == First(t) = "[" /\ Find(t, "]") # 0
HasKey_Empty(t) == First(t) # "[" /\ Find(t, "=") > 0
HasKey(t) == First(t) # "[" /\ Find(t, "=") > 1

AfterEquals(t) == SubSeq(t, Find(t, "=") + 1, Len(t))

\* Quoted: nothing but a comment after the quote.  Else: no comma.
GoodValue(t) ==
  LET value == TrimLeft(AfterEquals(t))
      rest == Tail(value)
      close == Find(rest, Quote)
  IN IF First(value) = Quote
     THEN close # 0 /\ (close = Len(rest) \/ rest[close + 1] \in {NL} \cup Comments)
     ELSE Find(value, ",") = 0

InSection(ts, i) == \E j \in 1..(i - 1) : IsHeader(ts[j])

GoodLine(ts, i) ==
  \/ GoodSkips(ts[i])
  \/ /\ ~TooLong(ts[i])
     /\ \/ IsHeader(ts[i])
        \/ InSection(ts, i) /\ HasKey(ts[i]) /\ GoodValue(ts[i])

Good(text) ==
  LET ts == Lines(text) IN text # <<>> /\ \A i \in DOMAIN ts : GoodLine(ts, i)

-----------------------------------------------------------------------------
(* ini_load *)

LoadSkips(t) == First(t) \in {NL, CR} \cup Comments

NameOf(t) == SubSeq(t, 2, Find(t, "]") - 1)
KeyOf(t) == TrimRight(SubSeq(t, 1, Find(t, "=") - 1), Blanks)
ValueOf(t) ==
  LET value == TrimRight(TrimLeft(AfterEquals(t)), Blanks \cup {NL, CR})
  IN IF First(value) = Quote /\ Last(value) = Quote
     THEN SubSeq(value, 2, Len(value) - 1)
     ELSE value

\* The lines that open a section, and those that store a pair.
Headers(ts) == {i \in DOMAIN ts : IsHeader(ts[i])}
Pairs(ts) ==
  {i \in DOMAIN ts : /\ ~LoadSkips(ts[i]) /\ First(ts[i]) # "["
                     /\ Find(ts[i], "=") # 0 /\ KeyOf(ts[i]) # <<>>}

SectionOf(ts, i) ==
  LET before == {j \in Headers(ts) : j < i} IN
  IF before = {} THEN Global ELSE NameOf(ts[Max(before)])

\* A header that comes twice is undefined behaviour (IniContext).
RepeatsHeader(text) ==
  LET ts == Lines(text) IN
  \E i, j \in Headers(ts) : i # j /\ NameOf(ts[i]) = NameOf(ts[j])

\* What the context holds after the text was parsed: a map of maps, in which
\* the last of several assignments counts.
Loaded(text) ==
  LET ts == Lines(text)
      Assigning(n) == {i \in Pairs(ts) : SectionOf(ts, i) = n}
      Table(n) ==
        [k \in {KeyOf(ts[i]) : i \in Assigning(n)} |->
           ValueOf(ts[Max({i \in Assigning(n) : KeyOf(ts[i]) = k})])]
  IN [n \in {NameOf(ts[i]) : i \in Headers(ts)} \cup {SectionOf(ts, i) : i \in Pairs(ts)} |->
        Table(n)]

-----------------------------------------------------------------------------
(* ini_save and ini_save_section_value *)

HasAny(v, S) == \E i \in DOMAIN v : v[i] \in S

NeedsQuotes_NoBlank(v) == HasAny(v, Comments)
NeedsQuotes(v) == HasAny(v, Blanks \cup Comments)

PairText(k, v) ==
  k \o <<"=">> \o (IF NeedsQuotes(v) THEN <<Quote>> \o v \o <<Quote>> ELSE v) \o <<NL>>

HeaderText(n) == <<"[">> \o n \o <<"]", NL>>

\* The pairs of a table, in the order of its slots, which nothing depends on.
PairsText(table) ==
  LET keys == SetToSeq(DOMAIN table) IN
  FlattenSeq([i \in DOMAIN keys |-> PairText(keys[i], table[keys[i]])])

\* ini_save_section_value: all keys of a section, or one.
SectionText(n, table) == HeaderText(n) \o PairsText(table)

\* ini_save: the global section has no header, and is left out if it is empty.
SkipsSection(n, table) == n = Global /\ DOMAIN table = {}

\* What the i-th section of context c adds to the text, when an iterator gives
\* the names in that order.
Printed(c, order, i) ==
  LET n == order[i]
      first == \A j \in 1..(i - 1) : SkipsSection(order[j], c[order[j]])
  IN IF SkipsSection(n, c[n]) THEN <<>>
     ELSE (IF first THEN <<>> ELSE <<NL>>)
          \o (IF n = Global THEN PairsText(c[n]) ELSE SectionText(n, c[n]))

SavedText(c, order) == FlattenSeq([i \in DOMAIN order |-> Printed(c, order, i)])

-----------------------------------------------------------------------------
(* What properties of texts and contexts are stated with *)

Loadable(text) == Good(text) /\ ~RepeatsHeader(text)

\* Every line is one to skip, opens a section, or is a pair under a header, and
\* is looked at whole.  The exceptions: a line that begins with a carriage
\* return, which ini_load skips and ini_good does not; and a line longer than
\* the buffer, which comes in pieces unnoticed if it is indented or a comment or
\* has a NUL.
Understood(text) ==
  LET ps == Pieces(WithoutBom(text))
      ts == Lines(text)
  IN \A i \in DOMAIN ts :
       /\ \/ GoodSkips(ts[i]) \/ First(ts[i]) = CR
          \/ i \in Headers(ts)
          \/ i \in Pairs(ts) /\ InSection(ts, i)
       /\ \/ Len(ps[i]) < LineMax - 1 \/ Last(ps[i]) = NL
          \/ First(ps[i]) \in Blanks \cup Comments \/ Find(ps[i], NUL) # 0

\* The values that ini_load reads as they were after ini_save has written
\* them.  In quotes: unless they hold a quote that ini_good takes for the
\* closing one and that no comment follows.  Without: unless there is a quote
\* first, a comma anywhere or a carriage return last.  No string has a NUL.
ValueSurvives(v) ==
  LET q == Find(v, Quote) IN
  /\ ~HasAny(v, {NL, NUL})
  /\ IF NeedsQuotes(v)
     THEN q = 0 \/ (q < Len(v) /\ v[q + 1] \in Comments)
     ELSE q # 1 /\ Find(v, ",") = 0 /\ (v = <<>> \/ Last(v) # CR)

\* The same of keys and of the names of sections, which are never quoted.
KeySurvives(k) ==
  /\ k # <<>> /\ ~HasAny(k, {"=", NL, NUL})
  /\ First(k) \notin Blanks \cup Comments \cup {"[", CR} /\ Last(k) \notin Blanks
NameSurvives(n) == n # Global /\ ~HasAny(n, {"]", NL, NUL})

\* There is something to save, all of it survives, and no line is too long
\* with the quotes added.
Representable(c) ==
  /\ DOMAIN c # {}
  /\ \A n \in DOMAIN c :
       /\ NameSurvives(n) /\ Len(HeaderText(n)) < LineMax
       /\ \A k \in DOMAIN c[n] :
            /\ KeySurvives(k) /\ ValueSurvives(c[n][k])
            /\ Len(PairText(k, c[n][k])) < LineMax

ReadBack(c) ==
  \A order \in SetToSeqs(DOMAIN c) :
    LET text == SavedText(c, order) IN Loadable(text) /\ Loaded(text) = c

\* The samples, and the contexts they and setString make, of which these do
\* not tell right.
Misunderstood == {text \in Samples : Good(text) /\ ~Understood(text)}
Misjudged ==
  {c \in {Loaded(text) : text \in {x \in Samples : Loadable(x)}} \cup Made :
     ReadBack(c) # Representable(c)}
=============================================================================
