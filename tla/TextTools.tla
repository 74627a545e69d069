------------------------------ MODULE TextTools ------------------------------
(***************************************************************************)
(* The text helpers generated code is put together with: common/common.cpp,*)
(* pad and lpad of gen/generator.cpp, and runtime_support/utf8.hpp.  A     *)
(* text is a sequence of characters, of which blank, newline and a letter  *)
(* are told apart; the state is the text at hand, typed one character at a *)
(* time, and a wide string.                                                *)
(***************************************************************************)
EXTENDS Integers, Sequences, FiniteSetsExt, SequencesExt

CONSTANTS MaxText,  \* bound: length of the text
          MaxWide,  \* bound: length of the wide string
          Points    \* its code points

Blank == 32
Newline == 10
Letter == 97
IsSpace(c) == c \in {Blank, Newline}

VARIABLES text, wide
vars == <<text, wide>>

(* trim_whitespace_view(), trim_trailing_whitespace_view()                 *)
Inked(s) == {i \in DOMAIN s : ~IsSpace(s[i])}
trim_whitespace_view(s) == IF Inked(s) = {} THEN <<>> ELSE SubSeq(s, Min(Inked(s)), Max(Inked(s)))
trim_trailing_whitespace_view(s) == IF Inked(s) = {} THEN <<>> ELSE SubSeq(s, 1, Max(Inked(s)))

(* prefix_split(): std::getline() returns no empty segment behind the last *)
(* delimiter.  join() puts the delimiter behind each and drops the last.   *)
getline(r, c, delimiter) ==
  IF c = delimiter THEN [segments |-> Append(r.segments, r.segment), segment |-> <<>>]
  ELSE [segments |-> r.segments, segment |-> Append(r.segment, c)]
Segments(s, delimiter) ==
  LET read[i \in 0..Len(s)] ==
        IF i = 0 THEN [segments |-> <<>>, segment |-> <<>>] ELSE getline(read[i - 1], s[i], delimiter)
      all == read[Len(s)]
  IN  IF all.segment = <<>> THEN all.segments ELSE Append(all.segments, all.segment)
prefix_split(s, delimiter, prefix) ==
  LET parts == Segments(s, delimiter) IN [k \in DOMAIN parts |-> prefix \o parts[k]]
join(o, delim) ==
  LET s == FlattenSeq([k \in DOMAIN o |-> o[k] \o delim]) IN
  IF s = <<>> THEN s ELSE SubSeq(s, 1, Len(s) - Len(delim))

Spaces(n) == [i \in 1..n |-> Blank]
prefix_text(s, offs) == join(prefix_split(trim_whitespace_view(s), Newline, Spaces(offs)), <<Newline>>)
offset_text(s, offs) ==
  LET t == trim_whitespace_view(s) IN
  IF Contains(t, Newline) THEN <<Newline>> \o join(prefix_split(t, Newline, Spaces(offs)), <<Newline>>) ELSE t

(* pad() and lpad(): the fill is its text's first character, if it has one.*)
Fill(n, fill, default) == [i \in 1..n |-> IF fill = <<>> THEN default ELSE Head(fill)]
pad(s, len, fill) == IF Len(s) >= len THEN s ELSE s \o Fill(len - Len(s), fill, Blank)
lpad(s, len, fill) == IF Len(s) >= len THEN s ELSE Fill(len - Len(s), fill, 45) \o s

(* to_utf8() where wchar_t is UTF-32.                                      *)
Tail6(c, shift) == 128 + ((c \div shift) % 64)
Encoded(c) ==
  CASE c < 128                       -> <<c>>
    [] c >= 128 /\ c < 2048          -> <<192 + (c \div 64), Tail6(c, 1)>>
    [] c >= 2048 /\ c < 65536        -> <<224 + (c \div 4096), Tail6(c, 64), Tail6(c, 1)>>
    [] c >= 65536 /\ c <= 1114111    -> <<240 + (c \div 262144), Tail6(c, 4096), Tail6(c, 64), Tail6(c, 1)>>
    [] OTHER                         -> <<239, 191, 189>>
to_utf8(w) == FlattenSeq([k \in DOMAIN w |-> Encoded(w[k])])

-----------------------------------------------------------------------------
Init == text = <<>> /\ wide = <<>>

Type ==
  /\ Len(text) < MaxText /\ \E c \in {Blank, Newline, Letter} : text' = Append(text, c)
  /\ UNCHANGED wide
TypeWide ==
  /\ Len(wide) < MaxWide /\ \E c \in Points : wide' = Append(wide, c)
  /\ UNCHANGED text

Next == Type \/ TypeWide
Spec == Init /\ [][Next]_vars

-----------------------------------------------------------------------------
(* Splitting a trimmed text into lines and joining them again loses        *)
(* nothing, empty lines in the middle included.                            *)
LinesExact ==
  LET t == trim_whitespace_view(text) IN join(prefix_split(t, Newline, <<>>), <<Newline>>) = t

(* A multi-line text put into a comment of the generated file: every line  *)
(* of it carries the prefix, or it would be code.                          *)
EveryLinePrefixed ==
  LET t == prefix_text(text, 2) IN
  \A i \in DOMAIN t : t[i] = Newline => i + 2 <= Len(t) /\ SubSeq(t, i + 1, i + 2) = Spaces(2)

(* Trimming rendered output from the right keeps the indentation its call  *)
(* site expects, and drops all of the blank tail.                          *)
IndentKept ==
  LET t == trim_trailing_whitespace_view(text) IN
  IsPrefix(t, text) /\ (t # <<>> => ~IsSpace(Last(t))) /\ Inked(t) = Inked(text)

(* to_utf8() is the encoding of RFC 3629: lead and continuation bytes      *)
(* announce each other, and no surrogate is encoded.                       *)
Announced(b) == CASE b < 128 -> 1 [] b \in 194..223 -> 2 [] b \in 224..239 -> 3 [] b \in 240..244 -> 4 [] OTHER -> 0
WellFormed(s) ==
  LET ok[i \in 1..(Len(s) + 1)] ==
        i = Len(s) + 1 \/ LET n == Announced(s[i]) IN
                          /\ n > 0 /\ i + n <= Len(s) + 1
                          /\ \A j \in (i + 1)..(i + n - 1) : s[j] \in 128..191
                          /\ s[i] = 237 => s[i + 1] < 160
                          /\ ok[i + n]
  IN  ok[1]
Utf8WellFormed == WellFormed(to_utf8(wide))

(* The text helpers lose no line, no indentation and no character.         *)
TextsFaithful == LinesExact /\ EveryLinePrefixed /\ IndentKept /\ Utf8WellFormed

-----------------------------------------------------------------------------
(* What the repository says and the code does not do; TLC refutes each on  *)
(* a small instance.                                                       *)

(* "pad char is single character, blank is default".                       *)
BlankIsDefault ==
  \A len \in 0..MaxText : /\ pad(text, len, <<>>) = pad(text, len, <<Blank>>)
                          /\ lpad(text, len, <<>>) = lpad(text, len, <<Blank>>)
=============================================================================
