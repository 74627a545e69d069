------------------------------ MODULE ValueText ------------------------------
(***************************************************************************)
(* The texts values travel and print as: what rtl/psql/query.cpp reads and *)
(* writes, and the formatters of rtl/rtl_fmt.hpp.  A text is a sequence of *)
(* character codes.  The state is the value at hand; each step changes one *)
(* of its fields.                                                          *)
(***************************************************************************)
EXTENDS Integers, Sequences

CONSTANTS Years, Months, Clock, \* field values: years, months and days, and the time's
          Fractions,            \* nanoseconds
          MaxBytes,             \* bound: length of a binary value
          Bytes                 \* its bytes

Dash == 45
Colon == 58
Blank == 32
Dot == 46
Failed == "failed"

VARIABLES ts,   \* a timestamp
          blob  \* a binary value
vars == <<ts, blob>>

IsDigit(c) == c \in 48..57
IsHex(c) == IsDigit(c) \/ c \in 97..102 \/ c \in 65..70
hex_val(c) == IF IsDigit(c) THEN c - 48 ELSE IF c \in 97..102 THEN c - 87 ELSE c - 55
HexDigit(d, a) == IF d < 10 THEN d + 48 ELSE d - 10 + a
Lower == 97
Upper == 65

(* Reading: n digits behind position p, one character, ".ffffff".          *)
Digits(s, p, n) == p + n <= Len(s) /\ \A i \in (p + 1)..(p + n) : IsDigit(s[i])
read_digits(s, p, n) ==
  LET value[i \in 0..n] == IF i = 0 THEN 0 ELSE 10 * value[i - 1] + (s[p + i] - 48) IN value[n]
expect(s, p, c) == p < Len(s) /\ s[p + 1] = c

read_fraction(s, p) ==
  LET last == CHOOSE n \in 0..9 : Digits(s, p + 1, n) /\ (n = 9 \/ ~Digits(s, p + 1, n + 1))
      nanos[i \in 0..last] == IF i = 0 THEN 0 ELSE nanos[i - 1] + (s[p + 1 + i] - 48) * 10 ^ (9 - i)
  IN  IF expect(s, p, Dot) THEN nanos[last] ELSE 0

IsDate(s) ==
  Digits(s, 0, 4) /\ expect(s, 4, Dash) /\ Digits(s, 5, 2) /\ expect(s, 7, Dash) /\ Digits(s, 8, 2)
IsTime(s, p) ==
  Digits(s, p, 2) /\ expect(s, p + 2, Colon) /\ Digits(s, p + 3, 2) /\ expect(s, p + 5, Colon) /\ Digits(s, p + 6, 2)
parse_date(s) ==
  IF IsDate(s) THEN [year |-> read_digits(s, 0, 4), month |-> read_digits(s, 5, 2), day |-> read_digits(s, 8, 2)]
  ELSE Failed
parse_time(s, p) ==
  IF IsTime(s, p) THEN [hour |-> read_digits(s, p, 2), minute |-> read_digits(s, p + 3, 2),
                        second |-> read_digits(s, p + 6, 2)]
  ELSE Failed
parse_timestamp(s) ==
  LET p == IF Len(s) > 10 /\ s[11] \in {Blank, 84} THEN 11 ELSE 10 IN
  IF IsDate(s) /\ IsTime(s, p)
  THEN [date |-> parse_date(s), time |-> parse_time(s, p), fraction |-> read_fraction(s, p + 8)]
  ELSE Failed

(* Writing: a number in at least w places.                                 *)
Places(n) == CHOOSE k \in 1..9 : n < 10 ^ k /\ (k = 1 \/ n >= 10 ^ (k - 1))
Dec(n, w) ==
  LET k == IF Places(n) < w THEN w ELSE Places(n) IN [i \in 1..k |-> 48 + ((n \div 10 ^ (k - i)) % 10)]
format_date(d) == Dec(d.year, 4) \o <<Dash>> \o Dec(d.month, 2) \o <<Dash>> \o Dec(d.day, 2)
format_time(t) == Dec(t.hour, 2) \o <<Colon>> \o Dec(t.minute, 2) \o <<Colon>> \o Dec(t.second, 2)
format_timestamp(v) ==
  format_date(v.date) \o <<Blank>> \o format_time(v.time) \o <<Dot>> \o Dec(v.fraction, 9)

(* The formatters for display go through a buffer, which cuts what does    *)
(* not fit, and drop the trailing zeroes of the fraction but one.          *)
written_len(written, capacity) == IF written < capacity THEN written ELSE capacity - 1
FaultyTrimFraction(s, first) ==
  CHOOSE n \in 0..Len(s) : (n = 0 \/ s[n] # 48) /\ \A i \in (n + 1)..Len(s) : s[i] = 48
trim_fraction(s, first) ==
  LET n == CHOOSE k \in first..Len(s) : (k = first \/ s[k] # 48) /\ \A i \in (k + 1)..Len(s) : s[i] = 48
  IN  IF n = first THEN first + 1 ELSE n
InBuffer(s, capacity) == SubSeq(s, 1, written_len(Len(s), capacity))
append_fraction(s, fraction, capacity) ==
  LET whole == s \o InBuffer(<<Dot>> \o Dec(fraction, 9), capacity - Len(s)) IN
  SubSeq(whole, 1, trim_fraction(whole, Len(s) + 1))
DisplayDate(d) == InBuffer(format_date(d), 16)
DisplayTimestamp(v) ==
  append_fraction(InBuffer(format_date(v.date) \o <<Blank>> \o format_time(v.time), 48), v.fraction, 48)

(* bytea: "\x" and two digits a byte; reading stops at the capacity, at an *)
(* odd digit and at anything else.  guid: the same digits with dashes,     *)
(* which are skipped wherever they are.                                    *)
HexOf(b, a) ==
  [i \in 1..(2 * Len(b)) |-> HexDigit(IF i % 2 = 1 THEN b[(i + 1) \div 2] \div 16 ELSE b[i \div 2] % 16, a)]
ByteAt(s, i) == 16 * hex_val(s[i]) + hex_val(s[i + 1])
encode_bytea(b) == <<92, 120>> \o HexOf(b, Lower)
decode_bytea(s, capacity) ==
  LET hex   == IF Len(s) >= 2 /\ s[1] = 92 /\ s[2] \in {120, 88} THEN SubSeq(s, 3, Len(s)) ELSE s
      pairs == CHOOSE n \in 0..(Len(hex) \div 2) :
                 /\ \A i \in 1..(2 * n) : IsHex(hex[i])
                 /\ n = Len(hex) \div 2 \/ ~IsHex(hex[2 * n + 1]) \/ ~IsHex(hex[2 * n + 2])
  IN  [i \in 1..(IF pairs < capacity THEN pairs ELSE capacity) |-> ByteAt(hex, 2 * i - 1)]

Guid == [i \in 1..16 |-> IF i <= Len(blob) THEN blob[i] ELSE 16 * (i - 1)]
format_guid(g) ==
  LET hex == HexOf(g, Lower) IN
  SubSeq(hex, 1, 8) \o <<Dash>> \o SubSeq(hex, 9, 12) \o <<Dash>> \o SubSeq(hex, 13, 16)
    \o <<Dash>> \o SubSeq(hex, 17, 20) \o <<Dash>> \o SubSeq(hex, 21, 32)
Undashed(s) ==
  LET kept[i \in 0..Len(s)] ==
        IF i = 0 THEN <<>>
        ELSE IF s[i] = Dash /\ Len(kept[i - 1]) % 2 = 0 THEN kept[i - 1] ELSE Append(kept[i - 1], s[i])
  IN  kept[Len(s)]
parse_guid(s) ==
  LET hex == Undashed(s) IN
  IF Len(hex) >= 32 /\ \A i \in 1..32 : IsHex(hex[i]) THEN [i \in 1..16 |-> ByteAt(hex, 2 * i - 1)]
  ELSE Failed

(* to_hex() of rtl's dump(): pairs of digits with a separator between.     *)
to_hex(b, separator) ==
  [i \in 1..(3 * Len(b) - 1) |->
     IF i % 3 = 0 THEN separator ELSE HexOf(b, Upper)[2 * (i \div 3) + (i % 3)]]

-----------------------------------------------------------------------------
Init ==
  /\ ts = [date |-> [year |-> 2024, month |-> 1, day |-> 1],
           time |-> [hour |-> 0, minute |-> 0, second |-> 0], fraction |-> 0]
  /\ blob = <<>>

ChangeDate ==
  /\ \E y \in Years, m, d \in Months : ts' = [ts EXCEPT !.date = [year |-> y, month |-> m, day |-> d]]
  /\ UNCHANGED blob
ChangeTime ==
  /\ \E h, m, s \in Clock : ts' = [ts EXCEPT !.time = [hour |-> h, minute |-> m, second |-> s]]
  /\ UNCHANGED blob
ChangeFraction ==
  /\ \E f \in Fractions : ts' = [ts EXCEPT !.fraction = f]
  /\ UNCHANGED blob
AddByte ==
  /\ Len(blob) < MaxBytes /\ \E b \in Bytes : blob' = Append(blob, b)
  /\ UNCHANGED ts

Next == ChangeDate \/ ChangeTime \/ ChangeFraction \/ AddByte
Spec == Init /\ [][Next]_vars

-----------------------------------------------------------------------------
Legible == ts.date.month < 100 /\ ts.date.day < 100

(* What a parameter is written as reads back as the same value, to the     *)
(* nanosecond.                                                             *)
TimestampRoundTrip == Legible => parse_timestamp(format_timestamp(ts)) = ts

(* Trimming the fraction for display loses nothing: the seconds in front   *)
(* of it keep their zeroes, and one digit always survives the dot.         *)
DisplayExact ==
  Legible => /\ parse_timestamp(DisplayTimestamp(ts)) = ts
             /\ IsDigit(DisplayTimestamp(ts)[Len(DisplayTimestamp(ts))])

(* A field that prints wider than its format ("a garbage hour read out of  *)
(* a buffer the driver never filled") never makes a text longer than the   *)
(* buffer behind it.                                                       *)
DisplayFits == Len(DisplayDate(ts.date)) < 16 /\ Len(DisplayTimestamp(ts)) < 48

(* A binary value comes back byte for byte, up to the column's width.      *)
BlobRoundTrip ==
  \A capacity \in 0..(MaxBytes + 1) :
    decode_bytea(encode_bytea(blob), capacity)
      = SubSeq(blob, 1, IF Len(blob) < capacity THEN Len(blob) ELSE capacity)

(* A guid reads back as written.                                           *)
GuidRoundTrip == parse_guid(format_guid(Guid)) = Guid

(* The dump of a binary value: reading its digits around the separators    *)
(* gives the bytes again.                                                  *)
HexFaithful ==
  blob # <<>> => decode_bytea(Undashed(to_hex(blob, Dash)), MaxBytes) = blob

(* A value keeps its meaning through every text it travels or prints as.   *)
ValuesFaithful ==
  TimestampRoundTrip /\ DisplayExact /\ DisplayFits /\ BlobRoundTrip /\ GuidRoundTrip /\ HexFaithful
=============================================================================
