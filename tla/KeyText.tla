------------------------------ MODULE KeyText ------------------------------
(***************************************************************************)
(* The text a key renders as and the key a typed text stands for: String   *)
(* and Char keys (src/src/parser/value.rs, src/src/parser/java_deser.rs),  *)
(* BigInteger and BigDecimal keys, and the calendar of Date keys           *)
(* (src/src/parser/key_group.rs, src/src/parser/pojo.rs).                  *)
(*                                                                         *)
(* Code units, characters and bytes are their numbers. The width of the    *)
(* BigInteger arithmetic is a parameter (bytes of Byte values, WordBytes   *)
(* to a word, decimal chunks of Chunk = 10^ChunkDigits): the code has 256, *)
(* 4 and 10^9, which TLC's integers cannot multiply. The time of day of a  *)
(* Date is left out: it is split off by div_euclid and put back.           *)
(***************************************************************************)
EXTENDS StringValue

CONSTANTS Byte, WordBytes, ChunkDigits

ASSUME KeyTextAssumption ==
    /\ Byte \in Nat /\ Byte >= 4 /\ Byte % 2 = 0
    /\ WordBytes \in Nat \ {0} /\ Byte ^ WordBytes >= 10
    /\ ChunkDigits \in Nat \ {0}

\* A text that is not such a key.
None == << -1 >>

(***************************************************************************)
(* UTF-16.                                                                 *)
(***************************************************************************)

Backslash == 92
U == 117
IsHigh(u) == u \in 55296 .. 56319
IsLow(u) == u \in 56320 .. 57343
IsSurrogate(u) == IsHigh(u) \/ IsLow(u)

\* char::decode_utf16: a pair is one character; a lone surrogate stays what it is,
\* which no character is.
DecodeUtf16(units) ==
    LET from[i \in 1 .. Len(units) + 1] ==
            IF i > Len(units) THEN <<>>
            ELSE IF IsHigh(units[i]) /\ i < Len(units) /\ IsLow(units[i + 1])
                 THEN <<65536 + (units[i] - 55296) * 1024 + units[i + 1] - 56320>> \o from[i + 2]
                 ELSE <<units[i]>> \o from[i + 1]
    IN  from[1]

EncodeUtf16(c) ==
    IF c < 65536 THEN <<c>>
    ELSE <<55296 + (c - 65536) \div 1024, 56320 + ((c - 65536) % 1024)>>

HexDigit(n) == IF n < 10 THEN 48 + n ELSE 55 + n
IsHexDigit(c) == c \in 48 .. 57 \/ c \in 65 .. 70 \/ c \in 97 .. 102
HexValue(c) == IF c <= 57 THEN c - 48 ELSE IF c <= 70 THEN c - 55 ELSE c - 87

\* "\u" and four uppercase hex digits.
Escape(unit) ==
    <<Backslash, U>> \o [i \in 1 .. 4 |-> HexDigit((unit \div 16 ^ (4 - i)) % 16)]

HasEscape(text) ==
    \E i \in 1 .. Len(text) - 1 : text[i] = Backslash /\ text[i + 1] = U

\* Mutant: only a lone surrogate makes the rendering an escaped one.
PlainBackslash(chars) == \A i \in DOMAIN chars : ~IsSurrogate(chars[i])

\* Whether the characters render as themselves.
IsPlain(chars) == (\A i \in DOMAIN chars : ~IsSurrogate(chars[i])) /\ ~HasEscape(chars)

\* key_string: the text of a String key's units.
KeyString(units) ==
    LET chars == DecodeUtf16(units)
        escaped(c) == CASE c = Backslash -> <<c, c>>
                        [] IsSurrogate(c) -> Escape(c)
                        [] OTHER -> <<c>>
    IN  IF IsPlain(chars) THEN chars
        ELSE FlattenSeq([i \in DOMAIN chars |-> escaped(chars[i])])

\* parse_key_string: the units of such a text.
ParseKeyString(text) ==
    LET n == Len(text)
        then(units, rest) == IF rest = None THEN None ELSE units \o rest
        HexAt(i) == i + 3 <= n /\ \A k \in i .. i + 3 : IsHexDigit(text[k])
        Unit(i) == HexValue(text[i]) * 4096 + HexValue(text[i + 1]) * 256
                   + HexValue(text[i + 2]) * 16 + HexValue(text[i + 3])
        from[i \in 1 .. n + 1] ==
            IF i > n THEN <<>>
            ELSE IF text[i] # Backslash THEN then(EncodeUtf16(text[i]), from[i + 1])
            ELSE IF i = n THEN None
            ELSE IF text[i + 1] = Backslash THEN then(<<Backslash>>, from[i + 2])
            ELSE IF text[i + 1] = U /\ HexAt(i + 2) THEN then(<<Unit(i + 2)>>, from[i + 6])
            ELSE None
    IN  IF HasEscape(text) THEN from[1]
        ELSE FlattenSeq([i \in 1 .. n |-> EncodeUtf16(text[i])])

\* char_value: one unit as text.
CharValue(unit) == IF IsSurrogate(unit) THEN Escape(unit) ELSE <<unit>>

\* u16::from_str_radix of four characters, which takes a leading plus sign.
FromHex(h) ==
    LET value(d) == IF d = 43 THEN 0 ELSE HexValue(d)
    IN  IF (h[1] = 43 \/ IsHexDigit(h[1]))
           /\ \A k \in 2 .. 4 : IsHexDigit(h[k])
        THEN <<value(h[1]) * 4096 + HexValue(h[2]) * 256 + HexValue(h[3]) * 16 + HexValue(h[4])>>
        ELSE None

\* parse_char: a character of one unit, or an escape.
ParseChar(text) ==
    IF Len(text) = 1 THEN IF text[1] < 65536 THEN text ELSE None
    ELSE IF Len(text) = 6 /\ SubSeq(text, 1, 2) = <<Backslash, U>>
         THEN FromHex(SubSeq(text, 3, 6))
         ELSE None

\* JavaKey::canonical_text of a String key: what its bytes render as.
CanonicalString(units) ==
    LET bytes == WriteUnits(units)
        read == ReadUnits(bytes)
    IN  IF read.ok /\ ~read.null /\ read.next = Len(bytes) + 1 THEN KeyString(read.units) ELSE None

(***************************************************************************)
(* BigInteger keys. A magnitude is a sequence of words, most significant   *)
(* first, without a leading zero.                                          *)
(***************************************************************************)

Word == Byte ^ WordBytes

\* f as a sequence computed at once (TLC evaluates a function when it is applied).
Computed(f) == f \o <<>>

\* One digit more: every word times ten, the carry into the next (least significant
\* first), and a new word for what is left.
TimesTenPlus(words, digit) ==
    LET carry[i \in 0 .. Len(words)] ==
            IF i = 0 THEN digit ELSE (words[i] * 10 + carry[i - 1]) \div Word
        out == Computed([i \in DOMAIN words |-> (words[i] * 10 + carry[i - 1]) % Word])
    IN  IF carry[Len(words)] # 0 THEN Append(out, carry[Len(words)]) ELSE out

\* parse_decimal of the digits: the magnitude, most significant word first.
ParseDigits(digits) == Reverse(FoldLeft(TimesTenPlus, <<>>, digits))

\* Invert and add one, least significant byte last; the carry is dropped at the top.
Negated(bytes) ==
    LET n == Len(bytes)
        inv == Computed([i \in 1 .. n |-> Byte - 1 - bytes[i]])
        carried(i) == \A k \in i + 1 .. n : inv[k] = Byte - 1
    IN  Computed([i \in 1 .. n |-> IF carried(i) THEN (inv[i] + 1) % Byte ELSE inv[i]])

SignBit(b) == b >= Byte \div 2

\* Mutant: a leading byte of zeros is dropped whatever the sign bit after it.
DropsSign(bytes, i) == bytes[i] = 0 \/ (bytes[i] = Byte - 1 /\ SignBit(bytes[i + 1]))

\* Whether byte i only repeats the sign of the next.
Redundant(bytes, i) ==
    \/ bytes[i] = 0 /\ ~SignBit(bytes[i + 1])
    \/ bytes[i] = Byte - 1 /\ SignBit(bytes[i + 1])

\* big_integer_to_byte_array: two's complement, most significant first, shortest.
ToByteArray(negative, magnitude) ==
    LET wordBytes(w) == [k \in 1 .. WordBytes |-> (w \div Byte ^ (WordBytes - k)) % Byte]
        wide == <<0>> \o FlattenSeq([i \in DOMAIN magnitude |-> wordBytes(magnitude[i])])
        bytes == IF negative THEN Negated(wide) ELSE wide
        start == CHOOSE i \in DOMAIN bytes :
                    /\ i = Len(bytes) \/ ~Redundant(bytes, i)
                    /\ \A k \in 1 .. i - 1 : Redundant(bytes, k)
    IN  SubSeq(bytes, start, Len(bytes))

\* One division of the magnitude by Chunk: the quotient and the remainder.
DivideChunk(mag) ==
    LET chunk == 10 ^ ChunkDigits
        rem[i \in 0 .. Len(mag)] == IF i = 0 THEN 0 ELSE (rem[i - 1] * Byte + mag[i]) % chunk
    IN  [q |-> Computed([i \in DOMAIN mag |-> (rem[i - 1] * Byte + mag[i]) \div chunk]),
         rem |-> rem[Len(mag)]]

\* The decimal digits of n, at least `width` of them.
Digits(n, width) ==
    LET count == CHOOSE k \in 1 .. 10 : n < 10 ^ k /\ (k = 1 \/ n >= 10 ^ (k - 1))
        w == Max({count, width})
    IN  [i \in 1 .. w |-> (n \div 10 ^ (w - i)) % 10]

IsZero(mag) == \A i \in DOMAIN mag : mag[i] = 0

Minus == -2
Plus == -3
Point == -4
Exp == -5

\* twos_complement_to_decimal: the magnitude divided by Chunk until nothing is left,
\* its remainders written from the last, all but the first at full width.
TwosComplementToDecimal(bytes) ==
    LET negative == bytes # <<>> /\ SignBit(bytes[1])
        mag == IF negative THEN Negated(bytes) ELSE bytes
        left[k \in 0 .. Len(mag) * Byte] ==
            IF k = 0 THEN mag ELSE DivideChunk(left[k - 1]).q
        n == CHOOSE k \in 0 .. Len(mag) * Byte :
                IsZero(left[k]) /\ \A j \in 0 .. k - 1 : ~IsZero(left[j])
        chunk(k) == Digits(DivideChunk(left[k - 1]).rem, IF k = n THEN 1 ELSE ChunkDigits)
        text == IF n = 0 THEN <<0>> ELSE FlattenSeq([k \in 1 .. n |-> chunk(n + 1 - k)])
    IN  IF negative THEN <<Minus>> \o text ELSE text

\* A BigInteger key's text through parse, serialize and decode (canonical_text).
CanonicalInteger(negative, digits) ==
    LET mag == ParseDigits(digits)
    IN  TwosComplementToDecimal(ToByteArray(negative /\ mag # <<>>, mag))

(***************************************************************************)
(* BigDecimal keys.                                                        *)
(***************************************************************************)

\* Mutant: one zero is missing after the point.
OneZeroLess(n) == [i \in 1 .. n - 1 |-> 0]

Zeros(n) == [i \in 1 .. n |-> 0]

\* big_decimal_to_string of digits times 10^-scale.
BigDecimalToString(negative, digits, scale) ==
    LET n == Len(digits)
        adjusted == n - 1 - scale
        plain == IF scale = 0 THEN digits
                 ELSE IF scale < n
                      THEN SubSeq(digits, 1, n - scale) \o <<Point>> \o SubSeq(digits, n - scale + 1, n)
                      ELSE <<0, Point>> \o Zeros(scale - n) \o digits
        sign == IF adjusted > 0 THEN <<Plus>> ELSE <<Minus>>
        size == IF adjusted > 0 THEN adjusted ELSE -adjusted
        scientific == SubSeq(digits, 1, 1)
                      \o (IF n > 1 THEN <<Point>> \o Tail(digits) ELSE <<>>)
                      \o (IF adjusted # 0 THEN <<Exp>> \o sign \o Digits(size, 1) ELSE <<>>)
    IN  (IF negative THEN <<Minus>> ELSE <<>>)
        \o (IF scale >= 0 /\ adjusted >= -6 THEN plain ELSE scientific)

(***************************************************************************)
(* The calendar of Date and LocalDate keys. Rust's division truncates;     *)
(* every dividend below is brought to a floor before it, or is positive.   *)
(***************************************************************************)

\* days_from_civil.
DaysFromCivil(year, m, d) ==
    LET y   == IF m <= 2 THEN year - 1 ELSE year
        era == y \div 400
        yoe == y - era * 400
        mp  == IF m > 2 THEN m - 3 ELSE m + 9
        doy == (153 * mp + 2) \div 5 + d - 1
    IN  era * 146097 + yoe * 365 + yoe \div 4 - yoe \div 100 + doy - 719468

\* Mutant: the last day of an era is taken for the first of a 401st year.
YearOfEraLong(doe) == (doe - doe \div 1460 + doe \div 36524) \div 365

YearOfEra(doe) == (doe - doe \div 1460 + doe \div 36524 - doe \div 146096) \div 365

\* The date millis_to_iso renders for a day since 1970-01-01.
Civil(day) ==
    LET days == day + 719468
        era  == days \div 146097
        doe  == days - era * 146097
        yoe  == YearOfEra(doe)
        doy  == doe - (365 * yoe + yoe \div 4 - yoe \div 100)
        mp   == (5 * doy + 2) \div 153
        m    == IF mp < 10 THEN mp + 3 ELSE mp - 9
        y    == yoe + era * 400
    IN  [y |-> IF m <= 2 THEN y + 1 ELSE y, m |-> m, d |-> doy - (153 * mp + 2) \div 5 + 1]

\* parse_iso_millis: a date is taken when the day it computes renders as itself.
ParseDate(date) ==
    LET day == DaysFromCivil(date.y, date.m, date.d)
    IN  IF Civil(day) = date THEN <<day>> ELSE None
=============================================================================
