----------------------------- MODULE ShortName -----------------------------
(***************************************************************************)
(* The 8.3 names that the code derives from a name and compares names      *)
(* with: canonical_short_name, short_alias, ShortName::checksum and        *)
(* ShortName::matches.                                                     *)
(*                                                                         *)
(* A name is a sequence of characters; a short name has a base of eight    *)
(* and an extension of three, padded with spaces.  A character is one      *)
(* UTF-16 unit.                                                            *)
(***************************************************************************)
EXTENDS Integers, Sequences, FiniteSetsExt

CONSTANT NoShortName

Alphabet ==
  <<"A", "B", "C", "D", "E", "F", "G", "H", "I", "J", "K", "L", "M",
    "N", "O", "P", "Q", "R", "S", "T", "U", "V", "W", "X", "Y", "Z">>
UpperCase ==
  [a |-> "A", b |-> "B", c |-> "C", d |-> "D", e |-> "E", f |-> "F", g |-> "G", h |-> "H",
   i |-> "I", j |-> "J", k |-> "K", l |-> "L", m |-> "M", n |-> "N", o |-> "O", p |-> "P",
   q |-> "Q", r |-> "R", s |-> "S", t |-> "T", u |-> "U", v |-> "V", w |-> "W", x |-> "X",
   y |-> "Y", z |-> "Z"]
DigitOf == <<"1", "2", "3", "4", "5", "6", "7", "8", "9">>
Digit(d) == IF d = 0 THEN "0" ELSE DigitOf[d]
Punctuation ==  \* grave stands for the accent of that name
  {"$", "%", "'", "-", "_", "@", "~", "grave", "!", "(", ")", "{", "}", "^", "#", "&"}

(* to_ascii_uppercase, is_short_character, sanitized_short_character       *)
Upper(ch) == IF ch \in DOMAIN UpperCase THEN UpperCase[ch] ELSE ch
IsShortCharacter(ch) ==
  \/ \E i \in DOMAIN Alphabet : ch = Alphabet[i]
  \/ \E d \in 0 .. 9 : ch = Digit(d)
  \/ ch \in Punctuation
Sanitized(ch) == IF IsShortCharacter(Upper(ch)) THEN Upper(ch) ELSE "_"

-----------------------------------------------------------------------------
(* rsplit_once('.')                                                        *)
Dots(name) == {i \in DOMAIN name : name[i] = "."}
Base(name) == IF Dots(name) = {} THEN name ELSE SubSeq(name, 1, Max(Dots(name)) - 1)
Extension(name) ==
  IF Dots(name) = {} THEN <<>> ELSE SubSeq(name, Max(Dots(name)) + 1, Len(name))

Padded(text, n) == [i \in 1 .. n |-> IF i <= Len(text) THEN text[i] ELSE " "]

(* canonical_short_name                                                    *)
CanonicalShortName(name) ==
  IF /\ Cardinality(Dots(name)) <= 1
     /\ Len(Base(name)) \in 1 .. 8 /\ Len(Extension(name)) <= 3
     /\ \A i \in DOMAIN name : name[i] = "." \/ IsShortCharacter(name[i])
  THEN [base |-> Padded(Base(name), 8), extension |-> Padded(Extension(name), 3)]
  ELSE NoShortName

(* short_alias: the suffix ~ordinal ends in the eighth column, whatever    *)
(* the length of the base.                                                 *)
Digits[k \in Nat] == IF k = 0 THEN <<>> ELSE Append(Digits[k \div 10], Digit(k % 10))
ShortAlias(name, ordinal) ==
  LET suffix == <<"~">> \o Digits[ordinal]
      prefix == 8 - Len(suffix)
      text == [i \in DOMAIN name |-> Sanitized(name[i])]
      base == IF Base(name) = <<>> THEN <<"_">> ELSE SubSeq(text, 1, Len(Base(name)))
      extension == SubSeq(text, Len(name) - Len(Extension(name)) + 1, Len(name))
  IN  [base |-> [i \in 1 .. 8 |-> IF i > prefix THEN suffix[i - prefix] ELSE Padded(base, prefix)[i]],
       extension |-> Padded(extension, 3)]

-----------------------------------------------------------------------------
(* ShortName::checksum, of the bytes of the two parts                      *)
Code(ch) ==
  CASE \E i \in 1 .. 26 : ch = Alphabet[i] -> 64 + CHOOSE i \in 1 .. 26 : ch = Alphabet[i]
    [] \E d \in 0 .. 9 : ch = Digit(d) -> 48 + CHOOSE d \in 0 .. 9 : ch = Digit(d)
    [] ch = " " -> 32 [] ch = "~" -> 126 [] ch = "_" -> 95
ChecksumOf(short) ==
  LET text == short.base \o short.extension
      sum[k \in 0 .. Len(text)] ==
        IF k = 0 THEN 0
        ELSE ((sum[k - 1] \div 2) + 128 * (sum[k - 1] % 2) + Code(text[k])) % 256
  IN  sum[Len(text)]

(* component_matches compares up to the first space, and                   *)
(* ShortName::matches both parts ('.' and '..' are not names of entries    *)
(* that calls create).                                                     *)
UpToSpace(raw) ==
  LET spaces == {i \in DOMAIN raw : raw[i] = " "}
  IN  IF spaces = {} THEN raw ELSE SubSeq(raw, 1, Min(spaces) - 1)
SameIgnoringCase(s, t) == Len(s) = Len(t) /\ \A i \in DOMAIN s : Upper(s[i]) = Upper(t[i])
ShortMatches(short, name) ==
  /\ SameIgnoringCase(UpToSpace(short.base), Base(name))
  /\ SameIgnoringCase(UpToSpace(short.extension), Extension(name))

(* write_short_name: the name as a listing shows it, without the spaces at *)
(* the end of its parts.                                                   *)
Trimmed(raw) ==
  LET used == {i \in DOMAIN raw : raw[i] # " "}
  IN  IF used = {} THEN <<>> ELSE SubSeq(raw, 1, Max(used))
Displayed(short) ==
  IF Trimmed(short.extension) = <<>> THEN Trimmed(short.base)
  ELSE Trimmed(short.base) \o <<".">> \o Trimmed(short.extension)

(* The pieces of thirteen characters that a long name takes.               *)
LongNamePieces(name) == (Len(name) + 12) \div 13
=============================================================================
