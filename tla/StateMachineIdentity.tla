------------------------ MODULE StateMachineIdentity ------------------------
(***************************************************************************)
(* convertToStateMachine(input) of src/scripts/e2e_tests/xc-transfer/     *)
(* region-transfer.ts (the same code as in ismp-get.ts):                  *)
(*                                                                         *)
(*   const [network, value] = input.split("-");                           *)
(*   const numericValue = parseInt(value, 10);                            *)
(*   switch (network.toUpperCase()) { POLKADOT | KUSAMA | default throw } *)
(*                                                                         *)
(* A string is a sequence of characters; a run of letters that the code  *)
(* compares as a whole (a network name) is one Word, so that "POLKADOT"   *)
(* is <<"POLKADOT">> and "polkadot-7" is <<"polkadot", "-", "7">>.  Words   *)
(* are chosen so that no concatenation of words is another word.  The    *)
(* alphabet has no whitespace and no sign, the two things parseInt skips  *)
(* or reads before the digits.                                            *)
(*                                                                         *)
(* The reference is the contract of spec §4.3: parse("FAMILY-NUMBER")     *)
(* fails with UnsupportedFamily on an unknown family and with             *)
(* MalformedValue when the numeric suffix does not parse.                 *)
(***************************************************************************)
EXTENDS Naturals, Sequences

CONSTANTS
  Words,       \* the letter runs an input may contain
  UpperOf,     \* toUpperCase of each word
  InputChars,  \* the characters inputs are made of: words, digits, Dash
  MaxLen,      \* bound on the length of an input
  NaN,         \* the number NaN
  Undefined    \* the value of a missing array element

Dash == "-"
(* The decimal digit characters, DigitChar[d + 1] being the digit d.       *)
DigitChar == <<"0", "1", "2", "3", "4", "5", "6", "7", "8", "9">>
DecDigits == {DigitChar[i] : i \in 1..10}
DigitValue(c) == CHOOSE d \in 0..9 : DigitChar[d + 1] = c

(* toUpperCase leaves an upper-case network name as it is.               *)
ASSUME StateMachineIdentityAssumption ==
  /\ UpperOf \in [Words -> Words]
  /\ \A w \in Words \cap {"POLKADOT", "KUSAMA"} : UpperOf[w] = w
  /\ InputChars \subseteq Words \cup DecDigits \cup {Dash}
  /\ Dash \notin Words /\ NaN \notin Nat
  /\ Undefined \notin Seq(InputChars)
  /\ MaxLen \in Nat

SM(fam, n) == [fam |-> fam, num |-> n]
Unsupported == [thrown |-> "Unsupported network"] \* the default case throws
None == [called |-> FALSE]                         \* not called yet

-----------------------------------------------------------------------------
(* The code.                                                               *)

(* The index of the first dash of s, or 0: where split("-") cuts first.  *)
DashAt(s) ==
  LET first == {i \in 1..Len(s) : s[i] = Dash /\ \A j \in 1..(i - 1) : s[j] # Dash}
  IN  IF first = {} THEN 0 ELSE CHOOSE i \in first : TRUE

(* input.split("-") destructured as [network, value]: the part before the *)
(* first dash, and the part between the first and the second dash, or     *)
(* undefined when the input has no dash.                                  *)
FirstPart(s) ==
  IF DashAt(s) = 0 THEN s ELSE SubSeq(s, 1, DashAt(s) - 1)

SecondPart(s) ==
  IF DashAt(s) = 0 THEN Undefined ELSE FirstPart(SubSeq(s, DashAt(s) + 1, Len(s)))

(* The index of the first character of v that is not a decimal digit, or 0. *)
NonDigitAt(v) ==
  LET first == {i \in 1..Len(v) : v[i] \notin DecDigits /\ \A j \in 1..(i - 1) : v[j] \in DecDigits}
  IN  IF first = {} THEN 0 ELSE CHOOSE i \in first : TRUE

(* Mutant: the last digit of the prefix lost (an off-by-one in the scan). *)
DigitPrefixShort(v) ==
  IF NonDigitAt(v) = 0 THEN SubSeq(v, 1, Len(v) - 1) ELSE SubSeq(v, 1, NonDigitAt(v) - 2)

(* parseInt reads the longest prefix of decimal digits ...                 *)
DigitPrefix(v) ==
  IF NonDigitAt(v) = 0 THEN v ELSE SubSeq(v, 1, NonDigitAt(v) - 1)

(* ... and its value, digit by digit from the left ...                    *)
DecimalValue(p) ==
  LET val[i \in 0..Len(p)] ==
        IF i = 0 THEN 0 ELSE 10 * val[i - 1] + DigitValue(p[i])
  IN  val[Len(p)]

(* ... and is NaN when there is none; parseInt(undefined) parses the      *)
(* string "undefined", which has no digit.                                *)
ParseInt(v) ==
  IF v = Undefined \/ DigitPrefix(v) = <<>> THEN NaN
  ELSE DecimalValue(DigitPrefix(v))

ToUpperCase(s) == [i \in DOMAIN s |-> IF s[i] \in Words THEN UpperOf[s[i]] ELSE s[i]]

(* Mutant: the default case creates the Error without throwing it (as    *)
(* region-transfer.ts does in makeIsmpResponse), so the call returns      *)
(* undefined.                                                             *)
ConvertToStateMachineNoThrow(input) ==
  LET network == FirstPart(input)
      numericValue == ParseInt(SecondPart(input))
  IN CASE ToUpperCase(network) = <<"POLKADOT">> -> SM("Polkadot", numericValue)
       [] ToUpperCase(network) = <<"KUSAMA">> -> SM("Kusama", numericValue)
       [] OTHER -> Undefined

ConvertToStateMachine(input) ==
  LET network == FirstPart(input)
      numericValue == ParseInt(SecondPart(input))
  IN CASE ToUpperCase(network) = <<"POLKADOT">> -> SM("Polkadot", numericValue)
       [] ToUpperCase(network) = <<"KUSAMA">> -> SM("Kusama", numericValue)
       [] OTHER -> Unsupported

-----------------------------------------------------------------------------
(* One call on an input string of at most MaxLen characters.               *)

Inputs == UNION {[1..k -> InputChars] : k \in 0..MaxLen}

VARIABLES input, result

vars == <<input, result>>

Init == input \in Inputs /\ result = None

Convert ==
  /\ result = None
  /\ result' = ConvertToStateMachine(input)
  /\ UNCHANGED input

Spec == Init /\ [][Convert]_vars

-----------------------------------------------------------------------------
(* The contract of §3/§4.3 and the formatting of §8.                       *)

Families == [Polkadot |-> "POLKADOT", Kusama |-> "KUSAMA"]

Digits(n) ==
  IF n < 10 THEN <<DigitChar[n + 1]>>
  ELSE <<DigitChar[(n \div 10) + 1], DigitChar[(n % 10) + 1]>>

(* format(identity): "FAMILY-NUMBER", for numbers below 100.              *)
Format(id) == <<Families[id.fam], Dash>> \o Digits(id.num)

(* The reference splits "FAMILY-NUMBER" at its first dash.               *)
Suffix(s) == IF DashAt(s) = 0 THEN Undefined ELSE SubSeq(s, DashAt(s) + 1, Len(s))

Malformed(s) ==
  \/ Suffix(s) = Undefined \/ Suffix(s) = <<>>
  \/ \E i \in 1..Len(Suffix(s)) : Suffix(s)[i] \notin DecDigits

TypeOK ==
  /\ input \in Inputs
  /\ result \in {None, Unsupported} \cup
                [fam : DOMAIN Families, num : Nat \cup {NaN}]

(* §8: parse is a left inverse of format: the code gives back every       *)
(* identity whose formatted string it is called on.                       *)
FormatRoundTrip ==
  \A f \in DOMAIN Families, n \in 0..99 :
    result # None /\ input = Format(SM(f, n)) => result = SM(f, n)

(* §4.3: a string whose numeric suffix does not parse (missing, empty or  *)
(* with a non-digit) fails with MalformedValue: the code gives no         *)
(* identity for it.                                                       *)
MalformedValueRejected ==
  result # None /\ Malformed(input) => result = Unsupported

=============================================================================
