-------------------- MODULE StateMachineIdentity_proofs --------------------
(***************************************************************************)
(* Proofs about convertToStateMachine (StateMachineIdentity) for every    *)
(* alphabet, every bound on the length of the input and every toUpperCase *)
(* table that leaves POLKADOT and KUSAMA as they are.                     *)
(*                                                                         *)
(* The parse of a digit string is a recursive function (DecimalValue);    *)
(* what it computes for a digit string of any length needs induction over *)
(* the length, out of reach here, so TypeOK stays with TLC.  The strings   *)
(* format produces have at most two digits, and for those the recursive   *)
(* function is unfolded by exhibiting its value on 0..Len(p).             *)
(***************************************************************************)
EXTENDS StateMachineIdentity, SequenceTheorems, TLAPS

-----------------------------------------------------------------------------
(* Digits.                                                                 *)

LEMMA DigitValues == \A d \in 0..9 : DigitValue(DigitChar[d + 1]) = d
  BY DEF DigitValue, DigitChar

LEMMA DigitChars == \A d \in 0..9 : DigitChar[d + 1] \in DecDigits
  BY DEF DecDigits, DigitChar

(* The value of a one-digit string.                                        *)
LEMMA OneDigit ==
  ASSUME NEW a \in 0..9
  PROVE  DecimalValue(<<DigitChar[a + 1]>>) = a
<1> DEFINE p == <<DigitChar[a + 1]>>
<1> DEFINE F(g) == [i \in 0..Len(p) |-> IF i = 0 THEN 0 ELSE 10 * g[i - 1] + DigitValue(p[i])]
<1> DEFINE w == [i \in 0..1 |-> IF i = 0 THEN 0 ELSE a]
<1>1. w = F(w)
  BY DigitValues
<1>2. \E g : g = F(g)
  BY <1>1
<1>3. LET v == CHOOSE g : g = F(g) IN v[1] = a
  BY <1>2, DigitValues
<1> QED
  BY <1>3 DEF DecimalValue

(* The value of a two-digit string.                                        *)
LEMMA TwoDigits ==
  ASSUME NEW a \in 0..9, NEW b \in 0..9
  PROVE  DecimalValue(<<DigitChar[a + 1], DigitChar[b + 1]>>) = 10 * a + b
<1> DEFINE p == <<DigitChar[a + 1], DigitChar[b + 1]>>
<1> DEFINE F(g) == [i \in 0..Len(p) |-> IF i = 0 THEN 0 ELSE 10 * g[i - 1] + DigitValue(p[i])]
<1> DEFINE w == [i \in 0..2 |-> IF i = 0 THEN 0 ELSE IF i = 1 THEN a ELSE 10 * a + b]
<1>1. w = F(w)
  BY DigitValues DEF DigitChar
<1>2. \E g : g = F(g)
  BY <1>1
<1>3. LET v == CHOOSE g : g = F(g) IN v[2] = 10 * a + b
  BY <1>2, DigitValues DEF DigitChar
<1> QED
  BY <1>3 DEF DecimalValue

(* format writes a number below 100 with one or two decimal digits, and   *)
(* their value is the number.                                             *)
LEMMA DigitsOfNumber ==
  ASSUME NEW n \in 0..99
  PROVE  /\ Digits(n) \in Seq(DecDigits)
         /\ Len(Digits(n)) \in 1..2
         /\ DecimalValue(Digits(n)) = n
<1>1. CASE n < 10
  BY <1>1, OneDigit, DigitChars DEF Digits
<1>2. CASE n >= 10
  <2>1. n \div 10 \in 0..9 /\ n % 10 \in 0..9 /\ n = 10 * (n \div 10) + (n % 10)
    BY <1>2
  <2>2. Digits(n) = <<DigitChar[(n \div 10) + 1], DigitChar[(n % 10) + 1]>>
    BY <1>2 DEF Digits
  <2>3. DecimalValue(Digits(n)) = 10 * (n \div 10) + (n % 10)
    BY <2>1, <2>2, TwoDigits
  <2>. QED
    BY <2>1, <2>2, <2>3, DigitChars
<1> QED
  BY <1>1, <1>2

-----------------------------------------------------------------------------
(* Splitting.                                                              *)

(* A string of digits has no dash: split gives it back whole.              *)
LEMMA NoDash ==
  ASSUME NEW p \in Seq(DecDigits)
  PROVE  DashAt(p) = 0 /\ FirstPart(p) = p
<1>1. Dash \notin DecDigits
  BY DEF Dash, DecDigits, DigitChar
<1>2. {i \in 1..Len(p) : p[i] = Dash /\ \A j \in 1..(i - 1) : p[j] # Dash} = {}
  BY <1>1
<1>3. DashAt(p) = 0
  BY <1>2 DEF DashAt
<1>. QED
  BY <1>3 DEF FirstPart

(* parseInt's scan reads a string of digits to its end.                   *)
LEMMA AllDigits ==
  ASSUME NEW p \in Seq(DecDigits)
  PROVE  NonDigitAt(p) = 0 /\ DigitPrefix(p) = p
  BY DEF NonDigitAt, DigitPrefix

(* split("-") of "FAMILY-NUMBER": the family, then the number's digits.   *)
LEMMA FormatSplit ==
  ASSUME NEW f \in DOMAIN Families, NEW n \in 0..99
  PROVE  /\ FirstPart(Format(SM(f, n))) = <<Families[f]>>
         /\ SecondPart(Format(SM(f, n))) = Digits(n)
         /\ SubSeq(Format(SM(f, n)), 3, Len(Format(SM(f, n)))) = Digits(n)
<1> DEFINE s == Format(SM(f, n))
<1> DEFINE d == Digits(n)
<1> DEFINE h == <<Families[f], Dash>>
<1> DEFINE C == DecDigits \cup {"POLKADOT", "KUSAMA", Dash}
<1>1. d \in Seq(DecDigits) /\ Len(d) \in 1..2
  BY DigitsOfNumber
<1>2. Families[f] \in {"POLKADOT", "KUSAMA"}
  BY DEF Families
<1>3. /\ h \in Seq(C) /\ Len(h) = 2
      /\ d \in Seq(C)
      /\ s = h \o d
  BY <1>1, <1>2, SeqMonotonic DEF Format, SM
<1>4. /\ Len(s) = 2 + Len(d)
      /\ s[1] = Families[f] /\ s[2] = Dash
  BY <1>3, ConcatProperties
<1>5. {i \in 1..Len(s) : s[i] = Dash /\ \A j \in 1..(i - 1) : s[j] # Dash} = {2}
  BY <1>2, <1>4 DEF Dash
<1>6. DashAt(s) = 2
  BY <1>5 DEF DashAt
<1>7. FirstPart(s) = <<Families[f]>>
  <2>1. SubSeq(s, 1, 1) = SubSeq(h, 1, 1)
    BY <1>3, SubSeqOfConcat1
  <2>2. SubSeq(h, 1, 1) \in Seq(C) /\ Len(SubSeq(h, 1, 1)) = 1
        /\ SubSeq(h, 1, 1)[1] = Families[f]
    BY <1>2, SubSeqProperties
  <2>3. <<Families[f]>> \in Seq(C) /\ Len(<<Families[f]>>) = 1
        /\ <<Families[f]>>[1] = Families[f]
    BY <1>2
  <2>4. SubSeq(h, 1, 1) = <<Families[f]>>
    <3>. \A i \in 1..Len(SubSeq(h, 1, 1)) : SubSeq(h, 1, 1)[i] = <<Families[f]>>[i]
      BY <2>2, <2>3
    <3>. QED
      BY <2>2, <2>3, SeqEqual
  <2>5. FirstPart(s) = SubSeq(s, 1, 1)
    BY <1>6 DEF FirstPart
  <2>. QED
    BY <2>1, <2>4, <2>5
<1>8. SubSeq(s, 3, Len(s)) = d
  <2>1. SubSeq(s, 3, Len(s)) = SubSeq(d, 1, Len(d))
    BY <1>1, <1>3, <1>4, SubSeqOfConcat2
  <2>. QED
    BY <1>1, <2>1, SubSeqFull
<1>9. FirstPart(d) = d
  BY <1>1, NoDash
<1>10. SecondPart(s) = FirstPart(SubSeq(s, 3, Len(s)))
  BY <1>6 DEF SecondPart
<1>. QED
  BY <1>7, <1>8, <1>9, <1>10

-----------------------------------------------------------------------------
(* The round trip.                                                         *)

(* toUpperCase leaves an upper-case network name as it is, whether or not *)
(* the alphabet has it as a word.                                         *)
LEMMA UpperFamily ==
  ASSUME NEW f \in DOMAIN Families
  PROVE  ToUpperCase(<<Families[f]>>) = <<Families[f]>>
<1>1. Families[f] \in {"POLKADOT", "KUSAMA"}
  BY DEF Families
<1>2. Families[f] \in Words => UpperOf[Families[f]] = Families[f]
  BY <1>1, StateMachineIdentityAssumption
<1>. QED
  BY <1>2 DEF ToUpperCase

(* The characters of a substring are characters of the string.           *)
LEMMA SubSeqChars ==
  ASSUME NEW X, NEW s \in Seq(X), NEW m \in 1..(Len(s) + 1), NEW k \in (m - 1)..Len(s)
  PROVE  SubSeq(s, m, k) \in Seq(X)
  BY SubSeqProperties

(* convertToStateMachine(format(id)) = id, for every identity whose       *)
(* formatted string is made of input characters.                          *)
LEMMA RoundTrip ==
  ASSUME NEW f \in DOMAIN Families, NEW n \in 0..99,
         Format(SM(f, n)) \in Seq(InputChars)
  PROVE  ConvertToStateMachine(Format(SM(f, n))) = SM(f, n)
<1> DEFINE s == Format(SM(f, n))
<1> DEFINE d == Digits(n)
<1>1. FirstPart(s) = <<Families[f]>> /\ SecondPart(s) = d
  BY FormatSplit
<1>2. d \in Seq(InputChars)
  <2>1. SubSeq(s, 3, Len(s)) = d
    BY FormatSplit
  <2>2. Len(s) = 2 + Len(d)
    BY DigitsOfNumber DEF Format, SM
  <2>0. Len(d) \in 1..2
    BY DigitsOfNumber
  <2>3. 3 \in 1..(Len(s) + 1) /\ Len(s) \in (3 - 1)..Len(s)
    BY <2>0, <2>2
  <2>4. SubSeq(s, 3, Len(s)) \in Seq(InputChars)
    BY <2>3, SubSeqChars, Zenon
  <2>. QED
    BY <2>1, <2>4
<1>3. d # Undefined
  BY <1>2, StateMachineIdentityAssumption
<1>4. ParseInt(d) = n
  <2>1. d \in Seq(DecDigits) /\ Len(d) \in 1..2 /\ DecimalValue(d) = n
    BY DigitsOfNumber
  <2>2. DigitPrefix(d) = d
    BY <2>1, AllDigits
  <2>3. DigitPrefix(d) # <<>>
    BY <2>1, <2>2
  <2>. QED
    BY <1>3, <2>1, <2>2, <2>3 DEF ParseInt
<1>5. ToUpperCase(FirstPart(s)) = <<Families[f]>>
  BY <1>1, UpperFamily
<1>6. CASE f = "Polkadot"
  BY <1>1, <1>4, <1>5, <1>6 DEF ConvertToStateMachine, Families
<1>7. CASE f = "Kusama"
  BY <1>1, <1>4, <1>5, <1>7 DEF ConvertToStateMachine, Families
<1>. QED
  BY <1>6, <1>7 DEF Families

-----------------------------------------------------------------------------
(* The invariants of a call.                                               *)

(* The input is never changed, and the result, once there, is the value   *)
(* of convertToStateMachine on it.                                        *)
CInv ==
  /\ input \in Inputs
  /\ result = None \/ result = ConvertToStateMachine(input)

LEMMA InputsAreStrings == Inputs \subseteq Seq(InputChars)
  BY StateMachineIdentityAssumption DEF Inputs

LEMMA InitCInv == Init => CInv
  BY DEF Init, CInv

LEMMA NextCInv == CInv /\ [Convert]_vars => CInv'
  BY DEF CInv, Convert, vars

LEMMA CInvHolds == Spec => []CInv
  BY InitCInv, NextCInv, PTL DEF Spec

(* format then convertToStateMachine gives back the identity (§8), for    *)
(* every alphabet, input bound and toUpperCase table.                     *)
THEOREM ConvertRoundTrip == Spec => []FormatRoundTrip
<1>1. CInv => FormatRoundTrip
  <2> SUFFICES ASSUME CInv, NEW f \in DOMAIN Families, NEW n \in 0..99,
                      result # None, input = Format(SM(f, n))
               PROVE  result = SM(f, n)
    BY DEF FormatRoundTrip
  <2>1. Format(SM(f, n)) \in Seq(InputChars)
    BY InputsAreStrings DEF CInv
  <2>. QED
    BY <2>1, RoundTrip DEF CInv
<1>. QED
  BY <1>1, CInvHolds, PTL

=============================================================================
