-------------------------- MODULE PhoneNormalizer --------------------------
(* vietnamPhone.ts: what the API makes of a number as somebody spelled it. *)
(* A text is a sequence of characters: a digit is itself, the others that  *)
(* the code tells apart have names, and everything from Letter on is a     *)
(* character that means nothing to it.  Subtypes of a type that differ in  *)
(* nothing but the confidence they are given are one type here.            *)
EXTENDS Integers, SequencesExt

Digit == 0 .. 9
Plus == 10
Space == 11
Dot == 12
Dash == 13
Break == 14
Comma == 15
Times == 16
Letter == 17

\* 3-digit prefixes of mobile numbers, without the leading 0 they all have.
MOBILE_PREFIXES ==
    UNION { {3} \X (2 .. 9), {5} \X {2, 6, 8, 9}, {7} \X {0, 6, 7, 8, 9},
            {8} \X (1 .. 9), {9} \X ((0 .. 9) \ {5}) }

AllDigits(s) == Range(s) \subseteq Digit

PhoneChar == Digit \cup {Plus}

\* n -> the elements of S among the first n of s, in their order.
KeptUpTo(s, S) ==
    LET kept[n \in 0 .. Len(s)] ==
            IF n = 0 THEN <<>>
            ELSE IF s[n] \in S THEN Append(kept[n - 1], s[n]) ELSE kept[n - 1]
    IN kept

Kept(s, S) == KeptUpTo(s, S)[Len(s)]

OnlyDigitsKeepPlus(s) == Kept(s, PhoneChar)

CountryPrefixed_twelve(s) == IsPrefix(<<8, 4>>, s) /\ Len(s) >= 12

CountryPrefixed(s) == IsPrefix(<<8, 4>>, s) /\ Len(s) >= 11

ToNationalForm(s) ==
    IF IsPrefix(<<Plus, 8, 4>>, s) THEN <<0>> \o SubSeq(s, 4, Len(s))
    ELSE IF CountryPrefixed(s) THEN <<0>> \o SubSeq(s, 3, Len(s))
    ELSE s

\* Nothing is stored in the column phone_normalized.
Unrecognized == [normalized |-> <<>>, type |-> "UNKNOWN"]

IsMobile(national) ==
    Len(national) = 10 /\ <<national[2], national[3]>> \in MOBILE_PREFIXES

IsLandline(national) == Len(national) = 11 /\ national[2] = 2

\* Dialed as they are: neither a leading 0 nor a country code belongs to them.
IsHotline(digits) ==
    /\ AllDigits(digits) /\ Len(digits) \in 8 .. 11
    /\ IsPrefix(<<1, 9, 0, 0>>, digits) \/ IsPrefix(<<1, 8, 0, 0>>, digits)

HotlineType(digits) == IF digits[2] = 9 THEN "HOTLINE_1900" ELSE "HOTLINE_1800"

IsShortCode(digits) == AllDigits(digits) /\ Len(digits) \in 3 .. 6

NormalizeNational(national) ==
    LET type == IF IsMobile(national) THEN "MOBILE"
                ELSE IF IsLandline(national) THEN "LANDLINE" ELSE "UNKNOWN"
    IN IF AllDigits(national) /\ Len(national) \in {10, 11}
       THEN [normalized |-> <<Plus, 8, 4>> \o Tail(national), type |-> type]
       ELSE Unrecognized

NormalizeVietnamPhone(raw) ==
    LET cleaned == OnlyDigitsKeepPlus(raw)
        digits == IF IsPrefix(<<Plus>>, cleaned) THEN Tail(cleaned) ELSE cleaned
    IN IF IsHotline(digits)
       THEN [normalized |-> digits, type |-> HotlineType(digits)]
       ELSE IF \/ IsPrefix(<<0>>, cleaned)
               \/ IsPrefix(<<Plus, 8, 4>>, cleaned)
               \/ CountryPrefixed(cleaned)
            THEN NormalizeNational(ToNationalForm(cleaned))
            ELSE IF IsShortCode(digits)
                 THEN [normalized |-> digits, type |-> "SHORT_CODE"]
                 ELSE Unrecognized
=============================================================================
