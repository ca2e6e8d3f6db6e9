---------------------------- MODULE IdentityRules ----------------------------
(***************************************************************************)
(* What aggregation.ts concludes from observations: the name and category  *)
(* guessIdentity reads off one of them, the candidate identities of a      *)
(* number, and the score of a candidate.                                   *)
(*                                                                         *)
(* An observation row is reduced to what the rules ask of it: its number,  *)
(* source, the company name in its surroundings, which keywords its text   *)
(* has, and its source's standing.                                         *)
(***************************************************************************)
EXTENDS Integers, Sequences, FiniteSets, FiniteSetsExt

CONSTANTS
    Phones,       \* normalized numbers
    NoPhone,      \* phone_normalized IS NULL
    Sources,      \* data_sources
    Companies,    \* matches of COMPANY_NAME_REGEX, as spelled
    NoCompany,
    NameKey,      \* normalizeNameKey: spelling -> name in lower case with
                  \* single blanks
    Categories,   \* identity_category
    NoCategory,
    Precedence    \* CATEGORY_KEYWORDS: categories by their place in the list

ObservationRow ==
    [phone : Phones \cup {NoPhone}, source : Sources,
     company : Companies \cup {NoCompany}, keywords : SUBSET Categories,
     hotline : BOOLEAN, congTy : BOOLEAN,
     official : BOOLEAN, high : BOOLEAN]

ASSUME IdentityConstantsOK ==
    /\ NoPhone \notin Phones /\ NoCompany \notin Companies
    /\ NoCategory \notin Categories
    /\ NameKey \in [Companies -> Companies]
    /\ IsFiniteSet(Categories)
    /\ Precedence \in [Categories -> Nat]
    /\ \A c, d \in Categories : Precedence[c] = Precedence[d] => c = d

\* normalized_name: "<company>", "<source> hotline", "unknown (<source>)"
Names == Companies \cup ({"hotline", "unknown"} \X Sources)

\* guessIdentity, displayName.  The company is looked for around the number,
\* the hotline keyword in the text.
GuessName(row) ==
    IF row.company # NoCompany THEN NameKey[row.company]
    ELSE IF row.hotline THEN <<"hotline", row.source>>
    ELSE <<"unknown", row.source>>

\* guessIdentity, category: the first entry of CATEGORY_KEYWORDS that matches.
GuessCategory(row) ==
    IF row.keywords = {} THEN NoCategory
    ELSE CHOOSE c \in row.keywords :
            \A d \in row.keywords : Precedence[c] <= Precedence[d]

\* computeScore.  A flag of the candidate is the disjunction over its rows.
Score(rows, About) ==
    LET points(flag, n) == IF flag THEN n ELSE 0
        total == 10 * Cardinality(rows)
                 + points(\E o \in rows : About[o].high, 20)
                 + points(\E o \in rows : About[o].hotline, 15)
                 + points(\E o \in rows : About[o].congTy, 15)
                 + points(\E o \in rows : About[o].official, 20)
    IN  IF total > 100 THEN 100 ELSE total
=============================================================================
