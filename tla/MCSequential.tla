--------------------------- MODULE MCSequential ---------------------------
(* Sequential with the spellings of one mobile number, a landline, a      *)
(* hotline and a reference number that is no phone number.                 *)
EXTENDS Sequential

KeysTried == {0, 1, 2, 4, 8, 9, Plus}

Mobile == <<0, 9, 1, 2, 3, 4, 5, 6, 7, 8>>
MobileGrouped == <<0, 9, 1, 2, Space, 3, 4, 5, Space, 6, 7, 8>>
MobileAbroad == <<Plus, 8, 4, 9, 1, 2, 3, 4, 5, 6, 7, 8>>
Landline == <<0, 2, 4, Dot, 3, 8, 2, 6, Dash, 1, 2, 3, 4>>
Hotline == <<1, 9, 0, 0, Space, 1, 2, 3, 4>>
Reference == <<1, 2, 3, 4, 5>>

Spellings == {Mobile, MobileGrouped, MobileAbroad, Landline, Hotline, Reference}

InTags == {Mobile, Landline}

Between == { <<Comma, Space>>, <<Letter>>, <<Space, Space>>,
             <<Letter + 1, Break, Letter + 2>> }

DocumentedMarks == { <<Space, Times>>, <<Comma, Space>>, <<Times>>, <<Comma>> }

CONSTANTS m1, m2, m3, company, companyContact, branch, product, signIn,
          contact, chiNhanh, about, login

Common == <<m1, m2>>

\* companyContact is company with a query, which normalize_url drops.
Target == [u \in {company, companyContact, branch, product, signIn} |->
              IF u = companyContact THEN company ELSE u]

Contained == company :> {about} @@ companyContact :> {about, contact}
          @@ branch :> {chiNhanh} @@ product :> {} @@ signIn :> {contact, login}

Scoring == << [pattern |-> contact, score |-> 100],
              [pattern |-> chiNhanh, score |-> 80],
              [pattern |-> about, score |-> 40] >>

Indexes == { s \in BoundedSeq({m1, m2, m3}, 2) : Len(s) = 2 => s[1] # s[2] }

PageLists == { <<>>, <<product, company, branch>>, <<signIn, companyContact>> }

Documents ==
    [kind : {"index"}, locs : Indexes] \cup [kind : {"urlset"}, locs : PageLists]
        \cup [kind : {"absent"}, locs : { <<>> }]

Layouts == [robots : { <<>>, <<m1>>, <<m1, m2>> }, files : [{m1, m2, m3} -> Documents]]

\* The branch page is crawled already, with the column's default priority.
TargetsBefore == [t \in {company, branch, product, signIn} |-> IF t = branch THEN 100 ELSE 0]
=============================================================================
