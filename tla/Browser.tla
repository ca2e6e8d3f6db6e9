------------------------------ MODULE Browser ------------------------------
(***************************************************************************)
(* What the three pages of app.js share: the tab that is open, the owner's *)
(* gestures, and requests under way.  JavaScript runs one event handler at *)
(* a time, so a page changes atomically between two awaits; the requests   *)
(* of one page are answered, lost and delivered in any order, for no page  *)
(* numbers or aborts its requests.                                         *)
(***************************************************************************)
EXTENDS Naturals, Sequences, SequencesExt

CONSTANTS
    NoAnswer,     \* a request the API has not answered yet
    MaxGestures,  \* page -> bound on what the owner has done when he uses it
    MaxMishaps,   \* bound on failing requests and on what others do to the
                  \* database meanwhile, together
    MaxWaiting    \* bound on requests of one kind under way

Pages == {"lookup", "calllog", "ops"}

ASSUME BrowserConstantsOK ==
    /\ MaxGestures \in [Pages -> Nat] /\ MaxMishaps \in Nat
    /\ MaxWaiting \in Nat \ {0}

VARIABLES
    tab,       \* the panel that is visible
    gestures, mishaps

browserVars == <<tab, gestures, mishaps>>

BrowserTypeOK ==
    /\ tab \in Pages
    /\ gestures \in Nat /\ mishaps \in 0..MaxMishaps

BrowserInit == tab = "lookup" /\ gestures = 0 /\ mishaps = 0

\* The owner does something on the tab that is open.
Gesture(page) ==
    /\ tab = page /\ gestures < MaxGestures[page]
    /\ gestures' = gestures + 1
    /\ UNCHANGED <<tab, mishaps>>

Mishap ==
    /\ mishaps < MaxMishaps
    /\ mishaps' = mishaps + 1
    /\ UNCHANGED <<tab, gestures>>

\* Something changes in the database that this browser did not ask for.
\* Bound: while a page that shows it is open.
Event(pages) == tab \in pages /\ Mishap

\* A fetch rejects, or its response is not ok.
Loss == Mishap

-----------------------------------------------------------------------------
(* The requests of one kind under way, in the order sent.  A request is    *)
(* late when one sent after it has been delivered already.                 *)

Requests(Asks, Answers) ==
    Seq([ask : Asks, answer : Answers \cup {NoAnswer}, late : BOOLEAN])

\* Is there room for another?
Room(q) == Len(q) < MaxWaiting

Sent(q, ask) == Append(q, [ask |-> ask, answer |-> NoAnswer, late |-> FALSE])

Answered(q, i, answer) == [q EXCEPT ![i].answer = answer]

Taken(q, i) ==
    RemoveAt([k \in DOMAIN q |-> [q[k] EXCEPT !.late = @ \/ k < i]], i)

\* Nothing sent after it is under way or delivered.
IsLast(q, i) == i = Len(q) /\ ~q[i].late
=============================================================================
