------------------------------ MODULE LiveViews ------------------------------
(* What the pages show of the backend's records, and how each of them keeps   *)
(* what it shows in step with what it asks.  Most views ask again on a timer; *)
(* an answer may take longer than the timer, and answers overtake each other. *)
(* A view works with one effect at a time: a new one replaces it when its     *)
(* subject changes, and what was asked before is still under way.             *)
EXTENDS Naturals, FiniteSets

CONSTANTS
    Subjects,       \* what a view may be about: a wallet, a filter, a cursor
    Asks,           \* identities of requests, so a bound on those in flight
    MaxAsked,       \* bound on requests
    MaxFacts        \* bound on changes of what the backend would answer

VARIABLES
    viewed,         \* the view in question
    subject,        \* what it is about now
    facts,          \* changes of the backend's records so far
    asks,           \* requests in flight
    asked,          \* requests made so far
    showing,        \* the answer on display
    loading, failed \* what the page says of its reads

vars == <<viewed, subject, facts, asks, asked, showing, loading, failed>>

\* What WebClientProofs needs of the constants: the first request has a place.
ViewsAssumption == 1 \in Asks
------------------------------------------------------------------------------
(* The effects: single ones ask only when their last request is answered,     *)
(* scoped ones ignore answers to requests of an earlier effect, timed ones    *)
(* ask again by themselves, and turns are the subjects another effect may     *)
(* have while the view stands, the same one for a refresh.  Their pages say   *)
(* "Reading" at every load, at every effect, until the first answer or not at *)
(* all; told ones show an error, and patient ones refresh only what is read.  *)

Style(single, scoped, timed, turns) ==
    [single |-> single, scoped |-> scoped, timed |-> timed, turns |-> turns,
     reading |-> "first", told |-> TRUE, patient |-> FALSE]

Reading(style, when) == [style EXCEPT !.reading = when]
Patient(style) == [style EXCEPT !.patient = TRUE]
Silent(style) == [style EXCEPT !.told = FALSE, !.reading = "never"]

Home == 1
Revenue == Style(TRUE, TRUE, TRUE, Subjects)
PerformanceTable == Reading(Style(TRUE, TRUE, TRUE, Subjects), "load")
SystemPulse == Patient(Reading(Style(TRUE, TRUE, TRUE, Subjects), "load"))
StockDropList == Reading(Style(TRUE, TRUE, TRUE, Subjects), "never")
CreatorProfile == Style(TRUE, TRUE, TRUE, {})
FundingTarget == Reading(Silent(Style(FALSE, TRUE, TRUE, Subjects)), "effect")
LaunchPerformance == Silent(Style(FALSE, TRUE, TRUE, Subjects))
ActivityRail == Reading(Style(FALSE, TRUE, TRUE, Subjects), "never")
RwaReserve == Silent(Style(FALSE, TRUE, TRUE, {}))
Proofs == Patient(Reading(Style(FALSE, TRUE, FALSE, Subjects), "effect"))
Proof == Style(FALSE, TRUE, FALSE, {})
Monitor == Patient(Style(FALSE, FALSE, TRUE, {Home}))
MuppetPerformance == Style(FALSE, FALSE, TRUE, {})

Views == {Revenue, PerformanceTable, SystemPulse, StockDropList, CreatorProfile,
          FundingTarget, LaunchPerformance, ActivityRail, RwaReserve, Proofs, Proof,
          Monitor, MuppetPerformance}
------------------------------------------------------------------------------
NoAsk == [pc |-> "none", current |-> FALSE]
Request(s, nth) == [pc |-> "asked", current |-> TRUE, subject |-> s, nth |-> nth, facts |-> 0]
Nothing == [subject |-> 0, nth |-> 0, facts |-> 0]

request(others, s) ==
    LET free == {a \in Asks : others[a].pc = "none"} IN
    /\ asked < MaxAsked /\ asked' = asked + 1
    /\ \E a \in free :
         /\ \A b \in free : a <= b
         /\ asks' = [others EXCEPT ![a] = Request(s, asked + 1)]

\* Mutant: the effect does not wait for its own request.
NotWaiting(v) == TRUE

\* The flag of a single effect, down once its request has ended either way.
Waiting(v) == v.single => \A a \in Asks : ~asks[a].current

\* The timer of the effect that stands, or a retry.
Ask ==
    /\ viewed.timed /\ Waiting(viewed)
    /\ request(asks, subject)
    /\ loading' = (loading \/ viewed.reading = "load")
    /\ UNCHANGED <<viewed, subject, facts, showing, failed>>

\* Another subject, or a refresh of the same: a new effect asks at once.
Turn(s) ==
    /\ s \in viewed.turns
    /\ viewed.patient /\ s = subject => ~loading
    /\ subject' = s
    /\ request([a \in Asks |-> [asks[a] EXCEPT !.current = FALSE]], s)
    /\ loading' = (loading \/ viewed.reading \in {"load", "effect"})
    /\ UNCHANGED <<viewed, facts, showing, failed>>

Record ==
    /\ facts < MaxFacts /\ facts' = facts + 1
    /\ UNCHANGED <<viewed, subject, asks, asked, showing, loading, failed>>

Served(a) ==
    /\ asks[a].pc = "asked"
    /\ asks' = [asks EXCEPT ![a].pc = "served", ![a].facts = facts]
    /\ UNCHANGED <<viewed, subject, facts, asked, showing, loading, failed>>

Heard(a) == viewed.scoped => asks[a].current

\* Either end of a request that is heard ends the reading.
Ends(a, error) ==
    /\ loading' = (loading /\ ~Heard(a))
    /\ failed' = IF Heard(a) THEN error /\ viewed.told ELSE failed
    /\ asks' = [asks EXCEPT ![a] = NoAsk]

Answer(a) ==
    /\ asks[a].pc = "served"
    /\ showing' = IF Heard(a)
                  THEN [subject |-> asks[a].subject, nth |-> asks[a].nth, facts |-> asks[a].facts]
                  ELSE showing
    /\ Ends(a, FALSE)
    /\ UNCHANGED <<viewed, subject, facts, asked>>

\* What was shown stays, under an error.
Fails(a) ==
    /\ asks[a].pc # "none"
    /\ Ends(a, TRUE)
    /\ UNCHANGED <<viewed, subject, facts, asked, showing>>

\* What a page without records says, and what it offers to claim from.
Screen ==
    IF showing # Nothing THEN "records" ELSE IF loading THEN "reading" ELSE "unavailable"

Ready == showing # Nothing /\ showing.subject = subject /\ ~failed

\* A mounted view has asked.
Init ==
    /\ viewed \in Views
    /\ subject = Home
    /\ facts = 0
    /\ asks = [a \in Asks |-> IF a = 1 THEN Request(Home, 1) ELSE NoAsk]
    /\ asked = 1
    /\ showing = Nothing
    /\ loading = (viewed.reading # "never")
    /\ failed = FALSE

Next ==
    \/ Ask
    \/ \E s \in Subjects : Turn(s)
    \/ Record
    \/ \E a \in Asks : Served(a) \/ Answer(a) \/ Fails(a)

Spec == Init /\ [][Next]_vars
------------------------------------------------------------------------------
\* A page that says it reads has its request under way; one that no longer
\* does, and that tells of errors, shows records or an error; and what stands
\* there without either is about what the holder asked for last.
ScreensAreHonest ==
    /\ loading => \E a \in Asks : asks[a].pc # "none" /\ Heard(a)
    /\ Screen = "unavailable" /\ viewed.told /\ viewed.reading # "never" => failed
    /\ viewed.told /\ viewed.reading \in {"load", "effect"} /\ ~loading /\ ~failed
         => Ready

\* A view never shows an answer about what it was before, and a view that waits
\* for its own requests never goes back to an answer older than the one it
\* shows, however answers overtake each other and subjects come and go; and
\* all the while what the page says of its reads is so.
AnswersComeInOrder ==
    /\ [][showing' # showing =>
            /\ showing'.subject = subject
            /\ viewed.single =>
                 /\ showing'.nth > showing.nth
                 /\ showing'.facts >= showing.facts]_vars
    /\ []ScreensAreHonest
=============================================================================
