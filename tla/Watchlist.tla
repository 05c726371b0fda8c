------------------------------ MODULE Watchlist ------------------------------
(* The Muppets a browser follows and the alerts of the Monitor page.  The     *)
(* list and the time through which alerts are read lie in local storage; each *)
(* tab shows the copy it last read, and hears of the other tabs' writes later *)
(* through storage events.  Follow buttons toggle what their tab shows.       *)
EXTENDS Naturals, FiniteSets

CONSTANTS
    Muppets,        \* Agents that can be followed
    Tracked,        \* those of them whose market the backend reads
    Windows,        \* tabs of the browser
    Monitors,       \* those of them that show the Monitor page
    MaxFollows,     \* 200, the length at which the list is cut
    MaxAlerts,      \* bound on summaries and items that make alerts
    MaxTime         \* bound on the browser's clock

VARIABLES
    now,
    stored,         \* the list in local storage
    copies,         \* window |-> the list it shows
    unheard,        \* windows with a storage event under way
    summaries,      \* Muppet |-> what the backend recorded of its market
    pulse,          \* decisions and receipts the backend has on record
    loaded,         \* Monitor page |-> what it has read of both
    follows,        \* Muppets the holder last chose to follow
    marked          \* when the holder last pressed "Mark all read"

records == <<summaries, pulse>>
vars == <<now, stored, copies, unheard, records, loaded, follows, marked>>

\* What WebClientProofs needs of the constants.
WatchlistAssumption == Monitors \subseteq Windows
------------------------------------------------------------------------------
Reserve == 0
EmptyState == [agentIds |-> {}, alertsReadThrough |-> 0]
NoSummary == [observed |-> 0, troubles |-> {}, failed |-> 0]
NothingLoaded == [summaries |-> [m \in Muppets |-> NoSummary], pulse |-> {}]

\* A full list takes no more.
withAgentFollow(state, m, following) ==
    [state EXCEPT !.agentIds = IF ~following THEN @ \ {m}
                               ELSE IF Cardinality(@ \cup {m}) <= MaxFollows THEN @ \cup {m}
                               ELSE @]

withAlertsReadThrough(state, time) == [state EXCEPT !.alertsReadThrough = time]

\* The tab that writes shows what it wrote, the others are told.
commit(w, state) ==
    /\ stored' = state
    /\ copies' = [copies EXCEPT ![w] = state]
    /\ unheard' = IF state = stored THEN unheard ELSE (unheard \cup Windows) \ {w}

\* Mutant: a tab changes the copy it shows.
ShownState(w) == copies[w]

\* A change starts from what is stored, whatever the tab shows.
CurrentState(w) == stored

\* FollowButton: the opposite of what the tab shows.
toggle(w, m) ==
    LET following == m \notin copies[w].agentIds
        next == withAgentFollow(CurrentState(w), m, following)
    IN
    /\ commit(w, next)
    /\ follows' = IF ~following THEN follows \ {m}
                  ELSE IF Cardinality(follows \cup {m}) <= MaxFollows THEN follows \cup {m}
                  ELSE follows
    /\ UNCHANGED <<now, records, loaded, marked>>

onStorage(w) ==
    /\ w \in unheard
    /\ unheard' = unheard \ {w}
    /\ copies' = [copies EXCEPT ![w] = stored]
    /\ UNCHANGED <<now, stored, records, loaded, follows, marked>>

\* A reloaded tab reads the storage and has no records yet.
Open(w) ==
    /\ copies[w] # stored \/ (w \in Monitors /\ loaded[w] # NothingLoaded)
    /\ copies' = [copies EXCEPT ![w] = stored]
    /\ unheard' = unheard \ {w}
    /\ loaded' = [v \in Monitors |-> IF v = w THEN NothingLoaded ELSE loaded[v]]
    /\ UNCHANGED <<now, stored, records, follows, marked>>
------------------------------------------------------------------------------
(* Alerts: of the market, from the summaries of the followed Muppets, and of  *)
(* the chain and the keeper, from the pulse, with the time of their evidence. *)

\* What is found wrong with a market; it may also be beyond reading.
Findings == {{}, {"health"}, {"range", "oracle"}}
Unreadable == {"unavailable"}

marketAlerts(m, summary) ==
    {[source |-> "market", kind |-> kind, agent |-> m, time |-> summary.observed] :
        kind \in summary.troubles}
    \cup IF summary.failed = 0 THEN {}
         ELSE {[source |-> "market", kind |-> "refresh", agent |-> m, time |-> summary.failed]}

AlertsBounded(recorded, items) ==
    Cardinality({m \in Muppets : marketAlerts(m, recorded[m]) # {}})
    + Cardinality(items) <= MaxAlerts

\* A market that cannot be read leaves the last one that could on record.
Observed(m) ==
    /\ \E found \in Findings \cup {Unreadable} :
         summaries' = [summaries EXCEPT ![m] =
             IF found = Unreadable /\ @ # NoSummary /\ @.troubles # Unreadable
             THEN [@ EXCEPT !.failed = now]
             ELSE [observed |-> now, troubles |-> found, failed |-> 0]]
    /\ AlertsBounded(summaries', pulse)
    /\ UNCHANGED <<now, stored, copies, unheard, pulse, loaded, follows, marked>>

\* The pulse keeps what was reported, of a Muppet or of the reserve.
Reported(m) ==
    /\ pulse' = pulse \cup {[source |-> "pulse", kind |-> "item", agent |-> m, time |-> now]}
    /\ AlertsBounded(summaries, pulse')
    /\ UNCHANGED <<now, stored, copies, unheard, summaries, loaded, follows, marked>>

Tick ==
    /\ now < MaxTime /\ now' = now + 1
    /\ UNCHANGED <<stored, copies, unheard, records, loaded, follows, marked>>

\* Of the reads of a load, those that fail leave what was read before.
load(w) ==
    \E failures \in SUBSET {"watchlist records", "alert receipts"} :
        /\ loaded' = [loaded EXCEPT
             ![w].summaries = IF "watchlist records" \in failures THEN @ ELSE summaries,
             ![w].pulse = IF "alert receipts" \in failures THEN @ ELSE pulse]
        /\ loaded' # loaded
        /\ UNCHANGED <<now, stored, copies, unheard, records, follows, marked>>

followed(w) == {m \in copies[w].agentIds : loaded[w].summaries[m] # NoSummary}
missingRecords(w) == {m \in copies[w].agentIds : loaded[w].summaries[m] = NoSummary}

buildMonitorAlerts(w) ==
    (UNION {marketAlerts(m, loaded[w].summaries[m]) : m \in followed(w)})
    \cup {item \in loaded[w].pulse : item.agent \in copies[w].agentIds \cup {Reserve}}

summaryNeedsAttention(summary) == summary.troubles # {} \/ summary.failed # 0

Attention(w) == {m \in followed(w) : summaryNeedsAttention(loaded[w].summaries[m])}

alertIsUnread(a, readThrough) == readThrough = 0 \/ a.time > readThrough

Unread(w) == {a \in buildMonitorAlerts(w) : alertIsUnread(a, copies[w].alertsReadThrough)}

markAlertsRead(w) ==
    /\ w \in Monitors /\ Unread(w) # {}
    /\ commit(w, withAlertsReadThrough(CurrentState(w), now))
    /\ marked' = now
    /\ UNCHANGED <<now, records, loaded, follows>>
------------------------------------------------------------------------------
Init ==
    /\ now = 1
    /\ stored = EmptyState
    /\ copies = [w \in Windows |-> EmptyState]
    /\ unheard = {}
    /\ summaries = [m \in Muppets |-> NoSummary]
    /\ pulse = {}
    /\ loaded = [w \in Monitors |-> NothingLoaded]
    /\ follows = {}
    /\ marked = 0

Next ==
    \/ Tick
    \/ \E m \in Tracked : Observed(m)
    \/ \E m \in Muppets \cup {Reserve} : Reported(m)
    \/ \E w \in Windows :
         \/ \E m \in Muppets : toggle(w, m)
         \/ onStorage(w)
         \/ Open(w)
         \/ markAlertsRead(w)
    \/ \E w \in Monitors : load(w)

Spec == Init /\ [][Next]_vars
------------------------------------------------------------------------------
(* What the panels of a Monitor page show and offer.                          *)

WatchlistPanel(w) == [rows |-> followed(w), missing |-> missingRecords(w)]

WatchlistRow(w, m) ==
    [marked |-> m \in Attention(w),
     cached |-> loaded[w].summaries[m].failed # 0,
     following |-> m \in copies[w].agentIds]

AlertsPanel(w) ==
    [alerts |-> buildMonitorAlerts(w), unread |-> Unread(w), canMark |-> Unread(w) # {}]

\* Every followed Muppet has a row or is waited for, a row is marked when an
\* alert tells why, one that shows old evidence has an alert of its failure, and
\* "Mark all read" is offered while an alert is later than the last time.
PanelsAgree(w) ==
    LET alerts == AlertsPanel(w).alerts
        rows == WatchlistPanel(w).rows
    IN
    /\ rows \cup WatchlistPanel(w).missing = copies[w].agentIds
    /\ \A m \in rows :
         /\ WatchlistRow(w, m).following
         /\ WatchlistRow(w, m).cached => \E a \in alerts : a.agent = m /\ a.kind = "refresh"
    /\ {m \in rows : WatchlistRow(w, m).marked} = {a.agent : a \in {b \in alerts : b.source = "market"}}
    /\ AlertsPanel(w).canMark <=> \E a \in alerts : copies[w].alertsReadThrough < a.time

\* What the browser keeps is what the holder last chose in any of its tabs,
\* Muppet by Muppet, also where a tab showed an older list when it was clicked;
\* following never takes the read alerts back, nor reading the followed; and
\* the Monitor page marks exactly the followed Muppets it has alerts about.
FollowsAreKept ==
    /\ stored.agentIds = follows
    /\ stored.alertsReadThrough = marked
    /\ \A w \in Windows : w \notin unheard => copies[w] = stored
    /\ \A w \in Monitors : PanelsAgree(w)
=============================================================================
