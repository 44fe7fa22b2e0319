------------------------------- MODULE VaultEvents -------------------------------
(***************************************************************************)
(* The two readers of the vault's events: the agent's listener and the event*)
(* stream of the client library.  Two state machines without common state. *)
(***************************************************************************)
EXTENDS Integers, FiniteSets, FiniteSetsExt, Sequences

(***************************************************************************)
(* The agent's listener of vault events (eventListener.ts).  A timer starts *)
(* a poll every five seconds without waiting for the last one; all polls    *)
(* share the variable startLedger.  Each ledger carries one vault event.    *)
(***************************************************************************)

CONSTANTS
  Polls,        \* callbacks of the interval that may be under way at once
  PageLimit,    \* EVENT_PAGE_LIMIT
  LastLedger,   \* bound of the runs
  MaxListenerFaults     \* failed requests, failed inserts and restarts

ASSUME ListenerAssumption ==
  PageLimit \in Nat \ {0} /\ LastLedger \in Nat \ {0} /\ MaxListenerFaults \in Nat

VARIABLES
  head,          \* the latest ledger of the network
  begun,         \* the ledger at which the listener of this process started
  startLedger,
  listenerPoll,          \* the page each poll is working on
  logged,        \* vault_events: the ledgers whose event is in the database
  dropped,          \* events whose insert failed
  listenerFaults

listenerVars ==
  <<head, begun, startLedger, listenerPoll, logged, dropped, listenerFaults>>

Ledgers == 1 .. LastLedger

NoPoll == [next |-> 0, upto |-> 0, last |-> 0, full |-> FALSE]

(***************************************************************************)
(* "next" is the event the poll handles next, "last" the end of its page,   *)
(* "upto" the latestLedger its last request returned, which never falls.    *)
(* A start of 0: the process is down.                                        *)
(***************************************************************************)
ListenerTypeOK ==
  /\ head \in Ledgers
  /\ begun \in 0 .. LastLedger
  /\ startLedger \in 0 .. LastLedger + 1
  /\ listenerPoll \in [Polls -> [next : 0 .. LastLedger + 1, upto : 0 .. LastLedger,
                         last : 0 .. LastLedger, full : BOOLEAN]]
  /\ logged \subseteq Ledgers
  /\ dropped \subseteq Ledgers
  /\ listenerFaults \in 0 .. MaxListenerFaults

ListenerInit ==
  /\ head = 1 /\ begun = 0 /\ startLedger = 0
  /\ listenerPoll = [p \in Polls |-> NoPoll]
  /\ logged = {} /\ dropped = {}
  /\ listenerFaults = 0

Running == begun # 0

\* From the latest ledger; checkpointLedger is not read.
StartEventListener ==
  /\ ~Running
  /\ begun' = head /\ startLedger' = head
  /\ UNCHANGED <<head, listenerPoll, logged, dropped, listenerFaults>>

\* getEvents: at most PageLimit events, in the order of the ledgers.
Page(next) == [next |-> next, upto |-> head, last |-> Min({head, next + PageLimit - 1}),
               full |-> next + PageLimit - 1 <= head]

FirstPage(p) ==
  /\ Running /\ listenerPoll[p] = NoPoll
  /\ startLedger <= head
  /\ listenerPoll' = [listenerPoll EXCEPT ![p] = Page(startLedger)]
  /\ UNCHANGED <<head, begun, startLedger, logged, dropped, listenerFaults>>

Handling(p) == listenerPoll[p] # NoPoll /\ listenerPoll[p].next <= listenerPoll[p].last

\* logEventToDb: ON CONFLICT DO NOTHING.
HandleEvent(p) ==
  /\ Handling(p)
  /\ logged' = logged \cup {listenerPoll[p].next}
  /\ listenerPoll' = [listenerPoll EXCEPT ![p].next = @ + 1]
  /\ UNCHANGED <<head, begun, startLedger, dropped, listenerFaults>>

\* logEventToDb catches the error, and the poll goes on.
InsertFails(p) ==
  /\ Handling(p) /\ listenerPoll[p].next \notin logged
  /\ listenerFaults < MaxListenerFaults
  /\ listenerFaults' = listenerFaults + 1
  /\ dropped' = dropped \cup {listenerPoll[p].next}
  /\ listenerPoll' = [listenerPoll EXCEPT ![p].next = @ + 1]
  /\ UNCHANGED <<head, begun, startLedger, logged>>

PageDone(p) == listenerPoll[p] # NoPoll /\ listenerPoll[p].next > listenerPoll[p].last

NextPage(p) ==
  /\ PageDone(p) /\ listenerPoll[p].full
  /\ listenerPoll' = [listenerPoll EXCEPT ![p] = Page(listenerPoll[p].next)]
  /\ UNCHANGED <<head, begun, startLedger, logged, dropped, listenerFaults>>

\* Mutant of End: to the head of the chain.
EndAtHead(p) == Max({startLedger, head + 1})
\* startLedger moves behind what has been asked for, never back.
End(p) == Max({startLedger, listenerPoll[p].upto + 1})

EndPoll(p) ==
  /\ PageDone(p) /\ ~listenerPoll[p].full
  /\ startLedger' = End(p)
  /\ listenerPoll' = [listenerPoll EXCEPT ![p] = NoPoll]
  /\ UNCHANGED <<head, begun, logged, dropped, listenerFaults>>

\* A request, evaluateYield or processEventForAlerts throws: the interval's
\* catch ends the poll.
Abandon(p) == startLedger
ListenerPollFails(p) ==
  /\ listenerPoll[p] # NoPoll
  /\ listenerFaults < MaxListenerFaults
  /\ listenerFaults' = listenerFaults + 1
  /\ listenerPoll' = [listenerPoll EXCEPT ![p] = NoPoll]
  /\ startLedger' = Abandon(p)
  /\ UNCHANGED <<head, begun, logged, dropped>>

LedgerCloses ==
  /\ head < LastLedger
  /\ head' = head + 1
  /\ UNCHANGED <<begun, startLedger, listenerPoll, logged, dropped, listenerFaults>>

\* stopEventListener or a crash: the memory of the process is gone.
ListenerStops ==
  /\ Running
  /\ listenerFaults < MaxListenerFaults
  /\ listenerFaults' = listenerFaults + 1
  /\ begun' = 0 /\ startLedger' = 0
  /\ listenerPoll' = [p \in Polls |-> NoPoll]
  /\ UNCHANGED <<head, logged, dropped>>

PollStep(p) == FirstPage(p) \/ HandleEvent(p) \/ NextPage(p) \/ EndPoll(p)

ListenerNext ==
  \/ StartEventListener \/ LedgerCloses \/ ListenerStops
  \/ \E p \in Polls : PollStep(p) \/ InsertFails(p) \/ ListenerPollFails(p)

ListenerFairness ==
  /\ \A p \in Polls : WF_listenerVars(PollStep(p))
  /\ WF_listenerVars(StartEventListener)

ListenerSpec == ListenerInit /\ [][ListenerNext]_listenerVars /\ ListenerFairness

(***************************************************************************)
(* Overlapping polls move startLedger past an event only when the event is  *)
(* in the database or its insert has failed: a poll that ends late, fails   *)
(* half-way or reads an older head never makes another skip a ledger.  An   *)
(* event whose insert failed is passed all the same, and not read again.    *)
(***************************************************************************)
NothingSkipped ==
  Running => \A l \in begun .. startLedger - 1 : l \in logged \cup dropped

(***************************************************************************)
(* Time and again the listener has caught up: every event of a ledger that  *)
(* closed while it ran is worked off, or the process has stopped.           *)
(***************************************************************************)
EventsWorkedOff ==
  []<>(Running => begun .. head \subseteq logged \cup dropped)

-----------------------------------------------------------------------------
(***************************************************************************)
(* The event stream of the client library (vault-client event-listener.ts): *)
(* handlers registered by topic, with filters on users, and the loop that   *)
(* reads pages of the contract's events from a cursor and hands them out.   *)
(* A loop that stop has not reached yet goes on if start is called again.   *)
(***************************************************************************)

CONSTANTS
  EventTopics,    \* keys of EVENT_TOPICS
  Listeners,      \* users that filters may name
  Loops,          \* loops of start that may be alive at once
  batchSize,
  TipLedger,      \* bound of the runs: ledgers
  MaxEvents,      \* bound of the runs: events
  MaxHandlers     \* bound of the runs: handlers

ASSUME StreamAssumption ==
  batchSize \in Nat \ {0} /\ TipLedger \in Nat \ {0} /\ MaxEvents \in Nat /\ MaxHandlers \in Nat

VARIABLES
  emitted,        \* the events of the contract, in order
  tip,          \* the latest ledger
  handlers,     \* registered handlers, in the order of their registration
  userFilters,  \* users named by the filters of each topic
  running,
  loop,         \* where each loop stands
  since,        \* the ledger it started from
  cursorLedger, \* the ledger it reads from next
  calls,        \* handler calls made: <<handler, index of the event>>
  cutOff        \* events of a ledger that the loop left when a full page ended in it

streamVars == <<emitted, tip, handlers, userFilters, running, loop, since, cursorLedger,
                calls, cutOff>>
outside == <<emitted, tip, handlers, userFilters>>
delivery == <<since, cursorLedger, calls, cutOff>>

Anyone == "anyone"

StreamTypeOK ==
  /\ emitted \in Seq([topic : EventTopics, user : Listeners, ledger : 1 .. TipLedger])
  /\ tip \in 1 .. TipLedger
  /\ handlers \in Seq([topic : EventTopics, filter : Listeners \cup {Anyone}])
  /\ userFilters \in [EventTopics -> SUBSET Listeners]
  /\ running \in BOOLEAN
  /\ loop \in [Loops -> {"none", "asking", "sleeping"}]
  /\ since \in [Loops -> 0 .. TipLedger]
  /\ cursorLedger \in [Loops -> 0 .. TipLedger + 1]
  /\ calls \subseteq (1 .. MaxHandlers) \X (1 .. MaxEvents)
  /\ cutOff \in [Loops -> SUBSET (1 .. MaxEvents)]

StreamInit ==
  /\ emitted = <<>> /\ tip = 1
  /\ handlers = <<>> /\ userFilters = [t \in EventTopics |-> {}]
  /\ running = FALSE /\ loop = [l \in Loops |-> "none"]
  /\ since = [l \in Loops |-> 0] /\ cursorLedger = [l \in Loops |-> 0]
  /\ calls = {} /\ cutOff = [l \in Loops |-> {}]

-----------------------------------------------------------------------------
(* The ledger that is about to close collects the events. *)

EmitEvent ==
  /\ Len(emitted) < MaxEvents /\ tip < TipLedger
  /\ \E t \in EventTopics, u \in Listeners :
       emitted' = Append(emitted, [topic |-> t, user |-> u, ledger |-> tip + 1])
  /\ UNCHANGED <<tip, handlers, userFilters, running, loop>> /\ UNCHANGED delivery

CloseLedger ==
  /\ tip < TipLedger /\ tip' = tip + 1
  /\ UNCHANGED <<emitted, handlers, userFilters, running, loop>> /\ UNCHANGED delivery

-----------------------------------------------------------------------------
(* Registration, before the listener is started: on, and the typed          *)
(* onDeposit, onWithdraw, ... that call it.                                  *)

On(topic, filter) ==
  /\ Len(handlers) < MaxHandlers /\ ~running /\ calls = {}
  /\ \A l \in Loops : since[l] = 0
  /\ handlers' = Append(handlers, [topic |-> topic, filter |-> filter])
  /\ userFilters' = [userFilters EXCEPT ![topic] =
       IF filter = Anyone THEN @ ELSE @ \cup {filter}]
  /\ UNCHANGED <<emitted, tip, running, loop>> /\ UNCHANGED delivery

-----------------------------------------------------------------------------
(* The lifecycle. *)

\* start without a ledger: from the latest one.
Start(l) ==
  /\ ~running /\ loop[l] = "none"
  /\ running' = TRUE
  /\ loop' = [loop EXCEPT ![l] = "asking"]
  /\ since' = [since EXCEPT ![l] = tip]
  /\ cursorLedger' = [cursorLedger EXCEPT ![l] = tip]
  /\ cutOff' = [cutOff EXCEPT ![l] = {}]
  /\ UNCHANGED outside /\ UNCHANGED calls

\* getLatestLedger fails: start throws, and the listener counts as running.
StartFails ==
  /\ ~running /\ running' = TRUE
  /\ UNCHANGED outside /\ UNCHANGED loop /\ UNCHANGED delivery

Stop ==
  /\ running /\ running' = FALSE
  /\ UNCHANGED outside /\ UNCHANGED loop /\ UNCHANGED delivery

\* The head of the loop.
GoesOn(l) == loop' = [loop EXCEPT ![l] = IF running THEN "asking" ELSE "none"]
Sleeps(l) == loop' = [loop EXCEPT ![l] = "sleeping"]

\* extractUserTopic
UserTopic(e) == e.user
\* A filter of a topic holds for all its handlers.
Passes(e) == userFilters[e.topic] = {} \/ UserTopic(e) \in userFilters[e.topic]

\* dispatchEvent.  A handler that throws does not keep the others from running.
Recipients(e) == IF Passes(e) THEN {h \in DOMAIN handlers : handlers[h].topic = e.topic} ELSE {}

\* Events of closed ledgers from the cursor on; they are consecutive.
Available(l) == {i \in DOMAIN emitted : emitted[i].ledger >= cursorLedger[l] /\ emitted[i].ledger <= tip}

\* The oldest of them, one page.
StreamPage(l) == {i \in Available(l) : Cardinality({j \in Available(l) : j < i}) < batchSize}
LastOf(S) == CHOOSE i \in S : \A j \in S : j <= i

NextCursor(e) == e.ledger + 1

\* Events the cursor passes with the page: they come after it, in the ledger it ends in.
CutOff(l, last) == {i \in Available(l) : i > last /\ emitted[i].ledger = emitted[last].ledger}

\* getEvents answers with events; all are handed out without a pause.
PageArrives(l) ==
  /\ loop[l] = "asking" /\ StreamPage(l) # {}
  /\ LET last == LastOf(StreamPage(l)) IN
     /\ calls' = calls \cup {k \in (DOMAIN handlers) \X StreamPage(l) : k[1] \in Recipients(emitted[k[2]])}
     /\ cursorLedger' = [cursorLedger EXCEPT ![l] = NextCursor(emitted[last])]
     /\ cutOff' = [cutOff EXCEPT ![l] = @ \cup CutOff(l, last)]
  /\ IF Cardinality(StreamPage(l)) < batchSize THEN Sleeps(l) ELSE GoesOn(l)
  /\ UNCHANGED outside /\ UNCHANGED <<running, since>>

\* No events, or an error; the latter ends a loop that was stopped.
NothingArrives(l) ==
  /\ loop[l] = "asking"
  /\ StreamPage(l) = {} \/ running
  /\ Sleeps(l)
  /\ UNCHANGED outside /\ UNCHANGED running /\ UNCHANGED delivery

EndsOnError(l) ==
  /\ loop[l] = "asking" /\ ~running
  /\ loop' = [loop EXCEPT ![l] = "none"]
  /\ UNCHANGED outside /\ UNCHANGED running /\ UNCHANGED delivery

Wake(l) ==
  /\ loop[l] = "sleeping" /\ GoesOn(l)
  /\ UNCHANGED outside /\ UNCHANGED running /\ UNCHANGED delivery

StreamNext ==
  \/ EmitEvent \/ CloseLedger \/ StartFails \/ Stop
  \/ \E l \in Loops :
       Start(l) \/ PageArrives(l) \/ NothingArrives(l) \/ EndsOnError(l) \/ Wake(l)
  \/ \E t \in EventTopics, f \in Listeners \cup {Anyone} : On(t, f)

StreamSpec == StreamInit /\ [][StreamNext]_streamVars

-----------------------------------------------------------------------------
(* Properties. *)

(***************************************************************************)
(* What the cursor of a loop has passed since it was started was handed to  *)
(* every handler it is for, by this loop or another.  The loop does pass    *)
(* events unseen in one case: a full page ends in the middle of a ledger    *)
(* and the cursor moves behind that ledger.  No other event is lost, at the *)
(* edge of a page, after a restart or under a second loop.                  *)
(***************************************************************************)
NothingPassedUnseen ==
  \A l \in Loops : \A i \in DOMAIN emitted : \A h \in Recipients(emitted[i]) :
    /\ emitted[i].ledger >= since[l] /\ emitted[i].ledger < cursorLedger[l]
    /\ i \notin cutOff[l]
    => <<h, i>> \in calls

-----------------------------------------------------------------------------
(* Both readers, side by side. *)

EventsNext ==
  \/ ListenerNext /\ UNCHANGED streamVars
  \/ StreamNext /\ UNCHANGED listenerVars

EventsSpec ==
  ListenerInit /\ StreamInit /\ [][EventsNext]_<<listenerVars, streamVars>>

(***************************************************************************)
(* Neither reader passes an event but in the one way of its own: the agent's*)
(* listener when the insert fails, the client's stream when a full page     *)
(* ends in the middle of a ledger.  Overlapping polls, polls that fail, a   *)
(* second loop and a restart of the stream lose none; what closes while the *)
(* agent is down it does not look for.                                      *)
(***************************************************************************)
NoEventIsPassed ==
  ListenerTypeOK /\ NothingSkipped /\ StreamTypeOK /\ NothingPassedUnseen

================================================================================
