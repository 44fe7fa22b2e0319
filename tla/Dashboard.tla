------------------------------- MODULE Dashboard -------------------------------
(***************************************************************************)
(* What the pages keep up to date: the live portfolio, the pause banner,    *)
(* the rates and the wizard of a first visit.  Four state machines without  *)
(* common state.                                                            *)
(***************************************************************************)
EXTENDS Naturals, Sequences, FiniteSets

(***************************************************************************)
(* The hook behind a live portfolio (useRealtimePortfolio.ts): one socket,  *)
(* or polling where sockets cannot be made, for the account shown.  The     *)
(* account may change between two renders, and what an old socket or an old *)
(* poll still answers must not be shown for the new one.                    *)
(***************************************************************************)

CONSTANTS
  Portfolios,     \* contexts: a network, an account and a contract
  NoPortfolio,
  MaxSockets,     \* bound of the runs: sockets made
  MaxRefreshes    \* bound of the runs: changes of the context, and polls

ASSUME PortfolioAssumption ==
  NoPortfolio \notin Portfolios /\ MaxSockets \in Nat /\ MaxRefreshes \in Nat

VARIABLES
  rendered,   \* the context of the last render
  activeContext, \* that of the last effect
  generation, \* contextGeneration
  sockets,    \* the sockets made: generation, context and state
  wsRef,      \* index of the current one, or 0
  timer,      \* reconnectTimeoutRef: the account of the scheduled connectWebSocket
  strays,     \* per account: scheduled calls whose handle was overwritten
  strayed,    \* a stray call for another account has connected in this generation
  pollInterval,   \* pollRef: the generation and the account of the polls, or PollingOff
  pollsOpen,      \* polls without an answer
  shownOf,      \* whose balance the state holds
  connectionType      \* connectionType

realtimeVars == <<rendered, activeContext, generation, sockets, wsRef, timer, strays, strayed,
                  pollInterval, pollsOpen, shownOf, connectionType>>
connection == <<sockets, wsRef, timer, strays, strayed, pollInterval>>

PortfolioPolls == [generation : 1 .. 2 * MaxRefreshes + 2, context : Portfolios]
PollingOff == [generation |-> 0, context |-> NoPortfolio]

RealtimeTypeOK ==
  /\ rendered \in Portfolios /\ activeContext \in Portfolios
  /\ generation \in 1 .. 2 * MaxRefreshes + 2
  /\ sockets \in Seq([generation : 1 .. 2 * MaxRefreshes + 2, context : Portfolios,
                      state : {"connecting", "open", "closed"}])
  /\ wsRef \in 0 .. Len(sockets)
  /\ timer \in Portfolios \cup {NoPortfolio} /\ strays \in [Portfolios -> Nat]
  /\ strayed \in BOOLEAN /\ pollInterval \in PortfolioPolls \cup {PollingOff}
  /\ pollsOpen \subseteq PortfolioPolls
  /\ shownOf \in Portfolios \cup {NoPortfolio}
  /\ connectionType \in {"websocket", "polling", "disconnected"}

\* Mounted: the first effect has run and a socket is being made.
RealtimeInit ==
  /\ \E c \in Portfolios :
       /\ rendered = c /\ activeContext = c
       /\ sockets = <<[generation |-> 1, context |-> c, state |-> "connecting"]>>
  /\ generation = 1 /\ wsRef = 1 /\ pollInterval = PollingOff /\ pollsOpen = {}
  /\ timer = NoPortfolio /\ strays = [c \in Portfolios |-> 0] /\ strayed = FALSE
  /\ shownOf = NoPortfolio /\ connectionType = "disconnected"

-----------------------------------------------------------------------------
(* connectWebSocket and startPolling: closures of the context c of a render. *)

SocketMade(g, c) ==
  /\ Len(sockets) < MaxSockets
  /\ sockets' = Append(sockets, [generation |-> g, context |-> c, state |-> "connecting"])
  /\ wsRef' = Len(sockets) + 1

\* Polls are in flight without an order; a poll is made at once.
PollingStarts(g, c) ==
  LET p == [generation |-> g, context |-> c] IN
  pollInterval' = p /\ pollsOpen' = pollsOpen \cup {p} /\ connectionType' = "polling"

\* The context changes and the hook renders; what it returns is hidden.
ContextChanges(c) ==
  /\ rendered = activeContext /\ c # rendered /\ generation < 2 * MaxRefreshes
  /\ rendered' = c
  /\ UNCHANGED <<activeContext, generation, pollsOpen, shownOf, connectionType>> /\ UNCHANGED connection

Closed(ss, i) == IF i = 0 THEN ss ELSE [ss EXCEPT ![i].state = "closed"]

\* clearTimeout reaches the last handle only.
TimerCleared == timer' = NoPortfolio /\ strayed' = FALSE /\ UNCHANGED strays

\* The cleanup of the old effect (disconnect), then the new effect.
EffectRuns ==
  /\ rendered # activeContext
  /\ activeContext' = rendered /\ generation' = generation + 2
  /\ shownOf' = NoPortfolio /\ TimerCleared
  /\ \/ /\ Len(sockets) < MaxSockets
        /\ sockets' = Append(Closed(sockets, wsRef),
             [generation |-> generation + 2, context |-> rendered, state |-> "connecting"])
        /\ wsRef' = Len(sockets) + 1
        /\ pollInterval' = PollingOff /\ connectionType' = "disconnected" /\ UNCHANGED pollsOpen
     \/ /\ sockets' = Closed(sockets, wsRef) /\ wsRef' = 0
        /\ PollingStarts(generation + 2, rendered)
  /\ UNCHANGED rendered

\* disconnect, called by the user of the hook.
Disconnects ==
  /\ rendered = activeContext /\ generation < 2 * MaxRefreshes
  /\ wsRef # 0 \/ pollInterval # PollingOff
  /\ generation' = generation + 1
  /\ sockets' = Closed(sockets, wsRef) /\ wsRef' = 0
  /\ pollInterval' = PollingOff /\ TimerCleared
  /\ shownOf' = NoPortfolio /\ connectionType' = "disconnected"
  /\ UNCHANGED <<rendered, activeContext, pollsOpen>>

IsOpen == wsRef # 0 /\ sockets[wsRef].state = "open"

\* connectWebSocket of context c, by a timer or by reconnect: for the generation of now.
Connects(c) ==
  \/ IsOpen /\ UNCHANGED <<sockets, wsRef, pollInterval, pollsOpen, connectionType>>
  \/ /\ ~IsOpen
     /\ \/ SocketMade(generation, c) /\ UNCHANGED <<pollInterval, pollsOpen, connectionType>>
        \/ /\ IF pollInterval = PollingOff THEN PollingStarts(generation, c)
              ELSE UNCHANGED <<pollInterval, pollsOpen, connectionType>>
           /\ UNCHANGED <<sockets, wsRef>>

\* What context c now belongs to the account shown, or strays.
Strays(c) == strayed' = (strayed \/ (~IsOpen /\ c # activeContext))

TimerFires ==
  /\ timer # NoPortfolio /\ timer' = NoPortfolio /\ Connects(timer) /\ Strays(timer)
  /\ UNCHANGED <<rendered, activeContext, generation, strays, shownOf>>

StrayFires(c) ==
  /\ strays[c] > 0 /\ strays' = [strays EXCEPT ![c] = @ - 1] /\ Connects(c) /\ Strays(c)
  /\ UNCHANGED <<rendered, activeContext, generation, timer, shownOf>>

\* reconnect leaves a scheduled reconnect alone.
Reconnects ==
  /\ rendered = activeContext /\ Connects(rendered)
  /\ UNCHANGED <<rendered, activeContext, generation, timer, strays, strayed, shownOf>>

-----------------------------------------------------------------------------
(* What sockets and polls answer. *)

\* An answer is looked at while its socket is the one of the hook and of its generation.
Current(i) == sockets[i].generation = generation /\ wsRef = i

SocketOpens(i) ==
  /\ sockets[i].state = "connecting"
  /\ sockets' = [sockets EXCEPT ![i].state = "open"]
  /\ connectionType' = IF Current(i) THEN "websocket" ELSE connectionType
  /\ UNCHANGED <<rendered, activeContext, generation, wsRef, timer, strays, strayed, pollInterval,
                 pollsOpen, shownOf>>

\* Messages that were on their way when the socket was closed still arrive.
SocketTells(i) ==
  /\ sockets[i].state # "connecting" /\ Current(i)
  /\ shownOf' = sockets[i].context
  /\ UNCHANGED <<rendered, activeContext, generation, pollsOpen, connectionType>> /\ UNCHANGED connection

\* onclose, after an error too: the new handle takes the place of one still pending,
\* after a reconnect beside it.
SocketCloses(i) ==
  /\ sockets[i].state # "closed"
  /\ sockets' = [sockets EXCEPT ![i].state = "closed"]
  /\ IF Current(i)
     THEN /\ connectionType' = "disconnected" /\ timer' = sockets[i].context
          /\ strays' = [c \in Portfolios |-> strays[c] + IF c = timer THEN 1 ELSE 0]
     ELSE UNCHANGED <<connectionType, timer, strays>>
  /\ UNCHANGED <<rendered, activeContext, generation, wsRef, strayed, pollInterval, pollsOpen, shownOf>>

PollsAgain ==
  /\ pollInterval # PollingOff
  /\ pollsOpen' = pollsOpen \cup {pollInterval}
  /\ UNCHANGED <<rendered, activeContext, generation, shownOf, connectionType>> /\ UNCHANGED connection

\* Mutant of IsFresh: any answer is taken.
IsAnyAnswer(p) == TRUE
IsFresh(p) == p.generation = generation

PortfolioPolled(p) ==
  /\ pollsOpen' = pollsOpen \ {p}
  /\ shownOf' = IF IsFresh(p) THEN p.context ELSE shownOf
  /\ UNCHANGED <<rendered, activeContext, generation, connectionType>> /\ UNCHANGED connection

PortfolioPollFails(p) ==
  /\ pollsOpen' = pollsOpen \ {p}
  /\ UNCHANGED <<rendered, activeContext, generation, shownOf, connectionType>> /\ UNCHANGED connection

RealtimeNext ==
  \/ EffectRuns \/ Disconnects \/ TimerFires \/ Reconnects \/ PollsAgain
  \/ \E c \in Portfolios : ContextChanges(c) \/ StrayFires(c)
  \/ \E i \in 1 .. Len(sockets) : SocketOpens(i) \/ SocketTells(i) \/ SocketCloses(i)
  \/ \E p \in pollsOpen : PortfolioPolled(p) \/ PortfolioPollFails(p)

RealtimeSpec == RealtimeInit /\ [][RealtimeNext]_realtimeVars

-----------------------------------------------------------------------------
(* Properties. *)

(***************************************************************************)
(* What the hook returns belongs to the account it was asked for, whatever  *)
(* sockets and polls of earlier accounts still answer.  The exception is a  *)
(* call of connectWebSocket that was scheduled for an earlier account and   *)
(* whose handle was lost when reconnect was used beside it: disconnect does *)
(* not cancel it, and the socket it makes passes for one of this account.   *)
(***************************************************************************)
ShowsItsAccount ==
  rendered = activeContext /\ ~strayed => shownOf \in {rendered, NoPortfolio}

-----------------------------------------------------------------------------
(***************************************************************************)
(* The pause banner of the dashboard (frontend VaultPauseBanner.tsx) and    *)
(* the route it polls (app/api/vault/status/route.ts).  Between the route's *)
(* fetch and the page lie its own copy and the browser's.  A tick is the 30 *)
(* seconds of the poll, of the route's CACHE_TTL_MS and of max-age.  What   *)
(* fetch gives may come from its data cache, which answers with a copy of   *)
(* any age while it renews it: ages count from there.                       *)
(***************************************************************************)

CONSTANTS
  BrowserLag,  \* ticks for which the browser answers from its cache: max-age and
               \* stale-while-revalidate
  MaxDelay,    \* ticks an answer travels
  MaxMisses,   \* polls lost in a row
  MaxReloads   \* reloads of the page

ASSUME BannerLagAssumption ==
  {BrowserLag, MaxDelay, MaxMisses, MaxReloads} \subseteq Nat

VARIABLES
  routeCopy,  \* cachedStatus
  routeHeld,  \* ticks since cacheExpiry was set
  response,   \* the browser's copy of the last response
  respHeld,   \* ticks for which it has been there
  onTheWay,   \* answers that travel to the page
  pageStatus,     \* what the page has
  dismissed,  \* the page's flag
  dismissedInTab,    \* sessionStorage[SESSION_KEY]
  due,        \* is a poll due in this tick?
  misses,     \* polls lost since the last answer
  reloads

pauseVars == <<routeCopy, routeHeld, response, respHeld, onTheWay, pageStatus, dismissed,
               dismissedInTab, due, misses, reloads>>

\* closed: paused, emergency or recovery; open: normal, or unavailable, for which the
\* banner cannot be dismissed.
Modes == {"open", "closed"}
Statuses == [mode : Modes, age : Nat]
NoStatus == [mode |-> "none", age |-> 0]

PauseTypeOK ==
  /\ \A s \in {routeCopy, response, pageStatus} : s = NoStatus \/ s \in Statuses
  /\ routeHeld \in 0 .. 2 /\ respHeld \in 0 .. BrowserLag + 1
  /\ \A a \in onTheWay : a[1] \in Statuses /\ a[2] \in 0 .. MaxDelay
  /\ {dismissed, dismissedInTab, due} \subseteq BOOLEAN
  /\ misses \in 0 .. MaxMisses /\ reloads \in 0 .. MaxReloads

PauseInit ==
  /\ routeCopy = NoStatus /\ routeHeld = 0 /\ response = NoStatus /\ respHeld = 0
  /\ onTheWay = {} /\ pageStatus = NoStatus
  /\ dismissed = FALSE /\ dismissedInTab = FALSE /\ due = TRUE /\ misses = 0 /\ reloads = 0

\* fetchVaultStatus: what the agent or the data cache says, or unavailable.
FetchVaultStatus == [mode : Modes, age : {0}]

\* Between one and two ticks the copy may have expired; after two it has.
MayBeFresh == routeCopy # NoStatus /\ routeHeld <= 1
MayHaveExpired == routeCopy = NoStatus \/ routeHeld >= 1

Kept == routeHeld

\* GET: the copy, or a new one.  Its await ends in the assignment of what has just
\* been answered; the expiry counts from before it.
Route(s) ==
  \/ MayBeFresh /\ s = routeCopy /\ routeHeld' = Kept /\ UNCHANGED routeCopy
  \/ MayHaveExpired /\ s \in FetchVaultStatus /\ routeCopy' = s /\ routeHeld' \in 0 .. 2

AnyAnswer == FetchVaultStatus \cup {routeCopy}

\* fetch asks the route, or takes the response the browser still holds.
FetchStatus ==
  /\ due /\ due' = FALSE
  /\ \/ \E s \in AnyAnswer :
          /\ Route(s) /\ response' = s /\ respHeld' = 0
          /\ onTheWay' = onTheWay \cup {<<s, 0>>}
     \/ /\ response # NoStatus /\ respHeld <= BrowserLag
        /\ onTheWay' = onTheWay \cup {<<response, 0>>}
        /\ UNCHANGED <<routeCopy, routeHeld, response, respHeld>>
  /\ UNCHANGED <<pageStatus, dismissed, dismissedInTab, misses, reloads>>

\* The browser has answered from a stale response and renews it.
BrowserRevalidates ==
  /\ response # NoStatus /\ 1 <= respHeld /\ respHeld <= BrowserLag
  /\ \E s \in AnyAnswer : Route(s) /\ response' = s /\ respHeld' = 0
  /\ UNCHANGED <<onTheWay, pageStatus, dismissed, dismissedInTab, due, misses, reloads>>

\* Another visitor asks the route.
OthersAsk ==
  /\ \E s \in AnyAnswer : Route(s)
  /\ UNCHANGED <<response, respHeld, onTheWay, pageStatus, dismissed, dismissedInTab, due,
                 misses, reloads>>

\* The answer is shown; an earlier dismissal is lifted unless the session has it.
StatusAnswers ==
  /\ \E a \in onTheWay : onTheWay' = onTheWay \ {a} /\ pageStatus' = a[1]
  /\ dismissed' = IF pageStatus'.mode = "closed" /\ ~dismissedInTab THEN FALSE ELSE dismissed
  /\ misses' = 0
  /\ UNCHANGED <<routeCopy, routeHeld, response, respHeld, dismissedInTab, due, reloads>>

\* A request fails or its answer is not ok: the page keeps what it has.
StatusFails ==
  /\ misses < MaxMisses /\ misses' = misses + 1
  /\ \E a \in onTheWay : onTheWay' = onTheWay \ {a}
  /\ UNCHANGED <<routeCopy, routeHeld, response, respHeld, pageStatus, dismissed,
                 dismissedInTab, due, reloads>>

\* What the banner announces, with a button to dismiss it.
Announced == pageStatus.mode = "closed" /\ ~dismissed

HandleDismiss ==
  /\ Announced
  /\ dismissed' = TRUE /\ dismissedInTab' = TRUE
  /\ UNCHANGED <<routeCopy, routeHeld, response, respHeld, onTheWay, pageStatus, due,
                 misses, reloads>>

\* The page is loaded again in its tab, whose session storage stays.
Reload ==
  /\ reloads < MaxReloads /\ reloads' = reloads + 1
  /\ pageStatus' = NoStatus /\ onTheWay' = {} /\ dismissed' = dismissedInTab
  /\ due' = TRUE /\ misses' = 0
  /\ UNCHANGED <<routeCopy, routeHeld, response, respHeld, dismissedInTab>>

Older(s) == IF s = NoStatus THEN s ELSE [s EXCEPT !.age = @ + 1]
Up(n, limit) == IF n < limit THEN n + 1 ELSE n

\* Half a minute passes.
PauseTick ==
  /\ ~due /\ due' = TRUE
  /\ \A a \in onTheWay : a[2] < MaxDelay
  /\ onTheWay' = {<<Older(a[1]), a[2] + 1>> : a \in onTheWay}
  /\ routeCopy' = Older(routeCopy) /\ routeHeld' = Up(routeHeld, 2)
  /\ response' = Older(response) /\ respHeld' = Up(respHeld, BrowserLag + 1)
  /\ pageStatus' = Older(pageStatus)
  /\ UNCHANGED <<dismissed, dismissedInTab, misses, reloads>>

PauseNext ==
  \/ FetchStatus \/ BrowserRevalidates \/ OthersAsk \/ StatusAnswers \/ StatusFails \/ HandleDismiss \/ Reload
  \/ PauseTick

PauseSpec == PauseInit /\ [][PauseNext]_pauseVars

-----------------------------------------------------------------------------
(* Properties. *)

\* The lags of the route's copy and the browser's, and the way of an answer, which a
\* later one may not overtake for good.
Recent == 1 + BrowserLag + 2 * MaxDelay + 1

\* The status the page shows left the route's fetch at most Recent ticks ago, and the
\* polls that were lost.
StatusIsRecent == pageStatus.age <= Recent + misses

\* A closed vault that the page knows of is announced, over reloads and late answers,
\* until a banner is dismissed in the tab.
ClosedIsAnnounced == pageStatus.mode = "closed" /\ ~dismissedInTab => Announced

-----------------------------------------------------------------------------
(***************************************************************************)
(* The rates of the APY card (frontend app/api/apy/route.ts and             *)
(* lib/useApyData.ts): the route keeps an answer for ApyLife, asks the      *)
(* agent's metrics when that is over, and hands out what it has when they   *)
(* fail; the card keeps what it has.  Values are known by their updatedAt.  *)
(* No page of the app mounts the card.                                      *)
(***************************************************************************)

CONSTANTS
  ApyLife,    \* CACHE_TTL_MS in ticks
  MaxApyTime, \* bound of the runs: length of a behaviour
  MaxGets     \* bound of the runs: requests that wait for the agent

ASSUME ApyCardAssumption == {ApyLife, MaxApyTime, MaxGets} \subseteq Nat

VARIABLES
  apyTime,
  cachedData,   \* its updatedAt; 0: null, which is handed out as the epoch
  cacheExpiry,
  gets,         \* requests that wait: now, and whether the card awaits them
  reply,        \* the response on its way to the card, or none
  apyData,      \* updatedAt of what the card shows; 0: the epoch, or nothing yet
  routeDied     \* has the route's process been restarted?

apyCardVars == <<apyTime, cachedData, cacheExpiry, gets, reply, apyData, routeDied>>

ApyCardTypeOK ==
  /\ {apyTime, cachedData, cacheExpiry, apyData} \subseteq Nat
  /\ gets \subseteq [now : Nat, awaited : BOOLEAN] /\ reply \subseteq Nat
  /\ routeDied \in BOOLEAN

ApyCardInit ==
  /\ apyTime = 1 /\ cachedData = 0 /\ cacheExpiry = 0
  /\ gets = {} /\ reply = {} /\ apyData = 0 /\ routeDied = FALSE

HandsOut(awaited, stamp) == reply' = IF awaited THEN {stamp} ELSE reply

\* A request of the card takes the place of the one before, whose answer SWR drops.
Asked(awaited) ==
  IF awaited THEN {[g EXCEPT !.awaited = FALSE] : g \in gets} ELSE gets

\* GET, for the card (every five minutes, by hand or to try again) or another visitor.
GetsApy(awaited) ==
  /\ IF cachedData # 0 /\ apyTime <= cacheExpiry
     THEN HandsOut(awaited, cachedData) /\ gets' = Asked(awaited)
     ELSE /\ Cardinality(gets) < MaxGets
          /\ gets' = Asked(awaited) \cup {[now |-> apyTime, awaited |-> awaited]}
          /\ reply' = IF awaited THEN {} ELSE reply
  /\ UNCHANGED <<apyTime, cachedData, cacheExpiry, apyData, routeDied>>

\* The request of another visitor, made in the same tick, may wait on.
Settled(g) == \E on \in SUBSET {[g EXCEPT !.awaited = FALSE]} : gets' = (gets \ {g}) \cup on

\* fetchLiveApyData answers: what the agent says, or the values built in when there is
\* no agent or its answer is not ok; both are stamped with the time of now.
FetchesLiveApy(g) ==
  /\ Settled(g)
  /\ cachedData' = apyTime /\ cacheExpiry' = g.now + ApyLife
  /\ HandsOut(g.awaited, apyTime)
  /\ UNCHANGED <<apyTime, apyData, routeDied>>

\* The agent cannot be reached: the copy, however old.
AgentIsAway(g) ==
  /\ Settled(g) /\ HandsOut(g.awaited, cachedData)
  /\ UNCHANGED <<apyTime, cachedData, cacheExpiry, apyData, routeDied>>

\* The response arrives, or is lost and the card keeps what it has.
CardHears(r) ==
  /\ reply' = {} /\ apyData' \in {r, apyData}
  /\ UNCHANGED <<apyTime, cachedData, cacheExpiry, gets, routeDied>>

RouteDies ==
  /\ routeDied' = TRUE /\ cachedData' = 0 /\ cacheExpiry' = 0 /\ gets' = {}
  /\ UNCHANGED <<apyTime, reply, apyData>>

ApyTimePasses ==
  /\ apyTime < MaxApyTime /\ apyTime' = apyTime + 1
  /\ UNCHANGED <<cachedData, cacheExpiry, gets, reply, apyData, routeDied>>

ApyCardNext ==
  \/ ApyTimePasses \/ RouteDies
  \/ \E awaited \in BOOLEAN : GetsApy(awaited)
  \/ \E g \in gets : FetchesLiveApy(g) \/ AgentIsAway(g)
  \/ \E r \in reply : CardHears(r)

ApyCardSpec == ApyCardInit /\ [][ApyCardNext]_apyCardVars

\* What the route hands out as fresh is not older than ApyLife, although requests that
\* wait side by side set the copy and its expiry in any order; and as long as the route
\* lives the card never goes back to older values.
RatesGoForward ==
  /\ cacheExpiry <= cachedData + ApyLife
  /\ ~routeDied => apyData <= cachedData /\ \A r \in reply : apyData <= r

-----------------------------------------------------------------------------
(***************************************************************************)
(* The wizard of a first visit (OnboardingWizard.tsx), in several tabs over *)
(* one localStorage: five steps, a wallet that answers late, and a snapshot *)
(* of the state written by every change from the values of the last render. *)
(***************************************************************************)

CONSTANTS
  Tabs,
  Wallets,     \* public keys
  NoWallet,
  MaxConnects  \* bound of the runs: wallet requests open in a tab

ASSUME WizardAssumption ==
  NoWallet \notin Wallets \cup {"not yet"} /\ MaxConnects \in Nat

ConnectStep == 2
DepositStep == 4
LastStep == 5
Snapshots == [step : 1 .. LastStep, key : Wallets \cup {NoWallet}, amount : {"", "some"},
              strategy : {"Balanced", "Growth"}]
NothingSaved == [step |-> 1, key |-> NoWallet, amount |-> "", strategy |-> "Balanced"]

VARIABLES
  visible,    \* tabs that show the wizard
  wizard,     \* the state of each tab
  connects,   \* per tab: snapshots of the renders whose wallet request is open
  savedWizard,      \* neurowealth-wizard-state; nothing saved reads as the defaults
  onboarded,  \* neurowealth-onboarded
  completed   \* the last onComplete: a public key, or NoWallet

wizardVars == <<visible, wizard, connects, savedWizard, onboarded, completed>>

WizardTypeOK ==
  /\ visible \subseteq Tabs
  /\ wizard \in [Tabs -> Snapshots]
  /\ connects \in [Tabs -> SUBSET Snapshots]
  /\ savedWizard \in Snapshots /\ onboarded \in BOOLEAN
  /\ completed \in Wallets \cup {NoWallet, "not yet"}

WizardInit ==
  /\ visible = {} /\ wizard = [t \in Tabs |-> NothingSaved]
  /\ connects = [t \in Tabs |-> {}]
  /\ savedWizard = NothingSaved /\ onboarded = FALSE /\ completed = "not yet"

\* What the saved progress restores.
Restored(s) == s

\* The page is loaded, or loaded again.
PageLoads(t) ==
  /\ visible' = IF onboarded THEN visible \ {t} ELSE visible \cup {t}
  /\ wizard' = [wizard EXCEPT ![t] = IF onboarded THEN NothingSaved ELSE Restored(savedWizard)]
  /\ connects' = [connects EXCEPT ![t] = {}]
  /\ UNCHANGED <<savedWizard, onboarded, completed>>

\* A change of the state, and persist of the render it was made in.
ChangesTo(t, shownNext, savedNext) ==
  /\ t \in visible
  /\ wizard' = [wizard EXCEPT ![t] = shownNext]
  /\ savedWizard' = savedNext
  /\ UNCHANGED <<visible, onboarded, completed>>

\* Next is disabled on the last step, and on the connect step without a wallet.
MayGoOn(w) == w.step < LastStep /\ ~(w.step = ConnectStep /\ w.key = NoWallet)

GoNext(t) ==
  LET w == wizard[t] IN
  /\ MayGoOn(w)
  /\ ChangesTo(t, [w EXCEPT !.step = @ + 1], [w EXCEPT !.step = @ + 1])
  /\ UNCHANGED connects

GoPrev(t) ==
  LET w == wizard[t] IN
  /\ w.step > 1
  /\ ChangesTo(t, [w EXCEPT !.step = @ - 1], [w EXCEPT !.step = @ - 1])
  /\ UNCHANGED connects

ChooseStrategy(t) ==
  LET w == wizard[t] IN
  /\ w.step = 3
  /\ \E s \in {"Balanced", "Growth"} :
       ChangesTo(t, [w EXCEPT !.strategy = s], [w EXCEPT !.strategy = s])
  /\ UNCHANGED connects

TypeAmount(t) ==
  LET w == wizard[t] IN
  /\ w.step = DepositStep
  /\ \E a \in {"", "some"} : ChangesTo(t, [w EXCEPT !.amount = a], [w EXCEPT !.amount = a])
  /\ UNCHANGED connects

\* onSkip empties the amount; persist still has the one of the last render.
SkipDeposit(t) ==
  LET w == wizard[t] IN
  /\ w.step = DepositStep
  /\ ChangesTo(t, [w EXCEPT !.step = @ + 1, !.amount = ""], [w EXCEPT !.step = @ + 1])
  /\ UNCHANGED connects

\* handleConnect.  Leaving the step forgets that a request is open, not the request.
AskWallet(t) ==
  /\ t \in visible /\ wizard[t].step = ConnectStep /\ wizard[t].key = NoWallet
  /\ wizard[t] \notin connects[t] /\ Cardinality(connects[t]) < MaxConnects
  /\ connects' = [connects EXCEPT ![t] = @ \cup {wizard[t]}]
  /\ UNCHANGED <<visible, wizard, savedWizard, onboarded, completed>>

\* The wallet answers: onConnect of the render that asked, although the wizard
\* may have been dismissed.
WalletAnswers(t, s) ==
  /\ connects' = [connects EXCEPT ![t] = @ \ {s}]
  /\ \E k \in Wallets : /\ wizard' = [wizard EXCEPT ![t].key = k]
                        /\ savedWizard' = [s EXCEPT !.key = k]
  /\ UNCHANGED <<visible, onboarded, completed>>

WalletRefuses(t, s) ==
  /\ connects' = [connects EXCEPT ![t] = @ \ {s}]
  /\ UNCHANGED <<visible, wizard, savedWizard, onboarded, completed>>

\* complete, from the last step, and dismiss, from any.
Leaves(t) ==
  /\ t \in visible
  /\ visible' = visible \ {t} /\ onboarded' = TRUE /\ savedWizard' = NothingSaved
  /\ UNCHANGED <<wizard, connects>>
Complete(t) == wizard[t].step = LastStep /\ Leaves(t) /\ completed' = wizard[t].key
Dismiss(t) == Leaves(t) /\ UNCHANGED completed

WizardNext ==
  \E t \in Tabs :
    \/ PageLoads(t) \/ GoNext(t) \/ GoPrev(t) \/ ChooseStrategy(t) \/ TypeAmount(t)
    \/ SkipDeposit(t) \/ AskWallet(t) \/ Complete(t) \/ Dismiss(t)
    \/ \E s \in connects[t] : WalletAnswers(t, s) \/ WalletRefuses(t, s)

WizardSpec == WizardInit /\ [][WizardNext]_wizardVars

(***************************************************************************)
(* Nobody is past the wallet step without a wallet, in a tab or in what is  *)
(* saved, and onComplete always gets one: however tabs are reloaded over    *)
(* each other's snapshots and wallets answer late.                          *)
(***************************************************************************)
PastConnectHasKey ==
  /\ \A t \in visible : wizard[t].step > ConnectStep => wizard[t].key # NoWallet
  /\ savedWizard.step > ConnectStep => savedWizard.key # NoWallet
  /\ completed # NoWallet

(***************************************************************************)
(* What is shown belongs to the account it is shown for, unless an attempt  *)
(* to reconnect was left over, and is as recent as the copies between       *)
(* allow: the live portfolio, the wizard's step, the vault's status and the *)
(* rates.                                                                   *)
(***************************************************************************)
ShownIsCurrent ==
  /\ RealtimeTypeOK /\ ShowsItsAccount
  /\ WizardTypeOK /\ PastConnectHasKey
  /\ PauseTypeOK /\ StatusIsRecent /\ ClosedIsAnnounced
  /\ ApyCardTypeOK /\ RatesGoForward
================================================================================
