------------------------------ MODULE Session ------------------------------
(***************************************************************************)
(* The end of a login that nobody uses: in each tab of the browser the     *)
(* watch for the user's activity, the count down, the dialog that warns,   *)
(* the live pages that suspend it, and the ways a tab is logged off        *)
(* (client/src/app/angular-user-idle, nav, idle-timeout-modal; the live    *)
(* pages' ngOnInit and ngOnDestroy).                                       *)
(***************************************************************************)
EXTENDS Naturals

CONSTANTS
  Tabs,      \* of one browser
  IdleSecs,  \* without activity before the count down: 600
  CountDown  \* seconds of the count down: 60

Pages == {"live", "multicam", "other"}
Live == {"live", "multicam"}

VARIABLES
  page,
  idleTimeoutActive,  \* the page lets the user be logged off
  idle,               \* seconds without activity
  isInactivityTimer,  \* the count down is going on
  count,
  dialog,             \* the dialog is shown
  dismissed,          \* it was closed by the browser's going to another page
  isGuest,
  away,               \* the user has left this tab for good
  stored,             \* a logoff in local storage that this tab has not seen
  loggedOff

seVars == <<page, idleTimeoutActive, idle, isInactivityTimer, count, dialog, dismissed,
            isGuest, away, stored, loggedOff>>

Init ==
  /\ page = [t \in Tabs |-> "other"] /\ idleTimeoutActive = [t \in Tabs |-> TRUE]
  /\ idle = [t \in Tabs |-> 0] /\ isInactivityTimer = [t \in Tabs |-> FALSE]
  /\ count = [t \in Tabs |-> 0]
  /\ dialog = [t \in Tabs |-> FALSE] /\ dismissed = [t \in Tabs |-> FALSE]
  /\ isGuest \in BOOLEAN
  /\ away = [t \in Tabs |-> FALSE]
  /\ stored = [t \in Tabs |-> FALSE] /\ loggedOff = [t \in Tabs |-> FALSE]

-----------------------------------------------------------------------------
(* UserIdleService *)

Watching(t) == ~loggedOff[t] /\ ~isInactivityTimer[t]
Counting(t) == ~loggedOff[t] /\ isInactivityTimer[t]

\* Nothing but the dialog ends the count down: activity has no part in it.
Activity(t) ==
  /\ Watching(t) /\ ~away[t]
  /\ idle' = [idle EXCEPT ![t] = 0]
  /\ UNCHANGED <<page, idleTimeoutActive, isInactivityTimer, count, dialog, dismissed,
                 isGuest, away, stored, loggedOff>>

IdleSecond(t) ==
  /\ Watching(t)
  /\ idle' = [idle EXCEPT ![t] = @ + 1]
  /\ isInactivityTimer' = [isInactivityTimer EXCEPT ![t] = (idle'[t] = IdleSecs)]
  /\ UNCHANGED <<page, idleTimeoutActive, count, dialog, dismissed, isGuest, away,
                 stored, loggedOff>>

ResetTimer(t) ==
  /\ isInactivityTimer' = [isInactivityTimer EXCEPT ![t] = FALSE]
  /\ idle' = [idle EXCEPT ![t] = 0]
  /\ count' = [count EXCEPT ![t] = 0]

-----------------------------------------------------------------------------
(* NavComponent *)

\* The other tabs have it from local storage.
LogOff(t) ==
  /\ loggedOff' = [loggedOff EXCEPT ![t] = TRUE]
  /\ stored' = [u \in Tabs |-> stored[u] \/ (u # t /\ ~loggedOff[u])]

\* The last second of the count, whatever the page.
TimedOut(t) ==
  /\ Counting(t) /\ count[t] = CountDown - 1
  /\ dialog' = [dialog EXCEPT ![t] = FALSE]
  /\ LogOff(t)
  /\ UNCHANGED <<page, idleTimeoutActive, idle, isInactivityTimer, count, dismissed,
                 isGuest, away>>

\* openIdleTimeoutDialog, for the first second; after it the dialog is only updated.
Warn(t) ==
  /\ Counting(t) /\ count[t] < CountDown - 1 /\ idleTimeoutActive[t]
  /\ count' = [count EXCEPT ![t] = @ + 1]
  /\ dialog' = [dialog EXCEPT ![t] = @ \/ count[t] = 0]
  /\ UNCHANGED <<page, idleTimeoutActive, idle, isInactivityTimer, dismissed, isGuest,
                 away, stored, loggedOff>>

DoNotWarn(t) ==
  /\ Counting(t) /\ count[t] < CountDown - 1 /\ ~idleTimeoutActive[t]
  /\ ResetTimer(t)
  /\ dismissed' = [dismissed EXCEPT ![t] = FALSE]
  /\ UNCHANGED <<page, idleTimeoutActive, dialog, isGuest, away, stored, loggedOff>>

\* Mutant: the dialog goes and the count goes on.
CloseOnly(t) ==
  /\ dialog[t] /\ ~loggedOff[t] /\ ~away[t]
  /\ dialog' = [dialog EXCEPT ![t] = FALSE]
  /\ UNCHANGED <<page, idleTimeoutActive, idle, isInactivityTimer, count, dismissed,
                 isGuest, away, stored, loggedOff>>

\* IdleTimeoutModalComponent: Continue, and log off.
OnContinue(t) ==
  /\ dialog[t] /\ ~loggedOff[t] /\ ~away[t]
  /\ ResetTimer(t)
  /\ dialog' = [dialog EXCEPT ![t] = FALSE]
  /\ UNCHANGED <<page, idleTimeoutActive, dismissed, isGuest, away, stored, loggedOff>>

OnClose(t) ==
  /\ dialog[t] /\ ~loggedOff[t] /\ ~away[t]
  /\ dialog' = [dialog EXCEPT ![t] = FALSE]
  /\ loggedOff' = [loggedOff EXCEPT ![t] = TRUE]
  /\ UNCHANGED <<page, idleTimeoutActive, idle, isInactivityTimer, count, dismissed,
                 isGuest, away, stored>>

\* Mutant: a page is made before the one it replaces is destroyed.
ActiveWhenMadeFirst(from, to, active) == from \in Live \/ (to \notin Live /\ active)

\* What a page's ngOnDestroy and then the next one's ngOnInit tell the NavComponent.
ActiveAfter(from, to, active) == to \notin Live /\ (from \in Live \/ active)

\* By the menu, which is activity; or, under the dialog, back in the browser's history,
\* which closes it.
Navigate(t) ==
  /\ ~loggedOff[t] /\ ~away[t]
  /\ \E p \in Pages \ {page[t]} :
       /\ page' = [page EXCEPT ![t] = p]
       /\ idleTimeoutActive' =
            [idleTimeoutActive EXCEPT ![t] = ActiveAfter(page[t], p, @)]
  /\ dialog' = [dialog EXCEPT ![t] = FALSE]
  /\ dismissed' = [dismissed EXCEPT ![t] = dialog[t] \/ (@ /\ isInactivityTimer[t])]
  /\ idle' = [idle EXCEPT ![t] = IF isInactivityTimer[t] THEN @ ELSE 0]
  /\ UNCHANGED <<isInactivityTimer, count, isGuest, away, stored, loggedOff>>

ConfirmLogoff(t) ==
  /\ ~loggedOff[t] /\ ~dialog[t] /\ ~away[t]
  /\ LogOff(t)
  /\ UNCHANGED <<page, idleTimeoutActive, idle, isInactivityTimer, count, dialog,
                 dismissed, isGuest, away>>

\* Mutant: the tab that is told only forgets it.
OnStorageForgets(t) ==
  /\ stored[t] /\ ~loggedOff[t]
  /\ stored' = [stored EXCEPT ![t] = FALSE]
  /\ UNCHANGED <<page, idleTimeoutActive, idle, isInactivityTimer, count, dialog,
                 dismissed, isGuest, away, loggedOff>>

\* window.onstorage.
OnStorage(t) ==
  /\ stored[t] /\ ~loggedOff[t]
  /\ stored' = [stored EXCEPT ![t] = FALSE]
  /\ loggedOff' = [loggedOff EXCEPT ![t] = TRUE]
  /\ UNCHANGED <<page, idleTimeoutActive, idle, isInactivityTimer, count, dialog,
                 dismissed, isGuest, away>>

\* The guest account is disabled: the topic that every tab subscribes to.
GuestLogoff(t) ==
  /\ isGuest /\ ~loggedOff[t]
  /\ loggedOff' = [loggedOff EXCEPT ![t] = TRUE]
  /\ UNCHANGED <<page, idleTimeoutActive, idle, isInactivityTimer, count, dialog,
                 dismissed, isGuest, away, stored>>

GoAway(t) ==
  /\ ~away[t] /\ away' = [away EXCEPT ![t] = TRUE]
  /\ UNCHANGED <<page, idleTimeoutActive, idle, isInactivityTimer, count, dialog,
                 dismissed, isGuest, stored, loggedOff>>

Second(t) == IdleSecond(t) \/ TimedOut(t) \/ Warn(t) \/ DoNotWarn(t)

Next ==
  \E t \in Tabs :
    \/ Activity(t) \/ IdleSecond(t)
    \/ TimedOut(t) \/ Warn(t) \/ DoNotWarn(t)
    \/ OnContinue(t) \/ OnClose(t) \/ Navigate(t) \/ ConfirmLogoff(t)
    \/ OnStorage(t) \/ GuestLogoff(t) \/ GoAway(t)

\* Time passes, and events are delivered.
Fairness == \A t \in Tabs : WF_seVars(Second(t)) /\ WF_seVars(OnStorage(t))

Spec == Init /\ [][Next]_seVars /\ Fairness

-----------------------------------------------------------------------------

TypeOK ==
  /\ page \in [Tabs -> Pages]
  /\ idle \in [Tabs -> 0 .. IdleSecs] /\ count \in [Tabs -> 0 .. CountDown - 1]
  /\ idleTimeoutActive \in [Tabs -> BOOLEAN] /\ isInactivityTimer \in [Tabs -> BOOLEAN]
  /\ dialog \in [Tabs -> BOOLEAN] /\ dismissed \in [Tabs -> BOOLEAN]
  /\ away \in [Tabs -> BOOLEAN] /\ stored \in [Tabs -> BOOLEAN]
  /\ loggedOff \in [Tabs -> BOOLEAN] /\ isGuest \in BOOLEAN

\* Seconds are only counted when the user has been idle for as long as it takes, and
\* a page lets the user be logged off just if it is not a live one.
CountedWhenIdle ==
  \A t \in Tabs :
    /\ ~isInactivityTimer[t] => count[t] = 0
    /\ Watching(t) => idle[t] < IdleSecs
    /\ idleTimeoutActive[t] = (page[t] \notin Live)

\* While the seconds of a login are counted down the user is warned and can stop it,
\* however the counting began and whatever pages came and went, unless it was the
\* browser that left the page the dialog was on: then the count goes on with no dialog.
Warned ==
  \A t \in Tabs :
    (Counting(t) /\ count[t] > 0 /\ ~dismissed[t]) => dialog[t]

\* A live page is never counted down further than the first second, but for one that the
\* browser came to from the page of the dialog (dismissed): there the count goes on.
LivePageStays ==
  \A t \in Tabs :
    (~loggedOff[t] /\ page[t] \in Live /\ isInactivityTimer[t] /\ count[t] > 0)
      => dismissed[t]

\* A login that is left in one tab is ended in every tab, that with a live page too.
\* (The dialog's log off and the guest's end only the tab that they are in.)
LeftIsLoggedOff ==
  (\E t \in Tabs : away[t] /\ page[t] = "other" /\ ~loggedOff[t] /\ ~isGuest)
    ~> (\A t \in Tabs : loggedOff[t])
=============================================================================
