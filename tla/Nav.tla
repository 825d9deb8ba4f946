-------------------------------- MODULE Nav --------------------------------
(***************************************************************************)
(* The navigation bar of each browser tab: what its menus offer to a guest *)
(* and what the pages lock, its two options, which the tabs share in       *)
(* cookies, the caching one of which the server keeps as well, and the     *)
(* temperature that it shows (client/src/app/nav).  Session has what the   *)
(* bar does for the end of a login, CloudProxyPage the transport's status. *)
(***************************************************************************)
EXTENDS Naturals, Sequences

CONSTANTS
  NavTabs,
  Temperatures,   \* that the server may report
  MaxChoices      \* bound: clicks on the options and loads of the page

VARIABLES
  guestAccount,   \* the account is the guest's
  isGuest,        \* of each tab: what the bar takes it for
  asking,         \* of each tab: isGuest under way
  menuOpen,       \* of each tab: the collapsed bar is shown
  route,          \* of each tab: the page
  locked,         \* of each tab: the page's own isGuest
  cookies,        \* of each option, "true", "false" or "", if it was never set
  boxes,          \* of each tab and option, whether its box is checked
  clicked,        \* of each option, what was chosen last by a click on the box
  serverCaching,  \* the proxy's useCaching
  calls,          \* setUseCaching under way, in the order they were made
  unsure,         \* one was served after a later one, or failed
  temperature,    \* of one tab: [shown, value, class]
  choices

navVars == <<guestAccount, isGuest, asking, menuOpen, route, locked, cookies, boxes, clicked,
             serverCaching, calls, unsure, temperature, choices>>
pageVars == <<guestAccount, isGuest, asking, menuOpen, route, locked>>
optionVars == <<cookies, boxes, clicked, serverCaching, calls, unsure, choices>>

Options == {"hardwareDecoding", "useCaching"}
Unknown == 0   \* no temperature was read yet

Init ==
  /\ guestAccount \in BOOLEAN
  /\ isGuest = [t \in NavTabs |-> TRUE] /\ asking = [t \in NavTabs |-> FALSE]
  /\ menuOpen = [t \in NavTabs |-> FALSE]
  /\ route = [t \in NavTabs |-> "none"] /\ locked = [t \in NavTabs |-> TRUE]
  /\ cookies = [o \in Options |-> ""]
  /\ boxes = [t \in NavTabs |-> [o \in Options |-> FALSE]]
  /\ clicked = [o \in Options |-> ""]
  /\ serverCaching = FALSE /\ calls = <<>> /\ unsure = FALSE
  /\ temperature = [shown |-> FALSE, value |-> Unknown, class |-> "none"]
  /\ choices = 0

Choice == choices < MaxChoices /\ choices' = choices + 1

-----------------------------------------------------------------------------
(* The page is loaded *)

\* "" for one that was never set.
GetCookie(o) == cookies[o]

Shown(c) == c = "true"

\* A cookie that was never set becomes "true".  The first time the box of useCaching
\* is not checked all the same, and the server is not told.
ReadCookies(t) ==
  /\ cookies' = [o \in Options |-> IF GetCookie(o) = "" THEN "true" ELSE GetCookie(o)]
  /\ boxes' = [boxes EXCEPT ![t] =
                 [hardwareDecoding |-> Shown(cookies'["hardwareDecoding"]),
                  useCaching |-> Shown(GetCookie("useCaching"))]]

\* The user takes a link to any page, of whatever kind; the page is locked as long as
\* the account's kind is not known.
Load(t) ==
  /\ Choice
  /\ ReadCookies(t)
  /\ asking' = [asking EXCEPT ![t] = TRUE] /\ isGuest' = [isGuest EXCEPT ![t] = TRUE]
  /\ menuOpen' = [menuOpen EXCEPT ![t] = FALSE]
  /\ \E p \in {"admin", "config", "other"} : route' = [route EXCEPT ![t] = p]
  /\ locked' = [locked EXCEPT ![t] = TRUE]
  /\ UNCHANGED <<guestAccount, clicked, serverCaching, calls, unsure, temperature>>

\* Mutant: an error is taken for the answer no.
IsGuestOr(t, failed) == isGuest' = [isGuest EXCEPT ![t] = guestAccount /\ ~failed]

\* If the server cannot tell, the account is taken for a guest's.
IsGuest(t, failed) == isGuest' = [isGuest EXCEPT ![t] = guestAccount \/ failed]

GuestAnswered(t) ==
  /\ asking[t] /\ asking' = [asking EXCEPT ![t] = FALSE]
  /\ \E failed \in BOOLEAN : IsGuest(t, failed)
  /\ UNCHANGED <<guestAccount, menuOpen, route, locked, optionVars, temperature>>

-----------------------------------------------------------------------------
(* The menus *)

ToggleMenu(t) ==
  /\ route[t] # "none"
  /\ menuOpen' = [menuOpen EXCEPT ![t] = ~@]
  /\ UNCHANGED <<guestAccount, isGuest, asking, route, locked, optionVars, temperature>>

\* The entries for administration are disabled for a guest; the others, the
\* configuration among them, are not, and their pages ask once what the account is.
Entry(t, p) == p = "admin" => ~isGuest[t]

GoTo(t) ==
  /\ route[t] # "none"
  /\ \E p \in {"admin", "config", "other"} :
       Entry(t, p) /\ route' = [route EXCEPT ![t] = p]
  /\ menuOpen' = [menuOpen EXCEPT ![t] = FALSE]
  /\ locked' = [locked EXCEPT ![t] = isGuest[t]]
  /\ UNCHANGED <<guestAccount, isGuest, asking, optionVars, temperature>>

-----------------------------------------------------------------------------
(* The options *)

SetCookie(o, checked) ==
  cookies' = [cookies EXCEPT ![o] = IF checked THEN "true" ELSE "false"]

HardwareDecoding(t) ==
  /\ route[t] # "none" /\ Choice
  /\ boxes' = [boxes EXCEPT ![t].hardwareDecoding = ~@]
  /\ SetCookie("hardwareDecoding", boxes'[t].hardwareDecoding)
  /\ clicked' = [clicked EXCEPT !.hardwareDecoding = cookies'["hardwareDecoding"]]
  /\ UNCHANGED <<serverCaching, calls, unsure, pageVars, temperature>>

\* Mutant: the server is told when the page is loaded next.
UseCachingCookieOnly(t) ==
  /\ route[t] # "none" /\ Choice
  /\ boxes' = [boxes EXCEPT ![t].useCaching = ~@]
  /\ SetCookie("useCaching", boxes'[t].useCaching)
  /\ clicked' = [clicked EXCEPT !.useCaching = cookies'["useCaching"]]
  /\ UNCHANGED <<serverCaching, calls, unsure, pageVars, temperature>>

UseCaching(t) ==
  /\ route[t] # "none" /\ Choice
  /\ boxes' = [boxes EXCEPT ![t].useCaching = ~@]
  /\ SetCookie("useCaching", boxes'[t].useCaching)
  /\ clicked' = [clicked EXCEPT !.useCaching = cookies'["useCaching"]]
  /\ calls' = Append(calls, boxes'[t].useCaching)
  /\ UNCHANGED <<serverCaching, unsure, pageVars, temperature>>

\* A click on the menu's item beside the box, or the Enter key, does no more than
\* toggle the box.
ToggleBox(t) ==
  /\ route[t] # "none" /\ Choice
  /\ \E o \in Options : boxes' = [boxes EXCEPT ![t][o] = ~@]
  /\ UNCHANGED <<cookies, clicked, serverCaching, calls, unsure, pageVars, temperature>>

SetUseCaching ==
  /\ \E i \in DOMAIN calls :
       /\ calls' = SubSeq(calls, 1, i - 1) \o SubSeq(calls, i + 1, Len(calls))
       /\ \/ serverCaching' = calls[i] /\ unsure' = (unsure \/ i > 1)
          \/ UNCHANGED serverCaching /\ unsure' = TRUE
  /\ UNCHANGED <<cookies, boxes, clicked, choices, pageVars, temperature>>

-----------------------------------------------------------------------------
(* The temperature, when the page is loaded and with every ping *)

Class(c) == IF c < 50 THEN "success" ELSE IF c < 70 THEN "warning" ELSE "danger"

\* An answer that is no temperature shows what was read last, or nothing.
GetTemperature ==
  /\ \E t \in NavTabs : route[t] # "none"
  /\ \/ \E c \in Temperatures :
          temperature' = [shown |-> TRUE, value |-> c, class |-> Class(c)]
     \/ temperature' = [temperature EXCEPT !.shown = TRUE]
     \/ temperature' = [temperature EXCEPT !.shown = FALSE, !.class = "alert-danger"]
  /\ UNCHANGED <<pageVars, optionVars>>

Next ==
  \/ \E t \in NavTabs :
       \/ Load(t) \/ GuestAnswered(t) \/ ToggleMenu(t) \/ GoTo(t)
       \/ HardwareDecoding(t) \/ UseCaching(t) \/ ToggleBox(t)
  \/ SetUseCaching \/ GetTemperature

-----------------------------------------------------------------------------

\* Whatever fails, a guest gets no page unlocked, and none of the pages for
\* administration from the menu: the bar takes every account for a guest's until it
\* knows better (isGuest).
GuestIsLocked ==
  guestAccount => \A t \in NavTabs : isGuest[t] /\ locked[t]

\* When every setUseCaching was served, in the order in which they were made, the
\* server caches as the last click on a box of any tab said, and the cookie says the
\* same; without a click it does not cache (useCaching).
CachesAsClicked ==
  calls = <<>> /\ ~unsure =>
    IF clicked["useCaching"] = "" THEN ~serverCaching
    ELSE /\ serverCaching = Shown(clicked["useCaching"])
         /\ cookies["useCaching"] = clicked["useCaching"]

=============================================================================
