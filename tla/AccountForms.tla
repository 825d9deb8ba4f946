---------------------------- MODULE AccountForms ----------------------------
(***************************************************************************)
(* The forms that change the user's e-mail address or password, and that   *)
(* enable the guest account (client/src/app/change-email,                  *)
(* client/src/app/change-password, client/src/app/set-up-guest-account).   *)
(* What is new is entered twice.  A validator is run when its own control  *)
(* changes, and its verdict is kept.                                       *)
(***************************************************************************)
EXTENDS Naturals, Sequences

CONSTANTS
  Entries,        \* what may be typed: e-mail addresses, or passwords
  AfMaxRequests   \* bound: requests on their way

VARIABLES
  page,           \* "email", "password" or "guest"
  guestEnabled,   \* at the server
  current,        \* the field of the current password: "right", "wrong" or empty
  new,            \* newEmail, newPassword, or the guest's password
  confirm,        \* the field that repeats it
  refused,        \* an error was set on the password, at an answer
  matches,        \* the verdict on confirm that is kept
  guestBox,       \* currentEnabledState
  originalEnabledState,
  afRequests,     \* on their way: [kind, valid, guest, answer]
  afCrossed,      \* an answer met another request
  afFailed        \* the last answer was an error

afVars == <<page, guestEnabled, current, new, confirm, refused, matches, guestBox,
            originalEnabledState, afRequests, afCrossed, afFailed>>

None == ""
Values == Entries \cup {None}
Ask == [kind |-> "get", valid |-> TRUE, guest |-> FALSE, answer |-> "none"]
\* The server's validators look at both fields and at the password.
Submission == [kind |-> "set", valid |-> new = confirm /\ (page = "guest" \/ current = "right"),
               guest |-> guestBox, answer |-> "none"]

AnyInvalid ==
  \/ refused \/ ~matches
  \/ page # "guest" /\ None \in {current, new, confirm}
SubmitDisabled ==
  AnyInvalid \/ (page = "guest" /\ guestBox = originalEnabledState /\ new = None)

\* A new form is validated once, as a whole; the e-mail address and the state of the
\* guest account are asked for.
Fresh(p) ==
  /\ page' = p
  /\ current' = None /\ new' = None /\ confirm' = None
  /\ refused' = FALSE /\ matches' = TRUE
  /\ guestBox' = FALSE /\ originalEnabledState' = FALSE
  /\ afRequests' = IF p = "password" THEN <<>> ELSE <<Ask>>
  /\ afCrossed' = FALSE /\ afFailed' = FALSE

Init ==
  /\ page = "password"
  /\ guestEnabled \in BOOLEAN
  /\ current = None /\ new = None /\ confirm = None
  /\ refused = FALSE /\ matches = TRUE
  /\ guestBox = FALSE /\ originalEnabledState = FALSE
  /\ afRequests = <<>> /\ afCrossed = FALSE /\ afFailed = FALSE

OpenPage ==
  /\ afRequests = <<>>
  /\ \E p \in {"email", "password", "guest"} : Fresh(p)
  /\ UNCHANGED guestEnabled

TypeCurrent ==
  /\ page # "guest"
  /\ current' \in {None, "right", "wrong"} \ {current} /\ refused' = FALSE
  /\ UNCHANGED <<page, guestEnabled, new, confirm, matches, guestBox, originalEnabledState,
                 afRequests, afCrossed, afFailed>>

\* Mutant: the guest form does not have confirm validated again either.
SetNewAlone(v) ==
  /\ new' = v
  /\ refused' = (refused /\ page # "guest")
  /\ UNCHANGED matches

\* The guest form has confirm validated again, the others do not.
SetNew(v) ==
  /\ new' = v
  /\ refused' = (refused /\ page # "guest")
  /\ matches' = IF page = "guest" THEN confirm = v ELSE matches

TypeNew ==
  /\ \E v \in Values \ {new} : SetNew(v)
  /\ UNCHANGED <<page, guestEnabled, current, confirm, guestBox, originalEnabledState,
                 afRequests, afCrossed, afFailed>>

TypeConfirm ==
  /\ confirm' \in Values \ {confirm}
  /\ matches' = (confirm' = new)
  /\ UNCHANGED <<page, guestEnabled, current, new, refused, guestBox, originalEnabledState,
                 afRequests, afCrossed, afFailed>>

SetEnabled ==
  /\ page = "guest" /\ guestBox' = ~guestBox
  /\ UNCHANGED <<page, guestEnabled, current, new, confirm, refused, matches,
                 originalEnabledState, afRequests, afCrossed, afFailed>>

\* Mutant: the state that the account will have is not noted.
FormSubmittedUnnoted ==
  /\ ~SubmitDisabled /\ Len(afRequests) < AfMaxRequests
  /\ afRequests' = Append(afRequests, Submission)
  /\ UNCHANGED <<page, guestEnabled, current, new, confirm, refused, matches, guestBox,
                 originalEnabledState, afCrossed, afFailed>>

\* The guest form takes the state of the account for changed.
FormSubmitted ==
  /\ ~SubmitDisabled /\ Len(afRequests) < AfMaxRequests
  /\ afRequests' = Append(afRequests, Submission)
  /\ originalEnabledState' = IF page = "guest" THEN guestBox ELSE originalEnabledState
  /\ UNCHANGED <<page, guestEnabled, current, new, confirm, refused, matches, guestBox,
                 afCrossed, afFailed>>

\* The e-mail address and the passwords of the server are left out.
Serve ==
  /\ \E i \in DOMAIN afRequests, answer \in {"ok", "refused", "error"} :
       LET r == afRequests[i]
           set == r.kind = "set" /\ answer = "ok" IN
       /\ r.answer = "none"
       /\ r.kind = "get" => answer # "refused"
       /\ set => r.valid
       /\ guestEnabled' = IF set /\ page = "guest" THEN r.guest ELSE guestEnabled
       /\ afRequests' = [afRequests EXCEPT ![i].answer = answer,
            ![i].guest = IF r.kind = "get" THEN guestEnabled ELSE @]
  /\ UNCHANGED <<page, current, new, confirm, refused, matches, guestBox,
                 originalEnabledState, afCrossed, afFailed>>

Answered(i, kind, answers) ==
  /\ afRequests[i].kind = kind /\ afRequests[i].answer \in answers
  /\ afRequests' = SubSeq(afRequests, 1, i - 1) \o SubSeq(afRequests, i + 1, Len(afRequests))
  /\ afCrossed' = (afCrossed \/ Len(afRequests) > 1)

\* The address is put where the new one may have been typed.
GotEmail ==
  /\ page = "email"
  /\ \E i \in DOMAIN afRequests :
       Answered(i, "get", {"ok"}) /\ \E email \in Entries : SetNew(email)
  /\ UNCHANGED <<page, guestEnabled, current, confirm, guestBox, originalEnabledState, afFailed>>

GotGuestAccountEnabled ==
  /\ page = "guest"
  /\ \E i \in DOMAIN afRequests :
       /\ Answered(i, "get", {"ok"})
       /\ guestBox' = afRequests[i].guest
       /\ originalEnabledState' = afRequests[i].guest
  /\ afFailed' = FALSE
  /\ UNCHANGED <<page, guestEnabled, current, new, confirm, refused, matches>>

\* The guest form clears its passwords.
Changed ==
  /\ \E i \in DOMAIN afRequests : Answered(i, "set", {"ok"})
  /\ IF page = "guest"
     THEN new' = None /\ confirm' = None /\ matches' = TRUE /\ refused' = FALSE
     ELSE UNCHANGED <<new, confirm, matches, refused>>
  /\ afFailed' = FALSE
  /\ UNCHANGED <<page, guestEnabled, current, guestBox, originalEnabledState>>

\* invalidPassword, where the server blames the password.
NotChanged ==
  /\ \E i \in DOMAIN afRequests, kind \in {"get", "set"} :
       /\ Answered(i, kind, {"refused", "error"})
       /\ refused' = (refused \/ afRequests[i].answer = "refused")
  /\ afFailed' = TRUE
  /\ UNCHANGED <<page, guestEnabled, current, new, confirm, matches, guestBox, originalEnabledState>>

Next ==
  \/ OpenPage \/ TypeCurrent \/ TypeNew \/ TypeConfirm \/ SetEnabled \/ FormSubmitted
  \/ Serve \/ GotEmail \/ GotGuestAccountEnabled \/ Changed \/ NotChanged

-----------------------------------------------------------------------------

\* The guest form is never submitted with two passwords that differ, whichever of them
\* was typed, typed again or cleared last.
GuestMatches == (page = "guest" /\ ~AnyInvalid) => new = confirm

\* The state that the guest form compares its box with is the account's, so that a
\* change is offered when there is one: once the last of any submissions was answered, and
\* was accepted, whatever was refused before.  Excepted is the time from an answer that is
\* an error to the next that is not, as set-up-guest-account.component.ts:42 takes what is
\* submitted for the account's state and an error does not take it back: the change that
\* was refused is not offered again; and a page on which an answer met another request.
GuestKnown ==
  (page = "guest" /\ afRequests = <<>> /\ ~afCrossed /\ ~afFailed)
    => originalEnabledState = guestEnabled
=============================================================================
