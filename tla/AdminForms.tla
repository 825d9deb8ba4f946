----------------------------- MODULE AdminForms -----------------------------
(***************************************************************************)
(* The pages of the administrator's application (initialAdmin/src/app):    *)
(* the local account of the recorder, the credentials for ActiveMQ and the *)
(* SMTP client.  What is saved is checked by the server and then done, in  *)
(* two steps.  E-mail addresses are entered twice as passwords are.        *)
(***************************************************************************)
EXTENDS Naturals, Sequences, FiniteSets

CONSTANTS
  Usernames,
  AdMaxRequests   \* bound: requests on their way

VARIABLES
  adPage,         \* "account", "creds" or "smtp"
  username, adPassword, adConfirm,
  notMatching,    \* the error that is kept on confirmPassword
  adBlamed,       \* the field that formValidator set an error on
  adAuth,         \* smtpData.auth
  adEnabled,      \* password and confirmPassword are enabled
  updateExisting, adError, committed,
  adRequests,     \* on their way: [kind, page, username, password, confirm, update, auth, stage]
  accounts,       \* at the server: the local accounts, but the guest's
  adRaced         \* two requests for an account were at the server at the same time

adVars == <<adPage, username, adPassword, adConfirm, notMatching, adBlamed, adAuth, adEnabled,
            updateExisting, adError, committed, adRequests, accounts, adRaced>>
formVars == <<adPage, username, adPassword, adConfirm, notMatching, adBlamed, adAuth, adEnabled>>

Empty == ""
\* Both are taken by the page and by the server's validator: the second has a character
\* that the account's own pattern does not know.
Passwords == {"plain", "special"}

Check ==
  [kind |-> "check", page |-> "any", username |-> Empty, password |-> Empty,
   confirm |-> Empty, update |-> FALSE, auth |-> FALSE, stage |-> "sent"]
Save ==
  [kind |-> "save", page |-> adPage, username |-> IF adPage = "account" THEN username ELSE Empty,
   password |-> adPassword, confirm |-> adConfirm, update |-> updateExisting,
   auth |-> adAuth, stage |-> "sent"]
\* Whose it is, is looked at on the account page only.
Names == IF adPage = "account" THEN Usernames ELSE {CHOOSE u \in Usernames : TRUE}
Checking == \E i \in DOMAIN adRequests : adRequests[i].kind = "check"

\* The credentials may be left empty.
AdAnyInvalid ==
  \/ adBlamed # "none"
  \/ adEnabled /\ (notMatching \/ (adPage # "creds" /\ Empty \in {adPassword, adConfirm}))
  \/ adPage = "account" /\ username = Empty
  \/ adPage = "smtp" /\ adAuth /\ username = Empty

Init ==
  /\ adPage = "account" /\ username = Empty /\ adPassword = Empty /\ adConfirm = Empty
  /\ notMatching = FALSE /\ adBlamed = "none" /\ adAuth = TRUE /\ adEnabled = TRUE
  /\ updateExisting = FALSE /\ adError = FALSE /\ committed = FALSE
  /\ adRequests = <<Check>>
  /\ accounts \in {{}} \cup {{u} : u \in Usernames}
  /\ adRaced = FALSE

\* What is left of s where the indices kept stay, in their order.
LeftOf(s, kept) ==
  {[k \in DOMAIN f |-> s[f[k]]] :
     f \in {g \in UNION {[1 .. n -> kept] : n \in 0 .. Len(s)} :
             /\ \A k, l \in DOMAIN g : k < l => g[k] < g[l]
             /\ \A i \in kept : \E k \in DOMAIN g : g[k] = i}}

\* Answers to the page that is left are lost, what it asked of an account is not.  The
\* controls of the SMTP page are made at the answer.
OpenAdminPage ==
  /\ \E p \in {"account", "creds", "smtp"} : adPage' = p /\ adEnabled' = (p # "smtp")
  /\ \E left \in LeftOf(adRequests, {i \in DOMAIN adRequests :
                  /\ adRequests[i].username # Empty
                  /\ adRequests[i].stage \in {"sent", "valid"}}) :
       adRequests' = Append([i \in DOMAIN left |-> [left[i] EXCEPT !.page = "left"]], Check)
  /\ Len(adRequests') <= AdMaxRequests
  /\ username' = Empty /\ adPassword' = Empty /\ adConfirm' = Empty
  /\ notMatching' = FALSE /\ adBlamed' = "none" /\ adAuth' = TRUE
  /\ updateExisting' = FALSE /\ adError' = FALSE /\ committed' = FALSE
  /\ UNCHANGED <<accounts, adRaced>>

TypeUsername ==
  /\ adPage = "smtp" => adAuth /\ adEnabled
  /\ username' \in (Names \cup {Empty}) \ {username}
  /\ adBlamed' = IF adBlamed = "username" THEN "none" ELSE adBlamed
  /\ UNCHANGED <<adPage, adPassword, adConfirm, notMatching, adAuth, adEnabled, updateExisting,
                 adError, committed, adRequests, accounts, adRaced>>

\* Mutant: confirmPassword is not validated again.
SetPasswordAlone(v) == adPassword' = v /\ UNCHANGED notMatching

\* confirmPassword is validated again; where it is required, not while it is empty.
SetPassword(v) ==
  /\ adPassword' = v
  /\ notMatching' = IF adPage = "creds" \/ adConfirm # Empty THEN adConfirm # v ELSE notMatching

TypePassword ==
  /\ adEnabled
  /\ \E v \in (Passwords \cup {Empty}) \ {adPassword} : SetPassword(v)
  /\ adBlamed' = IF adBlamed = "password" THEN "none" ELSE adBlamed
  /\ UNCHANGED <<adPage, username, adConfirm, adAuth, adEnabled, updateExisting, adError,
                 committed, adRequests, accounts, adRaced>>

TypeConfirmPassword ==
  /\ adEnabled
  /\ adConfirm' \in (Passwords \cup {Empty}) \ {adConfirm}
  /\ notMatching' = (adConfirm' # adPassword)
  /\ UNCHANGED <<adPage, username, adPassword, adBlamed, adAuth, adEnabled, updateExisting,
                 adError, committed, adRequests, accounts, adRaced>>

\* Enabled again, the controls are validated again.
UpdateAuthState ==
  /\ adPage = "smtp" /\ ~Checking
  /\ adAuth' = ~adAuth /\ adEnabled' = ~adAuth
  /\ notMatching' = (adAuth' /\ adConfirm # adPassword)
  /\ UNCHANGED <<adPage, username, adPassword, adConfirm, adBlamed, updateExisting, adError,
                 committed, adRequests, accounts, adRaced>>

\* A form that is not there yet is not saved.
Register ==
  /\ Len(adRequests) < AdMaxRequests
  /\ adPage = "smtp" => ~Checking
  /\ adRequests' = Append(adRequests, Save)
  /\ committed' = FALSE
  /\ UNCHANGED <<adPage, username, adPassword, adConfirm, notMatching, adBlamed, adAuth, adEnabled,
                 updateExisting, adError, accounts, adRaced>>

\* The button.  formValidator wants the credentials to be given both or neither.
Confirm ==
  /\ ~adError /\ ~committed /\ ~AdAnyInvalid
  /\ IF adPage # "creds" \/ (username = Empty <=> adPassword = Empty)
     THEN Register
     ELSE /\ adBlamed' = IF username = Empty THEN "username" ELSE "password"
          /\ UNCHANGED <<adPage, username, adPassword, adConfirm, notMatching, adAuth, adEnabled,
                         updateExisting, adError, committed, adRequests, accounts, adRaced>>

\* The Return key asks less of the page than the button does.
ConfirmOnReturn == ~AdAnyInvalid /\ Register

\* The account page: a click on the report asks again.
CheckForLocalAccount ==
  /\ adPage = "account" /\ Len(adRequests) < AdMaxRequests
  /\ adRequests' = Append(adRequests, Check)
  /\ UNCHANGED <<formVars, updateExisting, adError, committed, accounts, adRaced>>

IsAccount(r) == r.username # Empty

\* Mutant: the account that is there is not looked for.
ValidAnyway(r) == r.auth => r.password = r.confirm

\* CreateOrUpdateAccountCommandValidator, and those of the other two pages.
Valid(r) ==
  /\ r.auth => r.password = r.confirm
  /\ (IsAccount(r) /\ ~r.update) => accounts = {}

\* What was in a request is of no use once it is answered.
Answered(r, stage, update) ==
  [Check EXCEPT !.kind = r.kind, !.page = r.page, !.stage = stage, !.update = update]

\* A check is answered at once, an account is validated first.  Two accounts are one too
\* many for the query that looks for the account.
Serve ==
  /\ \E i \in DOMAIN adRequests :
       LET r == adRequests[i] IN
       /\ r.stage = "sent"
       /\ \E stage \in {IF IsAccount(r) THEN "valid" ELSE "ok", "failed"} :
            /\ stage # "failed" /\ r.kind = "save" => Valid(r)
            /\ stage # "failed" /\ (r.kind = "check" \/ IsAccount(r)) => Cardinality(accounts) <= 1
            /\ adRequests' = [adRequests EXCEPT ![i] =
                 IF stage = "valid" THEN [r EXCEPT !.stage = stage]
                 ELSE Answered(r, stage, r.kind = "check" /\ stage = "ok" /\ accounts # {})]
            /\ adRaced' = (adRaced \/ (stage = "valid" /\
                 \E j \in DOMAIN adRequests : adRequests[j].stage = "valid"))
  /\ UNCHANGED <<formVars, updateExisting, adError, committed, accounts>>

\* The account that is updated is deleted, the new one is validated by its own rules and
\* made: what was deleted stays deleted when it is not.
CreateOrUpdateAccount(r) ==
  LET left == IF r.update THEN {} ELSE accounts IN
  accounts' = IF r.password = "special" THEN left ELSE left \cup {r.username}

\* There has to be an account to delete, and one only; and no other of that name.
Perform ==
  /\ \E i \in DOMAIN adRequests :
       LET r == adRequests[i]
           can == IF r.update THEN Cardinality(accounts) = 1 ELSE r.username \notin accounts IN
       /\ r.stage = "valid"
       /\ IF can THEN CreateOrUpdateAccount(r) ELSE UNCHANGED accounts
       /\ adRequests' = [adRequests EXCEPT ![i] =
            Answered(r, IF can /\ r.password # "special" THEN "ok" ELSE "failed", FALSE)]
  /\ UNCHANGED <<formVars, updateExisting, adError, committed, adRaced>>

AdAnswer(i, kind, stage) ==
  /\ adRequests[i].kind = kind /\ adRequests[i].stage = stage
  /\ adRequests' = SubSeq(adRequests, 1, i - 1) \o SubSeq(adRequests, i + 1, Len(adRequests))

\* What was stored for the SMTP client has its password confirmed.
Checked ==
  /\ \E i \in DOMAIN adRequests :
       /\ AdAnswer(i, "check", "ok")
       /\ updateExisting' = (adPage = "account" /\ adRequests[i].update)
  /\ IF adPage # "smtp" THEN UNCHANGED <<username, adPassword, adConfirm, adAuth, adEnabled>>
     ELSE /\ username' \in Names /\ adPassword' \in Passwords
          /\ adConfirm' = adPassword' /\ adAuth' \in BOOLEAN /\ adEnabled' = TRUE
  /\ adError' = FALSE
  /\ UNCHANGED <<adPage, notMatching, adBlamed, committed, accounts, adRaced>>

\* The SMTP page starts with an empty form.
NotChecked ==
  /\ \E i \in DOMAIN adRequests : AdAnswer(i, "check", "failed")
  /\ adEnabled' = TRUE
  /\ adError' = (adPage # "smtp")
  /\ UNCHANGED <<adPage, username, adPassword, adConfirm, notMatching, adBlamed, adAuth,
                 updateExisting, committed, accounts, adRaced>>

\* Whether there is an account is not asked again for the page.
Saved ==
  /\ \E i \in DOMAIN adRequests : adRequests[i].page = adPage /\ AdAnswer(i, "save", "ok")
  /\ committed' = TRUE
  /\ UNCHANGED <<formVars, updateExisting, adError, accounts, adRaced>>

NotSaved ==
  /\ \E i \in DOMAIN adRequests :
       \/ AdAnswer(i, "save", "failed")
       \/ adRequests[i].page = "left" /\ AdAnswer(i, "save", "ok")
  /\ UNCHANGED <<formVars, updateExisting, adError, committed, accounts, adRaced>>

Next ==
  \/ OpenAdminPage \/ TypeUsername \/ TypePassword \/ TypeConfirmPassword \/ UpdateAuthState
  \/ Confirm \/ ConfirmOnReturn \/ CheckForLocalAccount \/ Serve \/ Perform
  \/ Checked \/ NotChecked \/ Saved \/ NotSaved

-----------------------------------------------------------------------------

\* No page sends a password that differs from the one that confirms it, by the button or
\* by the Return key, whichever of the two was typed last; the SMTP page may when there
\* is nobody to authenticate.
SentTwice ==
  \A i \in DOMAIN adRequests :
    LET r == adRequests[i] IN (r.kind = "save" /\ r.auth) => r.password = r.confirm

\* The recorder has one local account at most, whatever pages were opened and whatever
\* they had learned of it, as long as two requests were not at the server at once.
OneAccount == ~adRaced => Cardinality(accounts) <= 1
=============================================================================
