------------------------------ MODULE Reporting ------------------------------
(***************************************************************************)
(* The box in which a page tells what its requests came to: one message or *)
(* one error at a time, the error in the form that its kind asks for       *)
(* (client/src/app/reporting, initialAdmin/src/app/reporting).             *)
(***************************************************************************)
EXTENDS Naturals

VARIABLES
  e,                       \* the error: [status, body], or NoError
  message, style,
  validationErrors,        \* "none" or where they are from
  showMessageInError,
  showMessageFromMessage,
  isHTML,
  last,                    \* what was reported last, or dismissed
  raised                   \* the setter threw an exception

rpVars == <<e, message, style, validationErrors, showMessageInError, showMessageFromMessage,
            isHTML, last, raised>>

\* What a request may fail with: no answer at all, a refusal with or without fields, an
\* error of the server, or a page where JSON was expected.
Errors ==
  {[status |-> 0, body |-> "event"]} \cup
  [status : {400, 500}, body : {"text", "object", "null"}] \cup
  {[status |-> 200, body |-> "page"], [status |-> 0, body |-> "text"]}
NoError == [status |-> 0, body |-> "none"]
Texts == {"m1", "m2"}
NoText == "none"

Init ==
  /\ e = NoError /\ message = NoText /\ style = "none" /\ validationErrors = "none"
  /\ showMessageInError = TRUE /\ showMessageFromMessage = FALSE /\ isHTML = FALSE
  /\ last = <<"dismissed">> /\ raised = FALSE

\* Mutant: the error stays.
ClearTextOnly(err, text, html) == e' = err /\ message' = text /\ isHTML' = (isHTML \/ html)

\* clearMessage, and what is set after it.
ClearMessage(err, text, html) == e' = err /\ message' = text /\ isHTML' = html

\* The two flags are set by the first error whose body is no text, and never reset.  A
\* body that is null makes the setter throw, and the error is shown all the same.
ShowError(err) ==
  /\ ClearMessage(err, NoText, err.body = "page")
  /\ style' = IF err.status = 400 THEN "warning" ELSE "danger"
  /\ validationErrors' = IF err.status = 400 /\ err.body # "null" THEN err.body ELSE "none"
  /\ showMessageInError' =
       (showMessageInError /\ (err.status = 400 \/ err.body = "text"))
  /\ showMessageFromMessage' =
       (showMessageFromMessage \/ (err.status # 400 /\ err.body \notin {"text", "null"}))
  /\ raised' = (err.body = "null")

ErrorMessage == \E err \in Errors : ShowError(err) /\ last' = <<"error", err>>

\* A success or a warning.
TextMessage(kind) ==
  /\ \E text \in Texts : ClearMessage(NoError, text, FALSE) /\ last' = <<kind, text>>
  /\ style' = kind
  /\ raised' = FALSE
  /\ UNCHANGED <<validationErrors, showMessageInError, showMessageFromMessage>>

SuccessMessage == TextMessage("success")
WarningMessage == TextMessage("warning")

\* Something is shown: the button, or a click on the box where there is no button.
BoxShown == e # NoError \/ message # NoText

Dismiss ==
  /\ BoxShown
  /\ ClearMessage(NoError, NoText, FALSE)
  /\ last' = <<"dismissed">> /\ raised' = FALSE
  /\ UNCHANGED <<style, validationErrors, showMessageInError, showMessageFromMessage>>

Next == ErrorMessage \/ SuccessMessage \/ WarningMessage \/ Dismiss

-----------------------------------------------------------------------------

\* The parts of the box, as the template shows them.
Parts ==
  (IF isHTML THEN {<<"page", e>>} ELSE {}) \cup
  (IF isHTML \/ ~BoxShown THEN {} ELSE
     (IF message # NoText THEN {<<style, message>>} ELSE {}) \cup
     (IF e # NoError /\ e.status = 400 THEN {<<"validation", validationErrors>>} ELSE {}) \cup
     (IF message = NoText /\ e.status # 400 THEN
        (IF showMessageInError THEN {<<"error", e.body>>} ELSE {}) \cup
        (IF showMessageFromMessage THEN {<<"details", e>>} ELSE {}) \cup
        (IF ~showMessageInError /\ ~showMessageFromMessage THEN {<<"see logs">>} ELSE {})
      ELSE {}))

\* What the box shows is what was reported last, in its own form, and nothing of what
\* was reported before: a text, or the fields that were refused, or an error.  In which
\* words an error is told is left open: the flags of an earlier one have their part.
ShowsTheLast ==
  CASE last[1] = "dismissed" -> Parts = {}
    [] last[1] \in {"success", "warning"} -> Parts = {last}
    [] last[1] = "error" ->
         /\ Parts # {} /\ message = NoText
         /\ last[2].status = 400 =>
              Parts = {<<"validation", IF raised THEN "none" ELSE last[2].body>>}
         /\ isHTML = (last[2].body = "page")
         /\ \A p \in Parts : p[1] \in {"error"} => p[2] = last[2].body
=============================================================================
