------------------------------- MODULE Forms -------------------------------
(***************************************************************************)
(* The dialogs and the wizard in which rows are written: what can be typed *)
(* into one, what the browser and the submit handlers let through, and     *)
(* what the reader of the stored row needs, or takes if it is there.  The   *)
(* text of an input is one of a few values.                                *)
(*                                                                         *)
(* frontend/src/pages: Monitors, Notifications, StatusPages, Users, Login, *)
(* Setup; internal/monitors/checkers.go, internal/notifications,           *)
(* internal/setup/setup.go                                                 *)
(***************************************************************************)
EXTENDS Naturals

CONSTANT MaxEdits  \* bounds the edits of one form

ASSUME FormsAssumption == MaxEdits \in Nat

VARIABLES
  kind,    \* the form, one of FormKinds
  choice,  \* the value of its type select
  form,    \* the state of its inputs, hidden ones included
  step,    \* the step of the wizard; other forms have one
  edits,   \* the edits so far
  sent     \* onSave or fetch has been called with it

formVars == <<kind, choice, form, step, edits, sent>>
-----------------------------------------------------------------------------
(* unset: the key is not in the object.  low: a number below what is of use, *)
(* a password below 8 characters, the record type NS, or a JSON path that    *)
(* begins with "$.".  preset: what a form starts with for its first choice:  *)
(* the port of PostgreSQL, the method GET and the status 200.                *)
Values == {"unset", "empty", "low", "preset", "good"}

All(fields, v) == [f \in fields |-> v]

(* Both objects in one; f's keys go before g's. *)
f ++ g == [x \in DOMAIN f \cup DOMAIN g |-> IF x \in DOMAIN f THEN f[x] ELSE g[x]]

MonitorTypes ==
  {"http", "keyword", "json_api", "port", "ping", "dns", "ssl", "domain_expiry",
   "response_time", "udp"}
ChannelTypes == {"email", "telegram", "slack"}
DatabaseTypes == {"sqlite", "mysql", "postgres"}

FormKinds == {"monitor", "channel", "editChannel", "statusPage", "editStatusPage", "user", "login", "setup"}

TypeOptions ==
  [k \in FormKinds |->
     CASE k = "monitor" -> MonitorTypes
       [] k \in {"channel", "editChannel"} -> ChannelTypes
       [] k = "setup" -> DatabaseTypes
       [] OTHER -> {"none"}]
-----------------------------------------------------------------------------
(* What the forms start with; a stored channel may have been made by       *)
(* another client of the API, so each key may be there or not.             *)
MonitorDefaults ==
  All({"Name", "URL"}, "empty")
    ++ All({"Keyword", "Host", "Port", "Domain", "DNSHost", "DNSRecordType", "MaxResponseTimeMs",
            "KeywordMode", "AcceptedStatuses", "JSONPath", "JSONExpected", "DNSExpected",
            "Headers", "Body", "WarnDaysExpiry"}, "unset")
    ++ All({"Method", "ExpectedStatus"}, "preset")
    ++ All({"IntervalSeconds", "TimeoutSeconds"}, "good")

ConfigKeys == {"to", "recipients", "bot_token", "chat_id", "webhook_url"}

ChannelDefaults == All({"Name"}, "empty") ++ All(ConfigKeys, "unset") ++ All({"NotifyAfterFail"}, "good")

StatusPageDefaults == All({"name", "slug"}, "empty")

UserDefaults == All({"username", "password"}, "empty")

LoginDefaults == All({"username", "password"}, "empty")

SetupDefaults ==
  All({"db_host", "db_user", "db_name", "admin_username", "admin_email"}, "good")
    ++ All({"db_port"}, "preset") ++ All({"admin_password", "admin_password_confirm"}, "empty")

StartChoice ==
  [k \in FormKinds |->
     CASE k = "monitor" -> {"http"}
       [] k = "channel" -> {"email"}
       [] k = "setup" -> {"sqlite"}
       [] OTHER -> TypeOptions[k]]

KeysOf ==
  [t \in ChannelTypes |->
     CASE t = "email" -> {"to", "recipients"}
       [] t = "telegram" -> {"bot_token", "chat_id"}
       [] t = "slack" -> {"webhook_url"}]

Starts(k, t) ==
  CASE k = "monitor" -> {MonitorDefaults}
    [] k = "channel" -> {ChannelDefaults}
    [] k = "editChannel" ->
         {All({"Name", "NotifyAfterFail"}, "good") ++ All(there, "good") ++ All(ConfigKeys, "unset") :
            there \in SUBSET KeysOf[t]}
    [] k = "statusPage" -> {StatusPageDefaults}
    [] k = "editStatusPage" -> {All({"name", "slug"}, "good")}
    [] k = "user" -> {UserDefaults}
    [] k = "login" -> {LoginDefaults}
    [] k = "setup" -> {SetupDefaults}
-----------------------------------------------------------------------------
(* The inputs that are rendered, by their attributes: required, a number   *)
(* with a minimum, a number that is required and has none, an optional     *)
(* number or text, a select with an option that does not work (select) and *)
(* with none (options).                                                    *)
NeedsURL == {"http", "keyword", "json_api", "response_time"}
NeedsHost == {"port", "ping", "udp"}
NeedsDomain == {"ssl", "domain_expiry"}

URLInput(t) == IF t \in NeedsURL THEN All({"URL"}, "required") ELSE <<>>
HTTPInputs(t) ==
  CASE t = "http" -> All({"Method"}, "options") ++ All({"AcceptedStatuses"}, "text")
    [] t = "response_time" -> All({"Method"}, "options") ++ All({"ExpectedStatus"}, "optional")
    [] OTHER -> <<>>
KeywordInputs(t) ==
  IF t = "keyword" THEN All({"Keyword"}, "required") ++ All({"KeywordMode"}, "options") ELSE <<>>
JSONInputs(t) == IF t = "json_api" THEN All({"JSONPath", "JSONExpected"}, "text") ELSE <<>>
(* A mutant of HostInputs: the attribute required is missing. *)
HostInputsOptional(t) ==
  IF t \notin NeedsHost THEN <<>> ELSE All({"Host"}, "text") ++ All({"Port"}, "number")

HostInputs(t) ==
  IF t \notin NeedsHost THEN <<>>
  ELSE IF t = "ping" THEN All({"Host"}, "required")
  ELSE All({"Host"}, "required") ++ All({"Port"}, "number")
DomainInput(t) == IF t \in NeedsDomain THEN All({"Domain"}, "required") ELSE <<>>
DNSInputs(t) ==
  IF t # "dns" THEN <<>>
  ELSE All({"DNSHost"}, "required") ++ All({"DNSRecordType"}, "select")
         ++ All({"DNSExpected"}, "text")
ThresholdInput(t) == IF t = "response_time" THEN All({"MaxResponseTimeMs"}, "optional") ELSE <<>>
SchedulingInputs == All({"IntervalSeconds", "TimeoutSeconds"}, "minimum")

MonitorInputs(t) ==
  All({"Name"}, "required") ++ URLInput(t) ++ HTTPInputs(t) ++ KeywordInputs(t) ++ JSONInputs(t)
    ++ HostInputs(t) ++ DomainInput(t) ++ DNSInputs(t) ++ ThresholdInput(t) ++ SchedulingInputs

ChannelInputs(t) ==
  All({"Name"} \cup (KeysOf[t] \ {"recipients"}), "required") ++ All({"NotifyAfterFail"}, "minimum")

StatusPageInputs == All({"name", "slug"}, "required")

UserInputs == All({"username", "password"}, "required")

LoginInputs == All({"username", "password"}, "required")

DatabaseInputs(t) ==
  IF t = "sqlite" THEN <<>> ELSE All({"db_host", "db_port", "db_user", "db_name"}, "required")

AdminInputs ==
  All({"admin_username", "admin_email", "admin_password", "admin_password_confirm"}, "required")

Inputs ==
  CASE kind = "monitor" -> MonitorInputs(choice)
    [] kind \in {"channel", "editChannel"} -> ChannelInputs(choice)
    [] kind \in {"statusPage", "editStatusPage"} -> StatusPageInputs
    [] kind = "user" -> UserInputs
    [] kind = "login" -> LoginInputs
    [] kind = "setup" -> IF step = 1 THEN DatabaseInputs(choice) ELSE AdminInputs

(* The constraint validation of the browser, before onSubmit is called. *)
Valid ==
  \A f \in DOMAIN Inputs :
    /\ Inputs[f] \in {"required", "number"} => form[f] \notin {"unset", "empty"}
    /\ Inputs[f] = "minimum" => form[f] # "low"

(* What one edit leaves in an input.  An emptied number becomes +'' = 0. *)
Typed(rule, f) ==
  CASE rule \in {"number", "minimum", "optional", "select"} -> {"low", "good"}
    [] rule = "options" -> {"good"}
    [] f \in {"admin_password", "admin_password_confirm", "JSONPath"} -> {"empty", "low", "good"}
    [] OTHER -> {"empty", "good"}
-----------------------------------------------------------------------------
FormInit ==
  /\ kind \in FormKinds
  /\ choice \in StartChoice[kind]
  /\ form \in Starts(kind, choice)
  /\ step = 1
  /\ edits = 0
  /\ sent = FALSE

Edits ==
  /\ ~sent
  /\ edits < MaxEdits
  /\ edits' = edits + 1
  /\ UNCHANGED <<kind, step, sent>>

EditInput ==
  /\ Edits
  /\ \E f \in DOMAIN Inputs \ {"name"} : \E v \in Typed(Inputs[f], f) :
       form' = [form EXCEPT ![f] = v]
  /\ UNCHANGED choice

(* On a new page every edit of the name writes the slug again; slugify may *)
(* leave nothing of a name.                                                *)
EditName ==
  /\ kind \in {"statusPage", "editStatusPage"}
  /\ Edits
  /\ \E name \in {"empty", "good"}, slug \in {"empty", "good"} :
       /\ name = "empty" => slug = "empty"
       /\ form' = IF kind = "statusPage" THEN [name |-> name, slug |-> slug]
                  ELSE [form EXCEPT !.name = name]
  /\ UNCHANGED choice

(* Another type: the inputs of the old one keep their values, but the      *)
(* config of a channel starts again.                                       *)
SetType ==
  /\ kind = "setup" => step = 1
  /\ Edits
  /\ \E t \in TypeOptions[kind] \ {choice} : choice' = t
  /\ form' = IF kind \in {"channel", "editChannel"} THEN All(ConfigKeys, "unset") ++ form ELSE form

(* handleNext, and Back. *)
WizardStep ==
  /\ kind = "setup" /\ ~sent
  /\ \/ step = 1 /\ Valid /\ step' = 2
     \/ step = 2 /\ step' = 1
  /\ UNCHANGED <<kind, choice, form, edits, sent>>

(* handleSubmit of the wizard compares the passwords and their length. *)
PasswordsPass ==
  form.admin_password # "low" /\ form.admin_password = form.admin_password_confirm

SendForm ==
  /\ ~sent /\ Valid
  /\ kind = "setup" => step = 2 /\ PasswordsPass
  /\ sent' = TRUE
  /\ UNCHANGED <<kind, choice, form, step, edits>>

FormNext == EditInput \/ EditName \/ SetType \/ WizardStep \/ SendForm

FormSpec == FormInit /\ [][FormNext]_formVars
-----------------------------------------------------------------------------
(* What the checkers need of a monitor, ... *)
CheckReads(t) ==
  {"IntervalSeconds", "TimeoutSeconds"} \cup
  CASE t \in {"http", "json_api"} -> {"URL"}
    [] t = "keyword" -> {"URL", "Keyword"}
    [] t \in {"port", "udp"} -> {"Host", "Port"}
    [] t = "ping" -> {"Host"}
    [] t = "dns" -> {"DNSHost", "DNSRecordType"}
    [] t \in {"ssl", "domain_expiry"} -> {"Domain"}
    [] t = "response_time" -> {"URL", "MaxResponseTimeMs"}

(* (and what they take of it if it is there: no input writes the headers,   *)
(* the body or the days of warning) ...                                     *)
MayRead(t) ==
  CASE t = "http" -> {"Method", "Headers", "Body", "AcceptedStatuses", "ExpectedStatus"}
    [] t = "json_api" -> {"AcceptedStatuses", "ExpectedStatus", "JSONPath", "JSONExpected"}
    [] t = "keyword" -> {"KeywordMode"}
    [] t = "udp" -> {"Body", "JSONExpected"}
    [] t = "dns" -> {"DNSExpected"}
    [] t \in {"ssl", "domain_expiry"} -> {"WarnDaysExpiry"}
    [] OTHER -> {}

(* ... the senders of a channel's config, ... *)
SenderReads(t) ==
  CASE t = "email" -> {"recipients"}
    [] t = "telegram" -> {"chat_id", "bot_token"}
    [] t = "slack" -> {"webhook_url"}

(* ... and validateSetupRequest and buildDSN. *)
SetupReads(t) ==
  {"admin_username", "admin_email", "admin_password"} \cup
  (IF t = "sqlite" THEN {} ELSE {"db_host", "db_port", "db_user", "db_name"})

Reads ==
  CASE kind = "monitor" -> CheckReads(choice)
    [] kind \in {"channel", "editChannel"} -> SenderReads(choice)
    [] kind = "setup" -> SetupReads(choice)
    [] OTHER -> DOMAIN form

Usable(f) == form[f] = "good" \/ (form[f] = "preset" /\ choice = "postgres")

(* What is not there: an emptied status is 0, which stands for 200. *)
Blank(f) == form[f] \in {"unset", "empty", "preset"} \/ (f = "ExpectedStatus" /\ form[f] = "low")

(* What the user typed and still sees. *)
AsTyped(f) == f \in DOMAIN Inputs /\ form[f] = "good"

(* What was typed for another type, and is read although it is not shown. *)
LeftOver(f) ==
  <<choice, f>> \in {<<"http", "ExpectedStatus">>, <<"json_api", "ExpectedStatus">>,
                    <<"json_api", "AcceptedStatuses">>, <<"udp", "JSONExpected">>}

(* The forms that are accepted and then do not work. *)
KnownGap(f) ==
  \/ LeftOver(f)                                          \* waits for the other type's answer
  \/ f = "JSONPath" /\ form[f] = "low"                    \* the placeholder "$.status"
  \/ choice = "email" /\ f = "recipients"                 \* the form writes "to"
  \/ f = "DNSRecordType" /\ form[f] \in {"unset", "low"}  \* shown as A, sent as nothing; NS
  \/ f = "MaxResponseTimeMs" /\ form[f] \in {"unset", "low"} \* shown as 1000, stored as 0
  \/ f = "Port" /\ form[f] = "low"                        \* an emptied number is port 0
  \/ choice = "mysql" /\ form[f] = "preset"               \* 5432 is kept for MySQL

FormTypeOK ==
  /\ kind \in FormKinds
  /\ choice \in TypeOptions[kind]
  /\ \A f \in DOMAIN form : form[f] \in Values
  /\ step \in 1..2
  /\ edits \in 0..MaxEdits
  /\ sent \in BOOLEAN

(* Whatever the order of the edits and changes of type, a form that was    *)
(* sent has in it what the checker, the sender, the login or the setup     *)
(* needs of it, a monitor nothing that its checker takes from an input of  *)
(* another type, and a channel nothing of another type's secrets; but for  *)
(* the gaps listed above.                                                  *)
SentFormsWork ==
  sent =>
    /\ \A f \in Reads : Usable(f) \/ KnownGap(f)
    /\ kind = "monitor" => \A f \in MayRead(choice) : Blank(f) \/ AsTyped(f) \/ KnownGap(f)
    /\ kind \in {"channel", "editChannel"} => \A f \in ConfigKeys \ KeysOf[choice] : form[f] = "unset"
=============================================================================
