------------------------------ MODULE Dialogs ------------------------------
(* The dialogs of the bot, src/bot/handlers/: a state and a dictionary of   *)
(* answers of each user in Redis (aiogram's FSM), read and written by every *)
(* handler on its way.                                                      *)
(*                                                                          *)
(* Updates of one user are handled by tasks that run side by side.  A       *)
(* handler is chosen by the state found on arrival; update_data reads the   *)
(* whole dictionary and writes it back; clear() drops the state, then the   *)
(* answers.  All dialogs share one dictionary, and an abandoned one leaves  *)
(* its answers there.  One user; an answer is the visit it was given in.    *)
EXTENDS Integers, Sequences, FiniteSets

CONSTANTS
  Dialog,     \* the dialogs the user opens
  Hands,      \* most updates handled at once
  MostVisits, \* bound of the dialogs opened
  MostTroubles \* bound of the handlers that cross another or fail

VARIABLES
  state,    \* FSM state: dialog, step, and the visit it belongs to
  given,    \* FSM data: key -> visit it was written in, 0 if absent
  hand,     \* hand -> what its handler still has to do, and what it read
  visits,   \* dialogs opened so far (observed, not stored)
  saved,    \* visits that stored what was asked for (observed)
  again,    \* visits that stored it more than once (observed)
  foreign,  \* <<visit, key, visit>>: stored an answer of another (observed)
  crossed,  \* visits that had handlers at the same time (observed)
  cut,      \* visits with a handler that did not finish (observed)
  stored,   \* dialogs that ever stored something (observed)
  troubles  \* counts against MostTroubles

dialogVars ==
  <<state, given, hand, visits, saved, again, foreign, crossed, cut, stored, troubles>>

-----------------------------------------------------------------------------
(* The forms.  A step takes an answer of a kind, writes keys, and leads to  *)
(* one of the next steps; "end" stores what was asked for.                  *)

Step(answer, writes, next) ==
  [kind |-> answer, writes |-> writes, next |-> next, skips |-> FALSE, shows |-> FALSE]

\* An answer that may be skipped without a write.
Optional(answer, writes, next) == [Step(answer, writes, next) EXCEPT !.skips = TRUE]

\* A step that shows the answers so far before it goes on.
Shown(answer, writes, next) == [Step(answer, writes, next) EXCEPT !.shows = TRUE]

\* How a dialog begins, whether it clears, what it writes and its first
\* steps; and which answers it uses in the end.
Form(clears, asks, opens, steps, needs, takes) ==
  [clears |-> clears, asks |-> asks, opens |-> opens, steps |-> steps,
   needs |-> needs,   \* data["key"]: without it the handler ends at once
   takes |-> takes,   \* data.get("key")
   late |-> FALSE,    \* clears before the result is used
   row |-> {},        \* names the row changed: without it none is
   keeps |-> TRUE]    \* what is stored is committed

\* add_cargo_start ... cargo_confirm_yes.  A date without a time resets the
\* time, which is then asked for and may be skipped.
CargoForm == Form(FALSE, {}, {"from_city"},
  [from_city |-> Step("button", {"from_city"}, {"to_city"}),
   to_city |-> Step("button", {"to_city"}, {"cargo_type"}),
   cargo_type |-> Step("text", {"cargo_type"}, {"weight"}),
   weight |-> Step("text", {"weight"}, {"price"}),
   price |-> Step("text", {"price"}, {"load_date"}),
   load_date |-> Step("text", {"load_date", "load_time"}, {"load_time", "comment"}),
   load_time |-> Optional("text", {"load_time"}, {"comment"}),
   comment |-> Shown("text", {"comment"}, {"confirm"}),
   confirm |-> Step("button", {}, {"end"})],
  {"from_city", "to_city", "cargo_type", "weight", "price"}, {"load_date", "load_time", "comment"})

\* edit_price_start, edit_price_save and the like for date, time and comment
EditCargo == [Form(FALSE, {"edit_cargo_id"}, {"value"},
  [value |-> Step("text", {}, {"end"})], {}, {"edit_cargo_id"})
  EXCEPT !.row = {"edit_cargo_id"}]

\* nlp_voice_detect keeps what it heard under another key than
\* nlp_cargo_confirm reads.
VoiceCargo == Form(TRUE, {"parsed_cargo"}, {"wait_confirm"},
  [wait_confirm |-> Step("button", {}, {"end"})], {"nlp_parsed"}, {})

\* upload_ttn_start, upload_ttn_photo
CargoTracking == [Form(FALSE, {"cargo_id"}, {"wait_ttn_photo"},
  [wait_ttn_photo |-> Step("photo", {}, {"end"})], {}, {"cargo_id"})
  EXCEPT !.row = {"cargo_id"}]

\* As if "any city" were kept by writing nothing.
AnyCityUnwritten == Optional("text", {"to_city"}, {"end"})

\* search_to writes None for any city.
AnyCityWritten == Step("text", {"to_city"}, {"end"})

\* start_search ... do_search
SearchCargo == Form(FALSE, {}, {"from_city"},
  [from_city |-> Step("text", {"from_city"}, {"to_city"}),
   to_city |-> AnyCityWritten], {}, {"from_city", "to_city"})

\* add_subscription ... save_subscription, which commits a session that is
\* already closed.
SubscribeRoute == [Form(FALSE, {}, {"from_city"},
  [from_city |-> Step("button", {"from_city"}, {"to_city"}),
   to_city |-> Step("button", {"to_city"}, {"end"})], {}, {"from_city", "to_city"})
  EXCEPT !.keeps = FALSE]

\* start_find_truck ... _do_search
FindTruck == [Form(FALSE, {}, {"route"},
  [route |-> Step("text", {"from_city", "to_city"}, {"weight"}),
   weight |-> Step("text", {"weight"}, {"truck_type"}),
   truck_type |-> Optional("text", {"truck_type"}, {"end"})],
  {}, {"from_city", "to_city", "weight", "truck_type"}) EXCEPT !.late = TRUE]

\* start_rating ... save_rating
RateForm == Form(FALSE, {"cargo_id", "to_user_id"}, {"score"},
  [score |-> Step("button", {"score"}, {"comment"}),
   comment |-> Step("text", {"comment"}, {"end"})],
  {"cargo_id", "to_user_id", "score"}, {"comment"})

\* start_chat, reply_chat, send_chat_message
ChatForm == Form(FALSE, {"cargo_id", "to_user_id"}, {"message"},
  [message |-> Step("text", {}, {"end"})], {"cargo_id", "to_user_id"}, {})

\* start_report ... report_description
ReportForm == Form(FALSE, {}, {"user_id"},
  [user_id |-> Step("text", {"to_user_id"}, {"report_type"}),
   report_type |-> Step("button", {"report_type"}, {"description"}),
   description |-> Step("text", {}, {"end"})], {"to_user_id", "report_type"}, {})

\* start_verify, verify_phone, verify_code
VerifyForm == Form(FALSE, {}, {"phone"},
  [phone |-> Step("text", {"phone", "code"}, {"code"}),
   code |-> Step("text", {}, {"end"})], {"code"}, {})

\* start_claim ... set_claim_amount
ClaimForm == Form(FALSE, {"to_company_id"}, {"claim_type"},
  [claim_type |-> Step("button", {"claim_type"}, {"title"}),
   title |-> Step("text", {"title"}, {"description"}),
   description |-> Step("text", {"description"}, {"amount"}),
   amount |-> Step("text", {}, {"end"})],
  {"to_company_id", "claim_type", "title", "description"}, {})

\* start_driver_verification, driver_license_photo, driver_sts_photo
DriverVerification == Form(FALSE, {}, {"license_photo"},
  [license_photo |-> Step("photo", {"license_file_id"}, {"sts_photo"}),
   sts_photo |-> Step("photo", {}, {"end"})], {}, {"license_file_id"})

\* start_add_truck ... add_truck_save
AddTruck == Form(TRUE, {}, {"body_type"},
  [body_type |-> Step("button", {"body_type"}, {"capacity_tons"}),
   capacity_tons |-> Step("text", {"capacity_tons"}, {"location_city"}),
   location_city |-> Step("text", {"location_city"}, {"volume_m3"}),
   volume_m3 |-> Step("text", {"volume_m3"}, {"plate_number"}),
   plate_number |-> Shown("text", {"plate_number"}, {"confirm"}),
   confirm |-> Step("button", {}, {"end"})],
  {"body_type", "capacity_tons"}, {"volume_m3", "location_city", "plate_number"})

\* start_vehicle_intake ... confirm_vehicle
VehicleIntake == Form(TRUE, {}, {"choose_mode"},
  [choose_mode |-> Step("button", {}, {"wait_text", "wait_sts_photo", "wait_truck_photo"}),
   wait_text |-> Step("text", {"parsed"}, {"confirm_parsed"}),
   wait_sts_photo |-> Step("photo", {"parsed"}, {"confirm_parsed", "choose_mode"}),
   wait_truck_photo |-> Step("photo", {}, {"end", "choose_mode"}),
   confirm_parsed |-> Step("button", {}, {"end", "wait_text"})], {}, {"parsed"})

\* _show_ai_menu, choose_mode, process_ai_text
AIAssistant == Form(FALSE, {}, {"choose_mode"},
  [choose_mode |-> Step("button", {"mode"}, {"wait_text"}),
   wait_text |-> Step("text", {}, {"end"})], {}, {"mode"})

\* _start_tracking, got_phone, got_location_first
TrackingState == [Form(FALSE, {}, {"wait_phone"},
  [wait_phone |-> Step("contact", {"phone"}, {"wait_location"}),
   wait_location |-> Step("location", {}, {"end"})], {}, {"phone"}) EXCEPT !.late = TRUE]

\* start_feedback, get_message, confirm_yes
FeedbackForm == Form(FALSE, {}, {"message"},
  [message |-> Step("text", {"text"}, {"confirm"}),
   confirm |-> Step("button", {}, {"end"})], {"text"}, {})

\* start_onboarding ... onboarding_company; every answer goes to the user's row
\* at once, and a private person ends before the tax number.
Onboarding == Form(TRUE, {}, {"role"},
  [role |-> Step("button", {"role"}, {"contact"}),
   contact |-> Shown("contact", {}, {"legal_type", "inn", "role"}),
   legal_type |-> Step("text", {}, {"inn", "end"}),
   inn |-> Step("text", {}, {"company"}),
   company |-> Step("text", {}, {"end"})], {}, {})

\* start_verification ... finalize_verification.  Its button "skip" stores
\* under the bot's own id and fails.
LegalVerification == Form(FALSE, {}, {"inn"},
  [inn |-> Step("text", {}, {"ogrn"}),
   ogrn |-> Step("text", {}, {"director"}),
   director |-> Step("text", {}, {"doc"}),
   doc |-> Step("photo", {}, {"end"})], {}, {})

\* start_legal_check, process_inn
LegalCheck == [Form(FALSE, {}, {"inn"},
  [inn |-> Step("text", {}, {"end"})], {}, {}) EXCEPT !.late = TRUE]

\* edit_phone, save_phone, edit_company, save_company
ProfileEdit == Form(FALSE, {}, {"phone", "company"},
  [phone |-> Step("text", {}, {"end"}), company |-> Step("text", {}, {"end"})], {}, {})

Table ==
  [cargo |-> CargoForm, edit |-> EditCargo, voice |-> VoiceCargo, ttn |-> CargoTracking,
   search |-> SearchCargo, subscribe |-> SubscribeRoute, find |-> FindTruck,
   rate |-> RateForm, chat |-> ChatForm, report |-> ReportForm, verify |-> VerifyForm,
   claim |-> ClaimForm, driver |-> DriverVerification, truck |-> AddTruck,
   vehicle |-> VehicleIntake, assist |-> AIAssistant, track |-> TrackingState,
   feedback |-> FeedbackForm, onboard |-> Onboarding, legal |-> LegalVerification,
   check |-> LegalCheck, profile |-> ProfileEdit]

ASSUME DialogAssumption ==
  /\ Dialog \subseteq DOMAIN Table
  /\ Hands \in Nat \ {0}
  /\ MostVisits \in Nat /\ MostTroubles \in Nat

Steps(d) == Table[d].steps
Written(d) == Table[d].asks \cup UNION {Steps(d)[s].writes : s \in DOMAIN Steps(d)}
Used(d) == Table[d].needs \cup Table[d].takes
Keys == UNION {Written(d) \cup Used(d) : d \in Dialog}

Absent == [k \in Keys |-> 0]
NoState == [dialog |-> "none", step |-> "none", visit |-> 0]
Free == [todo |-> <<>>, dialog |-> "none", visit |-> 0, writes |-> {},
         next |-> "none", copy |-> Absent]

DialogTypeOK ==
  /\ state.visit \in 0..visits
  /\ state = NoState \/ (state.dialog \in Dialog /\ state.step \in DOMAIN Steps(state.dialog))
  /\ given \in [Keys -> 0..visits]
  /\ DOMAIN hand = 1..Hands
  /\ visits \in 0..MostVisits
  /\ saved \cup again \cup cut \subseteq 0..visits /\ crossed \subseteq SUBSET (0..visits)
  /\ foreign \subseteq (1..visits) \X Keys \X (0..visits)
  /\ stored \subseteq Dialog /\ troubles \in 0..MostTroubles

DialogInit ==
  /\ state = NoState /\ given = Absent
  /\ hand = [h \in 1..Hands |-> Free]
  /\ visits = 0
  /\ saved = {} /\ again = {} /\ foreign = {} /\ crossed = {} /\ cut = {} /\ stored = {}
  /\ troubles = 0

-----------------------------------------------------------------------------
(* What a handler does to the state and the answers, in order.              *)

Clears == <<"clear", "wipe">>
Puts(writes) == IF writes = {} THEN <<>> ELSE <<"read", "write">>

\* The first handler of a dialog.  The voice handler clears only a state
\* that is there, and sets its own before its answers.
Opening(d) ==
  (IF Table[d].clears /\ (d = "voice" => state # NoState) THEN Clears ELSE <<>>)
  \o (IF d = "voice" THEN <<"go">> \o Puts(Table[d].asks)
                    ELSE Puts(Table[d].asks) \o <<"go">>)

\* As if the dialog were left open.
LeftOpen(d) == <<"take", "save">>

\* The last handler of a dialog: get_data(), the result, clear().
Ending(d) == IF Table[d].late THEN <<"take">> \o Clears \o <<"save">>
                             ELSE <<"take", "save">> \o Clears

\* The handler of a step.
Handler(d, s, writes, next) ==
  Puts(writes) \o (IF next = "end" THEN Ending(d)
                     ELSE (IF Steps(d)[s].shows THEN <<"show">> ELSE <<>>) \o <<"go">>)

\* A handler begins on the first free hand; who else is busy crosses it.
Begin(h, todo, d, v, writes, next) ==
  LET busy == {g \in 1..Hands : hand[g].todo # <<>>}
  IN /\ h \notin busy /\ 1..(h - 1) \subseteq busy
     /\ hand' = [hand EXCEPT ![h] = [todo |-> todo, dialog |-> d, visit |-> v,
                                    writes |-> writes, next |-> next, copy |-> Absent]]
     /\ IF busy = {} THEN UNCHANGED <<crossed, troubles>>
        ELSE /\ troubles < MostTroubles /\ troubles' = troubles + 1
             /\ crossed' = crossed \cup {{v, hand[g].visit} : g \in busy}

\* The user opens a dialog, whatever the state.  A voice message is heard
\* out of a dialog or in its own.
Open(h, d) ==
  /\ visits < MostVisits
  /\ d = "voice" => state.dialog \in {"none", "voice"}
  /\ \E s \in Table[d].opens :
       Begin(h, Opening(d), d, visits + 1, Table[d].asks, s)
  /\ visits' = visits + 1
  /\ UNCHANGED <<state, given, saved, again, foreign, cut, stored>>

\* As if every photo went to the handler of its state.
PhotoByState(d, s) == TRUE

\* A photo is taken by the first handler that asks for one: the waybill's
\* and the document's with their states, else the licence's, without one,
\* which acts in its state.
PhotoHeard(d, s) ==
  Steps(d)[s].kind = "photo" =>
    <<d, s>> \in {<<"ttn", "wait_ttn_photo">>, <<"legal", "doc">>,
                 <<"driver", "license_photo">>}

\* A handler of a step is chosen by the state found on arrival.
InState(d, s) == state.dialog = d /\ state.step = s

\* A good answer arrives; a bad one is answered and changes nothing.
Answer(h, d, s) ==
  /\ InState(d, s) /\ PhotoHeard(d, s)
  /\ \E next \in Steps(d)[s].next :
       \E writes \in {Steps(d)[s].writes} \cup (IF Steps(d)[s].skips THEN {{}} ELSE {}) :
         Begin(h, Handler(d, s, writes, next), d, state.visit, writes, next)
  /\ UNCHANGED <<state, given, visits, saved, again, foreign, cut, stored>>

\* cancel_flow_cb, cancel_flow_msg and the buttons that say no.
Cancel(h) ==
  /\ state # NoState
  /\ Begin(h, Clears, "none", 0, {}, "none")
  /\ UNCHANGED <<state, given, visits, saved, again, foreign, cut, stored>>

-----------------------------------------------------------------------------
(* One call to Redis or to the database at a time.                          *)

Does(h, op) == hand[h].todo # <<>> /\ Head(hand[h].todo) = op

\* The rest of the handler; a finished one is forgotten.
Rest(h, todo, copy) ==
  hand' = [hand EXCEPT ![h] = IF todo = <<>> THEN Free
                             ELSE [@ EXCEPT !.todo = todo, !.copy = copy]]

Then(h) == Rest(h, Tail(hand[h].todo), hand[h].copy)
observed == <<visits, saved, again, foreign, crossed, cut, stored, troubles>>

\* clear(): the state first, then the answers.
Clear(h) ==
  /\ Does(h, "clear") /\ state' = NoState /\ Then(h)
  /\ UNCHANGED <<given, observed>>

Wipe(h) ==
  /\ Does(h, "wipe") /\ given' = Absent /\ Then(h)
  /\ UNCHANGED <<state, observed>>

\* update_data(): the whole dictionary is read, changed and written back.
ReadAnswers(h) ==
  /\ Does(h, "read") /\ Rest(h, Tail(hand[h].todo), given)
  /\ UNCHANGED <<state, given, observed>>

WriteAnswers(h) ==
  /\ Does(h, "write")
  /\ given' = [k \in Keys |-> IF k \in hand[h].writes THEN hand[h].visit ELSE hand[h].copy[k]]
  /\ Rest(h, Tail(hand[h].todo), Absent)
  /\ UNCHANGED <<state, observed>>

\* set_state().
Go(h) ==
  /\ Does(h, "go")
  /\ state' = [dialog |-> hand[h].dialog, step |-> hand[h].next, visit |-> hand[h].visit]
  /\ Then(h)
  /\ UNCHANGED <<given, observed>>

Complete(h) == \A k \in Table[hand[h].dialog].needs : given[k] # 0

\* get_data(), to show the answers or to use them; without one of those
\* needed the handler ends here.
Show(h) ==
  /\ Does(h, "show")
  /\ IF Complete(h) THEN Then(h) ELSE Rest(h, <<>>, Absent)
  /\ UNCHANGED <<state, given, observed>>

Take(h) ==
  /\ Does(h, "take")
  /\ IF Complete(h) THEN Rest(h, Tail(hand[h].todo), given) ELSE Rest(h, <<>>, Absent)
  /\ UNCHANGED <<state, given, observed>>

\* What was asked for is stored, sent or searched for, and committed.
Save(h) ==
  LET d == hand[h].dialog
      v == hand[h].visit
      kept == Table[d].keeps /\ \A k \in Table[d].row : hand[h].copy[k] # 0
  IN /\ Does(h, "save")
     /\ IF kept
        THEN /\ saved' = saved \cup {v}
             /\ again' = again \cup (saved \cap {v})
             /\ stored' = stored \cup {d}
             /\ foreign' = foreign \cup
                  {<<v, k, hand[h].copy[k]>> :
                     k \in {j \in Used(d) : hand[h].copy[j] \notin {0, v}}}
        ELSE UNCHANGED <<saved, again, foreign, stored>>
     /\ Rest(h, Tail(hand[h].todo), Absent)
     /\ UNCHANGED <<state, given, visits, crossed, cut, troubles>>

\* A call raises, or the bot stops: the rest of the handler is lost.
FailHandler(h) ==
  /\ hand[h].todo # <<>> /\ troubles < MostTroubles
  /\ Rest(h, <<>>, Absent)
  /\ troubles' = troubles + 1
  /\ cut' = cut \cup {hand[h].visit}
  /\ UNCHANGED <<state, given, visits, saved, again, foreign, crossed, stored>>

DialogNext == \E h \in 1..Hands :
  \/ \E d \in Dialog : Open(h, d)
  \/ \E d \in Dialog : \E s \in DOMAIN Steps(d) : Answer(h, d, s)
  \/ Cancel(h)
  \/ Clear(h) \/ Wipe(h) \/ ReadAnswers(h) \/ WriteAnswers(h) \/ Go(h)
  \/ Show(h) \/ Take(h) \/ Save(h)
  \/ FailHandler(h)

DialogSpec == DialogInit /\ [][DialogNext]_dialogVars

-----------------------------------------------------------------------------
\* OneSavePerVisit: what the user filled in once is published, sent or
\* stored once, unless two updates of that very dialog were handled at once
\* (a button tapped twice) or a handler died before it cleared the state.
OneSavePerVisit == \A v \in again : {v} \in crossed \/ v \in cut

\* OwnAnswers: a form left half-way leaves its answers in the common
\* dictionary, and still no later form stores one of them, unless a handler
\* of one of the two crossed another or died; but for the body type of a
\* truck search, which skip_field passes over without a write.
OwnAnswers == \A f \in foreign :
  \/ f[2] = "truck_type"
  \/ {f[1], f[3]} \cap (cut \cup UNION crossed) # {}

\* SavedOnceAndOwn: a visit of a form stores what was answered in it, once.
SavedOnceAndOwn == OneSavePerVisit /\ OwnAnswers

\* DeadEnds: no user can finish a subscription to a route, the publication
\* of a cargo dictated by voice, or the verification of a driver.
DeadEnds == stored \cap {"subscribe", "voice", "driver"} = {}
=============================================================================
