---------------------------- MODULE DialogsProofs ----------------------------
(***************************************************************************)
(* Theorems of the bot's dialogs (Dialogs), and then of what the services   *)
(* promise together (MCServices), for every value of their constants.       *)
(*                                                                          *)
(* What a handler still has to do is one of a few lists of calls (Todos),   *)
(* in one of four phases: it will read the dictionary, write it back, pass  *)
(* on, or store.  A visit that no handler crosses has one handler at a      *)
(* time; the answers it was asked for are its own in the dictionary, in     *)
(* what the handler has read and in what it stores (Own), because every     *)
(* way through the form asks for them (Known); and it stores once, because  *)
(* what it has stored is still being cleared away when the next update      *)
(* finds no state to be answered in (Once).                                 *)
(***************************************************************************)
EXTENDS MCServices, ServicesProofs, SequenceTheorems, TLAPS

-----------------------------------------------------------------------------
(* The dialogs of the bot (Dialogs).                                        *)

\* S holds every step of dialog d that may be reached with no answer k in it.
Unasked(d, k, S) ==
  /\ k \in Table[d].asks \/ (Table[d].clears /\ d # "voice") \/ Table[d].opens \subseteq S
  /\ \A s \in S \cap DOMAIN Steps(d) :
       (k \in Steps(d)[s].writes /\ ~Steps(d)[s].skips) \/ Steps(d)[s].next \subseteq S

\* The answers of its own, or none, that a visit of d has on the way to s.
Known(d, s) == {k \in Used(d) : \E S : Unasked(d, k, S) /\ s \notin S}

LEMMA KnownAtStart ==
  ASSUME NEW d, ~(Table[d].clears /\ d # "voice"), NEW s \in Table[d].opens
  PROVE  Known(d, s) \subseteq Table[d].asks
BY DEF Known, Unasked

LEMMA KnownAtNext ==
  ASSUME NEW d, NEW s \in DOMAIN Steps(d), NEW next \in Steps(d)[s].next,
         NEW writes \in {Steps(d)[s].writes} \cup (IF Steps(d)[s].skips THEN {{}} ELSE {})
  PROVE  Known(d, next) \subseteq Known(d, s) \cup writes
<1> SUFFICES ASSUME NEW k \in Known(d, next), k \notin writes PROVE k \in Known(d, s)
  OBVIOUS
<1>1. PICK S : Unasked(d, k, S) /\ next \notin S
  BY DEF Known
<1>2. s \notin S
  BY <1>1 DEF Unasked
<1> QED BY <1>1, <1>2 DEF Known

LEMMA KnownSo ==
  ASSUME NEW d, NEW k \in Used(d), NEW S, Unasked(d, k, S), "end" \notin S
  PROVE  k \in Known(d, "end")
BY DEF Known

LEMMA CargoKnown == Used("cargo") \subseteq Known("cargo", "end")
<1> DEFINE f == CargoForm
<1>0. Table["cargo"] = f /\ Steps("cargo") = f.steps
  BY DEF Table, Steps
<1> DEFINE first == {"from_city"}
           both == first \cup {"to_city"}
           third == both \cup {"cargo_type"}
           fourth == third \cup {"weight"}
           fifth == fourth \cup {"price"}
           sixth == fifth \cup {"load_date"}
           most == sixth \cup {"load_time", "comment"}
<1>1. Unasked("cargo", "from_city", first) /\ Unasked("cargo", "to_city", both)
      /\ Unasked("cargo", "cargo_type", third)
  BY <1>0 DEF Unasked, CargoForm, Form, Step, Optional, Shown
<1>2. Unasked("cargo", "weight", fourth) /\ Unasked("cargo", "price", fifth)
  BY <1>0 DEF Unasked, CargoForm, Form, Step, Optional, Shown
<1>3. Unasked("cargo", "load_date", sixth) /\ Unasked("cargo", "load_time", sixth)
  BY <1>0 DEF Unasked, CargoForm, Form, Step, Optional, Shown
<1>4. Unasked("cargo", "comment", most)
  BY <1>0 DEF Unasked, CargoForm, Form, Step, Optional, Shown
<1>5. Used("cargo") = {"from_city", "to_city", "cargo_type", "weight", "price",
                       "load_date", "load_time", "comment"}
  BY <1>0 DEF Used, CargoForm, Form
<1> QED BY <1>1, <1>2, <1>3, <1>4, <1>5, KnownSo

\* Dialogs with one question, or whose answers come with the button that opens
\* them, and those that begin with an empty dictionary.
LEMMA AskedKnown ==
  ASSUME NEW d \in {"edit", "ttn", "chat", "truck", "vehicle", "onboard", "legal",
                    "check", "profile"}
  PROVE  Used(d) \subseteq Known(d, "end")
<1>1. CASE d \in {"edit", "ttn", "chat"}
  <2>1. Used(d) \subseteq Table[d].asks
    BY <1>1 DEF Used, Table, Form, EditCargo, CargoTracking, ChatForm
  <2>2. \A k \in Used(d) : Unasked(d, k, {})
    BY <2>1 DEF Unasked
  <2> QED BY <2>2, KnownSo
<1>2. CASE d \in {"truck", "vehicle", "onboard"}
  <2>1. Table[d].clears /\ d # "voice"
    BY <1>2 DEF Table, Form, AddTruck, VehicleIntake, Onboarding
  <2>2. \A k \in Used(d) : Unasked(d, k, {})
    BY <2>1 DEF Unasked
  <2> QED BY <2>2, KnownSo
<1>3. CASE d \in {"legal", "check", "profile"}
  <2>1. Used(d) = {}
    BY <1>3 DEF Used, Table, Form, LegalVerification, LegalCheck, ProfileEdit
  <2> QED BY <2>1
<1> QED BY <1>1, <1>2, <1>3

LEMMA RoutesKnown ==
  /\ Used("search") \subseteq Known("search", "end")
  /\ Used("subscribe") \subseteq Known("subscribe", "end")
  /\ Used("find") \ {"truck_type"} \subseteq Known("find", "end")
<1>1. ASSUME NEW d \in {"search", "subscribe"}
      PROVE  /\ Unasked(d, "from_city", {"from_city"})
             /\ Unasked(d, "to_city", {"from_city", "to_city"})
             /\ Used(d) = {"from_city", "to_city"}
  <2>1. CASE d = "search"
    BY <2>1 DEF Unasked, Used, Steps, Table, SearchCargo, AnyCityWritten, Form, Step
  <2>2. CASE d = "subscribe"
    BY <2>2 DEF Unasked, Used, Steps, Table, SubscribeRoute, Form, Step
  <2> QED BY <1>1, <2>1, <2>2
<1>2. /\ Unasked("find", "from_city", {"route"}) /\ Unasked("find", "to_city", {"route"})
      /\ Unasked("find", "weight", {"route", "weight"})
      /\ Used("find") = {"from_city", "to_city", "weight", "truck_type"}
  BY DEF Unasked, Used, Steps, Table, FindTruck, Optional, Form, Step
<1> QED BY <1>1, <1>2, KnownSo

LEMMA MessagesKnown ==
  /\ Used("rate") \subseteq Known("rate", "end")
  /\ Used("report") \subseteq Known("report", "end")
  /\ Used("claim") \subseteq Known("claim", "end")
  /\ Used("feedback") \subseteq Known("feedback", "end")
<1>1. /\ Unasked("rate", "cargo_id", {}) /\ Unasked("rate", "to_user_id", {})
      /\ Unasked("rate", "score", {"score"}) /\ Unasked("rate", "comment", {"score", "comment"})
      /\ Used("rate") = {"cargo_id", "to_user_id", "score", "comment"}
  BY DEF Unasked, Used, Steps, Table, RateForm, Form, Step
<1>2. /\ Unasked("report", "to_user_id", {"user_id"})
      /\ Unasked("report", "report_type", {"user_id", "report_type"})
      /\ Used("report") = {"to_user_id", "report_type"}
  BY DEF Unasked, Used, Steps, Table, ReportForm, Form, Step
<1>3. /\ Unasked("claim", "to_company_id", {}) /\ Unasked("claim", "claim_type", {"claim_type"})
      /\ Unasked("claim", "title", {"claim_type", "title"})
      /\ Unasked("claim", "description", {"claim_type", "title", "description"})
      /\ Used("claim") = {"to_company_id", "claim_type", "title", "description"}
  BY DEF Unasked, Used, Steps, Table, ClaimForm, Form, Step
<1>4. Unasked("feedback", "text", {"message"}) /\ Used("feedback") = {"text"}
  BY DEF Unasked, Used, Steps, Table, FeedbackForm, Form, Step
<1> QED BY <1>1, <1>2, <1>3, <1>4, KnownSo

LEMMA ProofsKnown ==
  /\ Used("verify") \subseteq Known("verify", "end")
  /\ Used("driver") \subseteq Known("driver", "end")
  /\ Used("assist") \subseteq Known("assist", "end")
  /\ Used("track") \subseteq Known("track", "end")
<1>1. Unasked("verify", "code", {"phone"}) /\ Used("verify") = {"code"}
  BY DEF Unasked, Used, Steps, Table, VerifyForm, Form, Step
<1>2. Unasked("driver", "license_file_id", {"license_photo"}) /\ Used("driver") = {"license_file_id"}
  BY DEF Unasked, Used, Steps, Table, DriverVerification, Form, Step
<1>3. Unasked("assist", "mode", {"choose_mode"}) /\ Used("assist") = {"mode"}
  BY DEF Unasked, Used, Steps, Table, AIAssistant, Form, Step
<1>4. Unasked("track", "phone", {"wait_phone"}) /\ Used("track") = {"phone"}
  BY DEF Unasked, Used, Steps, Table, TrackingState, Form, Step
<1> QED BY <1>1, <1>2, <1>3, <1>4, KnownSo

\* Every answer a dialog uses in the end is its own by then, but for the body
\* type of a truck search.
LEMMA KnownAtEnd ==
  ASSUME DialogAssumption, NEW d \in Dialog, d # "voice"
  PROVE  Used(d) \ {"truck_type"} \subseteq Known(d, "end")
<1>1. DOMAIN Table =
        {"cargo", "edit", "voice", "ttn", "search", "subscribe", "find", "rate", "chat",
         "report", "verify", "claim", "driver", "truck", "vehicle", "assist", "track",
         "feedback", "onboard", "legal", "check", "profile"}
  BY DEF Table
<1> QED BY <1>1, CargoKnown, AskedKnown, RoutesKnown, MessagesKnown, ProofsKnown
        DEF DialogAssumption

\* A form begins and goes on at its own steps, and none writes nlp_parsed.
Sound(f) ==
  /\ f.opens \subseteq DOMAIN f.steps
  /\ \A s \in DOMAIN f.steps : f.steps[s].next \subseteq DOMAIN f.steps \cup {"end"}
  /\ "nlp_parsed" \notin f.asks
  /\ \A s \in DOMAIN f.steps : "nlp_parsed" \notin f.steps[s].writes

LEMMA FormsAreSound == ASSUME DialogAssumption, NEW d \in Dialog PROVE Sound(Table[d])
<1>1. Sound(CargoForm)
  BY DEF Sound, CargoForm, Form, Step, Optional, Shown
<1>2. Sound(EditCargo)
  BY DEF Sound, EditCargo, Form, Step, Optional, Shown
<1>3. Sound(VoiceCargo)
  BY DEF Sound, VoiceCargo, Form, Step, Optional, Shown
<1>4. Sound(CargoTracking)
  BY DEF Sound, CargoTracking, Form, Step, Optional, Shown
<1>5. Sound(SearchCargo)
  BY DEF Sound, SearchCargo, Form, Step, Optional, Shown, AnyCityWritten
<1>6. Sound(SubscribeRoute)
  BY DEF Sound, SubscribeRoute, Form, Step, Optional, Shown
<1>7. Sound(FindTruck)
  BY DEF Sound, FindTruck, Form, Step, Optional, Shown
<1>8. Sound(RateForm)
  BY DEF Sound, RateForm, Form, Step, Optional, Shown
<1>9. Sound(ChatForm)
  BY DEF Sound, ChatForm, Form, Step, Optional, Shown
<1>10. Sound(ReportForm)
  BY DEF Sound, ReportForm, Form, Step, Optional, Shown
<1>11. Sound(VerifyForm)
  BY DEF Sound, VerifyForm, Form, Step, Optional, Shown
<1>12. Sound(ClaimForm)
  BY DEF Sound, ClaimForm, Form, Step, Optional, Shown
<1>13. Sound(DriverVerification)
  BY DEF Sound, DriverVerification, Form, Step, Optional, Shown
<1>14. Sound(AddTruck)
  BY DEF Sound, AddTruck, Form, Step, Optional, Shown
<1>15. Sound(VehicleIntake)
  BY DEF Sound, VehicleIntake, Form, Step, Optional, Shown
<1>16. Sound(AIAssistant)
  BY DEF Sound, AIAssistant, Form, Step, Optional, Shown
<1>17. Sound(TrackingState)
  BY DEF Sound, TrackingState, Form, Step, Optional, Shown
<1>18. Sound(FeedbackForm)
  BY DEF Sound, FeedbackForm, Form, Step, Optional, Shown
<1>19. Sound(Onboarding)
  BY DEF Sound, Onboarding, Form, Step, Optional, Shown
<1>20. Sound(LegalVerification)
  BY DEF Sound, LegalVerification, Form, Step, Optional, Shown
<1>21. Sound(LegalCheck)
  BY DEF Sound, LegalCheck, Form, Step, Optional, Shown
<1>22. Sound(ProfileEdit)
  BY DEF Sound, ProfileEdit, Form, Step, Optional, Shown
<1>23. DOMAIN Table = {"cargo", "edit", "voice", "ttn", "search", "subscribe", "find", "rate", "chat", "report", "verify", "claim", "driver", "truck", "vehicle", "assist", "track", "feedback", "onboard", "legal", "check", "profile"}
  BY DEF Table
<1>24. \A e \in DOMAIN Table : Sound(Table[e])
  BY <1>1, <1>2, <1>3, <1>4, <1>5, <1>6, <1>7, <1>8, <1>9, <1>10, <1>11, <1>12, <1>13, <1>14, <1>15, <1>16, <1>17, <1>18, <1>19, <1>20, <1>21, <1>22, <1>23 DEF Table
<1> QED BY <1>24 DEF DialogAssumption

-----------------------------------------------------------------------------
(* What a handler may still have to do.                                     *)

\* It will set its state; it will show the answers first; the voice handler,
\* its state set; it will end; it clears.
OpenTodos ==
  {<<"clear", "wipe", "read", "write", "go">>, <<"wipe", "read", "write", "go">>,
   <<"read", "write", "go">>, <<"write", "go">>, <<"go">>,
   <<"clear", "wipe", "go">>, <<"wipe", "go">>,
   <<"clear", "wipe", "go", "read", "write">>, <<"wipe", "go", "read", "write">>,
   <<"go", "read", "write">>}
ShowTodos == {<<"read", "write", "show", "go">>, <<"write", "show", "go">>, <<"show", "go">>}
VoiceTodos == {<<"read", "write">>, <<"write">>}
EndTodos ==
  {<<"read", "write", "take", "save", "clear", "wipe">>,
   <<"write", "take", "save", "clear", "wipe">>, <<"take", "save", "clear", "wipe">>,
   <<"save", "clear", "wipe">>,
   <<"read", "write", "take", "clear", "wipe", "save">>,
   <<"write", "take", "clear", "wipe", "save">>, <<"take", "clear", "wipe", "save">>,
   <<"clear", "wipe", "save">>, <<"wipe", "save">>, <<"save">>}
ClearTodos == {<<"clear", "wipe">>, <<"wipe">>}
Todos == OpenTodos \cup ShowTodos \cup VoiceTodos \cup EndTodos \cup ClearTodos

\* Before the dictionary is read, between that and the writing, before the
\* answers are passed on, and before they are stored.
ToRead == {<<"read", "write", "go">>, <<"read", "write", "show", "go">>,
           <<"read", "write", "take", "save", "clear", "wipe">>,
           <<"read", "write", "take", "clear", "wipe", "save">>}
ToWrite == {<<"write", "go">>, <<"write", "show", "go">>,
            <<"write", "take", "save", "clear", "wipe">>,
            <<"write", "take", "clear", "wipe", "save">>}
ToPass == {<<"go">>, <<"show", "go">>, <<"go", "read", "write">>,
           <<"take", "save", "clear", "wipe">>, <<"take", "clear", "wipe", "save">>}
ToStore == {<<"save", "clear", "wipe">>, <<"clear", "wipe", "save">>, <<"wipe", "save">>,
            <<"save">>}

LEMMA TodosBegin ==
  ASSUME NEW t \in Todos
  PROVE  /\ t # <<>> /\ Head(t) \in {"clear", "wipe", "read", "write", "go", "show", "take", "save"}
         /\ t \in ToRead => Head(t) = "read"
         /\ t \in ToWrite => Head(t) = "write"
         /\ t \in ToPass => Head(t) \in {"go", "show", "take"}
         /\ t \in ToStore => t \in EndTodos /\ Head(t) \in {"save", "clear", "wipe"}
         /\ t \in OpenTodos => Head(t) \in {"clear", "wipe", "read", "write", "go"}
         /\ t \in ClearTodos => Head(t) \in {"clear", "wipe"}
BY DEF Todos, OpenTodos, ShowTodos, VoiceTodos, EndTodos, ClearTodos, ToRead, ToWrite, ToPass, ToStore

\* The classes of todo have nothing in common.
LEMMA TodosDiffer ==
  /\ OpenTodos \cap (ShowTodos \cup VoiceTodos \cup EndTodos \cup ClearTodos) = {}
  /\ EndTodos \cap (ShowTodos \cup VoiceTodos \cup ClearTodos) = {}
  /\ ClearTodos \cap (ShowTodos \cup VoiceTodos) = {}
  /\ ShowTodos \cap VoiceTodos = {}
BY DEF OpenTodos, ShowTodos, VoiceTodos, EndTodos, ClearTodos

LEMMA SmallTodos ==
  /\ <<"clear", "wipe">> \in ClearTodos /\ <<"wipe">> \in ClearTodos
  /\ ToStore \subseteq EndTodos
  /\ <<"go">> \in OpenTodos /\ <<"go", "read", "write">> \in OpenTodos
  /\ <<"read", "write">> \in VoiceTodos /\ <<"write">> \in VoiceTodos
BY DEF OpenTodos, VoiceTodos, EndTodos, ClearTodos, ToStore

LEMMA AtClear ==
  ASSUME NEW t \in Todos, Head(t) = "clear"
  PROVE  \/ t \in OpenTodos /\ Tail(t) \in OpenTodos /\ Head(Tail(t)) = "wipe"
         \/ t = <<"clear", "wipe">> /\ Tail(t) = <<"wipe">>
         \/ t = <<"clear", "wipe", "save">> /\ Tail(t) = <<"wipe", "save">>
<1>1. t \in OpenTodos => t \in {<<"clear", "wipe", "read", "write", "go">>, <<"clear", "wipe", "go">>, <<"clear", "wipe", "go", "read", "write">>}
  BY DEF OpenTodos
<1>2. t \in ShowTodos => t \in {}
  BY DEF ShowTodos
<1>3. t \in VoiceTodos => t \in {}
  BY DEF VoiceTodos
<1>4. t \in EndTodos => t \in {<<"clear", "wipe", "save">>}
  BY DEF EndTodos
<1>5. t \in ClearTodos => t \in {<<"clear", "wipe">>}
  BY DEF ClearTodos
<1>6. CASE t = <<"clear", "wipe", "read", "write", "go">>
  <2>1. Tail(t) = <<"wipe", "read", "write", "go">>
    BY <1>6
  <2> QED BY <1>6, <2>1 DEF OpenTodos
<1>7. CASE t = <<"clear", "wipe", "go">>
  <2>1. Tail(t) = <<"wipe", "go">>
    BY <1>7
  <2> QED BY <1>7, <2>1 DEF OpenTodos
<1>8. CASE t = <<"clear", "wipe", "go", "read", "write">>
  <2>1. Tail(t) = <<"wipe", "go", "read", "write">>
    BY <1>8
  <2> QED BY <1>8, <2>1 DEF OpenTodos
<1>9. CASE t = <<"clear", "wipe", "save">>
  <2>1. Tail(t) = <<"wipe", "save">>
    BY <1>9
  <2> QED BY <1>9, <2>1 DEF OpenTodos
<1>10. CASE t = <<"clear", "wipe">>
  <2>1. Tail(t) = <<"wipe">>
    BY <1>10
  <2> QED BY <1>10, <2>1 DEF OpenTodos
<1> QED BY <1>1, <1>2, <1>3, <1>4, <1>5, <1>6, <1>7, <1>8, <1>9, <1>10 DEF Todos

LEMMA AtWipe ==
  ASSUME NEW t \in Todos, Head(t) = "wipe"
  PROVE  \/ t \in OpenTodos /\ Tail(t) \in OpenTodos /\ Head(Tail(t)) \in {"read", "go"}
         \/ t = <<"wipe">> /\ Tail(t) = <<>>
         \/ t = <<"wipe", "save">> /\ Tail(t) = <<"save">>
<1>1. t \in OpenTodos => t \in {<<"wipe", "read", "write", "go">>, <<"wipe", "go">>, <<"wipe", "go", "read", "write">>}
  BY DEF OpenTodos
<1>2. t \in ShowTodos => t \in {}
  BY DEF ShowTodos
<1>3. t \in VoiceTodos => t \in {}
  BY DEF VoiceTodos
<1>4. t \in EndTodos => t \in {<<"wipe", "save">>}
  BY DEF EndTodos
<1>5. t \in ClearTodos => t \in {<<"wipe">>}
  BY DEF ClearTodos
<1>6. CASE t = <<"wipe", "read", "write", "go">>
  <2>1. Tail(t) = <<"read", "write", "go">>
    BY <1>6
  <2> QED BY <1>6, <2>1 DEF OpenTodos
<1>7. CASE t = <<"wipe", "go">>
  <2>1. Tail(t) = <<"go">>
    BY <1>7
  <2> QED BY <1>7, <2>1 DEF OpenTodos
<1>8. CASE t = <<"wipe", "go", "read", "write">>
  <2>1. Tail(t) = <<"go", "read", "write">>
    BY <1>8
  <2> QED BY <1>8, <2>1 DEF OpenTodos
<1>9. CASE t = <<"wipe", "save">>
  <2>1. Tail(t) = <<"save">>
    BY <1>9
  <2> QED BY <1>9, <2>1 DEF OpenTodos
<1>10. CASE t = <<"wipe">>
  <2>1. Tail(t) = <<>>
    BY <1>10
  <2> QED BY <1>10, <2>1 DEF OpenTodos
<1> QED BY <1>1, <1>2, <1>3, <1>4, <1>5, <1>6, <1>7, <1>8, <1>9, <1>10 DEF Todos

LEMMA AtRead ==
  ASSUME NEW t \in Todos, Head(t) = "read"
  PROVE  /\ Head(Tail(t)) = "write"
         /\ \/ t \in OpenTodos \cap ToRead /\ Tail(t) \in OpenTodos \cap ToWrite
            \/ t \in ShowTodos \cap ToRead /\ Tail(t) \in ShowTodos \cap ToWrite
            \/ t \in EndTodos \cap ToRead /\ Tail(t) \in EndTodos \cap ToWrite
            \/ t = <<"read", "write">> /\ Tail(t) = <<"write">>
<1>1. t \in OpenTodos => t \in {<<"read", "write", "go">>}
  BY DEF OpenTodos
<1>2. t \in ShowTodos => t \in {<<"read", "write", "show", "go">>}
  BY DEF ShowTodos
<1>3. t \in VoiceTodos => t \in {<<"read", "write">>}
  BY DEF VoiceTodos
<1>4. t \in EndTodos => t \in {<<"read", "write", "take", "save", "clear", "wipe">>, <<"read", "write", "take", "clear", "wipe", "save">>}
  BY DEF EndTodos
<1>5. t \in ClearTodos => t \in {}
  BY DEF ClearTodos
<1>6. CASE t = <<"read", "write", "go">>
  <2>1. Tail(t) = <<"write", "go">>
    BY <1>6
  <2> QED BY <1>6, <2>1 DEF OpenTodos, ShowTodos, EndTodos, ToRead, ToWrite
<1>7. CASE t = <<"read", "write", "show", "go">>
  <2>1. Tail(t) = <<"write", "show", "go">>
    BY <1>7
  <2> QED BY <1>7, <2>1 DEF OpenTodos, ShowTodos, EndTodos, ToRead, ToWrite
<1>8. CASE t = <<"read", "write">>
  <2>1. Tail(t) = <<"write">>
    BY <1>8
  <2> QED BY <1>8, <2>1 DEF OpenTodos, ShowTodos, EndTodos, ToRead, ToWrite
<1>9. CASE t = <<"read", "write", "take", "save", "clear", "wipe">>
  <2>1. Tail(t) = <<"write", "take", "save", "clear", "wipe">>
    BY <1>9
  <2> QED BY <1>9, <2>1 DEF OpenTodos, ShowTodos, EndTodos, ToRead, ToWrite
<1>10. CASE t = <<"read", "write", "take", "clear", "wipe", "save">>
  <2>1. Tail(t) = <<"write", "take", "clear", "wipe", "save">>
    BY <1>10
  <2> QED BY <1>10, <2>1 DEF OpenTodos, ShowTodos, EndTodos, ToRead, ToWrite
<1> QED BY <1>1, <1>2, <1>3, <1>4, <1>5, <1>6, <1>7, <1>8, <1>9, <1>10 DEF Todos

LEMMA AtWrite ==
  ASSUME NEW t \in Todos, Head(t) = "write"
  PROVE  \/ t \in OpenTodos \cap ToWrite /\ Tail(t) \in OpenTodos \cap ToPass
         \/ t \in ShowTodos \cap ToWrite /\ Tail(t) \in ShowTodos \cap ToPass
         \/ t \in EndTodos \cap ToWrite /\ Tail(t) \in EndTodos \cap ToPass
         \/ t = <<"write">> /\ Tail(t) = <<>>
<1>1. t \in OpenTodos => t \in {<<"write", "go">>}
  BY DEF OpenTodos
<1>2. t \in ShowTodos => t \in {<<"write", "show", "go">>}
  BY DEF ShowTodos
<1>3. t \in VoiceTodos => t \in {<<"write">>}
  BY DEF VoiceTodos
<1>4. t \in EndTodos => t \in {<<"write", "take", "save", "clear", "wipe">>, <<"write", "take", "clear", "wipe", "save">>}
  BY DEF EndTodos
<1>5. t \in ClearTodos => t \in {}
  BY DEF ClearTodos
<1>6. CASE t = <<"write", "go">>
  <2>1. Tail(t) = <<"go">>
    BY <1>6
  <2> QED BY <1>6, <2>1 DEF OpenTodos, ShowTodos, EndTodos, ToWrite, ToPass
<1>7. CASE t = <<"write", "show", "go">>
  <2>1. Tail(t) = <<"show", "go">>
    BY <1>7
  <2> QED BY <1>7, <2>1 DEF OpenTodos, ShowTodos, EndTodos, ToWrite, ToPass
<1>8. CASE t = <<"write">>
  <2>1. Tail(t) = <<>>
    BY <1>8
  <2> QED BY <1>8, <2>1 DEF OpenTodos, ShowTodos, EndTodos, ToWrite, ToPass
<1>9. CASE t = <<"write", "take", "save", "clear", "wipe">>
  <2>1. Tail(t) = <<"take", "save", "clear", "wipe">>
    BY <1>9
  <2> QED BY <1>9, <2>1 DEF OpenTodos, ShowTodos, EndTodos, ToWrite, ToPass
<1>10. CASE t = <<"write", "take", "clear", "wipe", "save">>
  <2>1. Tail(t) = <<"take", "clear", "wipe", "save">>
    BY <1>10
  <2> QED BY <1>10, <2>1 DEF OpenTodos, ShowTodos, EndTodos, ToWrite, ToPass
<1> QED BY <1>1, <1>2, <1>3, <1>4, <1>5, <1>6, <1>7, <1>8, <1>9, <1>10 DEF Todos

LEMMA AtGo ==
  ASSUME NEW t \in Todos, Head(t) = "go"
  PROVE  /\ t \in OpenTodos \cap ToPass
         /\ \/ t = <<"go">> /\ Tail(t) = <<>>
            \/ t = <<"go", "read", "write">> /\ Tail(t) = <<"read", "write">>
<1>1. t \in OpenTodos => t \in {<<"go">>, <<"go", "read", "write">>}
  BY DEF OpenTodos
<1>2. t \in ShowTodos => t \in {}
  BY DEF ShowTodos
<1>3. t \in VoiceTodos => t \in {}
  BY DEF VoiceTodos
<1>4. t \in EndTodos => t \in {}
  BY DEF EndTodos
<1>5. t \in ClearTodos => t \in {}
  BY DEF ClearTodos
<1>6. CASE t = <<"go">>
  <2>1. Tail(t) = <<>>
    BY <1>6
  <2> QED BY <1>6, <2>1 DEF OpenTodos, ToPass
<1>7. CASE t = <<"go", "read", "write">>
  <2>1. Tail(t) = <<"read", "write">>
    BY <1>7
  <2> QED BY <1>7, <2>1 DEF OpenTodos, ToPass
<1> QED BY <1>1, <1>2, <1>3, <1>4, <1>5, <1>6, <1>7 DEF Todos

LEMMA AtShow ==
  ASSUME NEW t \in Todos, Head(t) = "show"
  PROVE  t \in ShowTodos \cap ToPass /\ Tail(t) = <<"go">>
<1>1. t \in OpenTodos => t \in {}
  BY DEF OpenTodos
<1>2. t \in ShowTodos => t \in {<<"show", "go">>}
  BY DEF ShowTodos
<1>3. t \in VoiceTodos => t \in {}
  BY DEF VoiceTodos
<1>4. t \in EndTodos => t \in {}
  BY DEF EndTodos
<1>5. t \in ClearTodos => t \in {}
  BY DEF ClearTodos
<1>6. CASE t = <<"show", "go">>
  <2>1. Tail(t) = <<"go">>
    BY <1>6
  <2> QED BY <1>6, <2>1 DEF ShowTodos, ToPass
<1> QED BY <1>1, <1>2, <1>3, <1>4, <1>5, <1>6 DEF Todos

LEMMA AtTake ==
  ASSUME NEW t \in Todos, Head(t) = "take"
  PROVE  /\ t \in EndTodos \cap ToPass
         /\ Tail(t) \in {<<"save", "clear", "wipe">>, <<"clear", "wipe", "save">>}
<1>1. t \in OpenTodos => t \in {}
  BY DEF OpenTodos
<1>2. t \in ShowTodos => t \in {}
  BY DEF ShowTodos
<1>3. t \in VoiceTodos => t \in {}
  BY DEF VoiceTodos
<1>4. t \in EndTodos => t \in {<<"take", "save", "clear", "wipe">>, <<"take", "clear", "wipe", "save">>}
  BY DEF EndTodos
<1>5. t \in ClearTodos => t \in {}
  BY DEF ClearTodos
<1>6. CASE t = <<"take", "save", "clear", "wipe">>
  <2>1. Tail(t) = <<"save", "clear", "wipe">>
    BY <1>6
  <2> QED BY <1>6, <2>1 DEF EndTodos, ToPass
<1>7. CASE t = <<"take", "clear", "wipe", "save">>
  <2>1. Tail(t) = <<"clear", "wipe", "save">>
    BY <1>7
  <2> QED BY <1>7, <2>1 DEF EndTodos, ToPass
<1> QED BY <1>1, <1>2, <1>3, <1>4, <1>5, <1>6, <1>7 DEF Todos

LEMMA AtSave ==
  ASSUME NEW t \in Todos, Head(t) = "save"
  PROVE  \/ t = <<"save", "clear", "wipe">> /\ Tail(t) = <<"clear", "wipe">>
         \/ t = <<"save">> /\ Tail(t) = <<>>
<1>1. t \in OpenTodos => t \in {}
  BY DEF OpenTodos
<1>2. t \in ShowTodos => t \in {}
  BY DEF ShowTodos
<1>3. t \in VoiceTodos => t \in {}
  BY DEF VoiceTodos
<1>4. t \in EndTodos => t \in {<<"save", "clear", "wipe">>, <<"save">>}
  BY DEF EndTodos
<1>5. t \in ClearTodos => t \in {}
  BY DEF ClearTodos
<1>6. CASE t = <<"save", "clear", "wipe">>
  <2>1. Tail(t) = <<"clear", "wipe">>
    BY <1>6
  <2> QED BY <1>6, <2>1
<1>7. CASE t = <<"save">>
  <2>1. Tail(t) = <<>>
    BY <1>7
  <2> QED BY <1>7, <2>1
<1> QED BY <1>1, <1>2, <1>3, <1>4, <1>5, <1>6, <1>7 DEF Todos

LEMMA Join11 ==
  ASSUME NEW x1, NEW x2
  PROVE  <<x1>> \o <<x2>> = <<x1, x2>>
<1> DEFINE s == <<x1>> \o <<x2>>
           t == <<x1, x2>>
           A == {x1, x2}
<1>1. s \in Seq(A) /\ t \in Seq(A) /\ Len(s) = 2 /\ Len(t) = 2
  OBVIOUS
<1>2. s[1] = t[1] /\ s[2] = t[2]
  OBVIOUS
<1> HIDE DEF s, t, A
<1>3. \A i \in 1..Len(s) : s[i] = t[i]
  BY <1>1, <1>2
<1>4. s = t
  BY <1>1, <1>3, SeqEqual
<1> QED BY <1>4 DEF s, t

LEMMA Join21 ==
  ASSUME NEW x1, NEW x2, NEW x3
  PROVE  <<x1, x2>> \o <<x3>> = <<x1, x2, x3>>
<1> DEFINE s == <<x1, x2>> \o <<x3>>
           t == <<x1, x2, x3>>
           A == {x1, x2, x3}
<1>1. s \in Seq(A) /\ t \in Seq(A) /\ Len(s) = 3 /\ Len(t) = 3
  OBVIOUS
<1>2. s[1] = t[1] /\ s[2] = t[2] /\ s[3] = t[3]
  OBVIOUS
<1> HIDE DEF s, t, A
<1>3. \A i \in 1..Len(s) : s[i] = t[i]
  BY <1>1, <1>2
<1>4. s = t
  BY <1>1, <1>3, SeqEqual
<1> QED BY <1>4 DEF s, t

LEMMA Join22 ==
  ASSUME NEW x1, NEW x2, NEW x3, NEW x4
  PROVE  <<x1, x2>> \o <<x3, x4>> = <<x1, x2, x3, x4>>
<1> DEFINE s == <<x1, x2>> \o <<x3, x4>>
           t == <<x1, x2, x3, x4>>
           A == {x1, x2, x3, x4}
<1>1. s \in Seq(A) /\ t \in Seq(A) /\ Len(s) = 4 /\ Len(t) = 4
  OBVIOUS
<1>2. s[1] = t[1] /\ s[2] = t[2] /\ s[3] = t[3] /\ s[4] = t[4]
  OBVIOUS
<1> HIDE DEF s, t, A
<1>3. \A i \in 1..Len(s) : s[i] = t[i]
  BY <1>1, <1>2
<1>4. s = t
  BY <1>1, <1>3, SeqEqual
<1> QED BY <1>4 DEF s, t

LEMMA Join23 ==
  ASSUME NEW x1, NEW x2, NEW x3, NEW x4, NEW x5
  PROVE  <<x1, x2>> \o <<x3, x4, x5>> = <<x1, x2, x3, x4, x5>>
<1> DEFINE s == <<x1, x2>> \o <<x3, x4, x5>>
           t == <<x1, x2, x3, x4, x5>>
           A == {x1, x2, x3, x4, x5}
<1>1. s \in Seq(A) /\ t \in Seq(A) /\ Len(s) = 5 /\ Len(t) = 5
  OBVIOUS
<1>2. s[1] = t[1] /\ s[2] = t[2] /\ s[3] = t[3] /\ s[4] = t[4] /\ s[5] = t[5]
  OBVIOUS
<1> HIDE DEF s, t, A
<1>3. \A i \in 1..Len(s) : s[i] = t[i]
  BY <1>1, <1>2
<1>4. s = t
  BY <1>1, <1>3, SeqEqual
<1> QED BY <1>4 DEF s, t

LEMMA Join24 ==
  ASSUME NEW x1, NEW x2, NEW x3, NEW x4, NEW x5, NEW x6
  PROVE  <<x1, x2>> \o <<x3, x4, x5, x6>> = <<x1, x2, x3, x4, x5, x6>>
<1> DEFINE s == <<x1, x2>> \o <<x3, x4, x5, x6>>
           t == <<x1, x2, x3, x4, x5, x6>>
           A == {x1, x2, x3, x4, x5, x6}
<1>1. s \in Seq(A) /\ t \in Seq(A) /\ Len(s) = 6 /\ Len(t) = 6
  OBVIOUS
<1>2. s[1] = t[1] /\ s[2] = t[2] /\ s[3] = t[3] /\ s[4] = t[4] /\ s[5] = t[5] /\ s[6] = t[6]
  OBVIOUS
<1> HIDE DEF s, t, A
<1>3. \A i \in 1..Len(s) : s[i] = t[i]
  BY <1>1, <1>2
<1>4. s = t
  BY <1>1, <1>3, SeqEqual
<1> QED BY <1>4 DEF s, t

LEMMA Join12 ==
  ASSUME NEW x1, NEW x2, NEW x3
  PROVE  <<x1>> \o <<x2, x3>> = <<x1, x2, x3>>
<1> DEFINE s == <<x1>> \o <<x2, x3>>
           t == <<x1, x2, x3>>
           A == {x1, x2, x3}
<1>1. s \in Seq(A) /\ t \in Seq(A) /\ Len(s) = 3 /\ Len(t) = 3
  OBVIOUS
<1>2. s[1] = t[1] /\ s[2] = t[2] /\ s[3] = t[3]
  OBVIOUS
<1> HIDE DEF s, t, A
<1>3. \A i \in 1..Len(s) : s[i] = t[i]
  BY <1>1, <1>2
<1>4. s = t
  BY <1>1, <1>3, SeqEqual
<1> QED BY <1>4 DEF s, t

LEMMA Join31 ==
  ASSUME NEW x1, NEW x2, NEW x3, NEW x4
  PROVE  <<x1, x2, x3>> \o <<x4>> = <<x1, x2, x3, x4>>
<1> DEFINE s == <<x1, x2, x3>> \o <<x4>>
           t == <<x1, x2, x3, x4>>
           A == {x1, x2, x3, x4}
<1>1. s \in Seq(A) /\ t \in Seq(A) /\ Len(s) = 4 /\ Len(t) = 4
  OBVIOUS
<1>2. s[1] = t[1] /\ s[2] = t[2] /\ s[3] = t[3] /\ s[4] = t[4]
  OBVIOUS
<1> HIDE DEF s, t, A
<1>3. \A i \in 1..Len(s) : s[i] = t[i]
  BY <1>1, <1>2
<1>4. s = t
  BY <1>1, <1>3, SeqEqual
<1> QED BY <1>4 DEF s, t

LEMMA Joined ==
  /\ <<"go">> \o <<>> = <<"go">> /\ <<>> \o <<"go">> = <<"go">>
  /\ <<"clear", "wipe">> \o <<"go">> = <<"clear", "wipe", "go">>
  /\ <<"clear", "wipe">> \o <<"read", "write", "go">> = <<"clear", "wipe", "read", "write", "go">>
  /\ <<"clear", "wipe">> \o <<"go", "read", "write">> = <<"clear", "wipe", "go", "read", "write">>
  /\ <<"read", "write">> \o <<"go">> = <<"read", "write", "go">>
  /\ <<"go">> \o <<"read", "write">> = <<"go", "read", "write">>
  /\ <<"show">> \o <<"go">> = <<"show", "go">>
  /\ <<"read", "write">> \o <<"show", "go">> = <<"read", "write", "show", "go">>
  /\ <<"take">> \o <<"clear", "wipe">> = <<"take", "clear", "wipe">>
  /\ <<"take", "clear", "wipe">> \o <<"save">> = <<"take", "clear", "wipe", "save">>
  /\ <<"take", "save">> \o <<"clear", "wipe">> = <<"take", "save", "clear", "wipe">>
  /\ <<"read", "write">> \o <<"take", "clear", "wipe", "save">> =
       <<"read", "write", "take", "clear", "wipe", "save">>
  /\ <<"read", "write">> \o <<"take", "save", "clear", "wipe">> =
       <<"read", "write", "take", "save", "clear", "wipe">>
<1>1. <<"go">> \o <<>> = <<"go">> /\ <<>> \o <<"go">> = <<"go">>
  OBVIOUS
<1> QED BY <1>1, Join11, Join21, Join12, Join22, Join23, Join24, Join31

\* What the first handler of a dialog does.
LEMMA OpeningIs ==
  ASSUME NEW d
  PROVE  /\ Opening(d) \in OpenTodos
         /\ Head(Opening(d)) = "clear" \/ ~(Table[d].clears /\ d # "voice")
         /\ \/ Head(Opening(d)) = "clear"
            \/ Opening(d) \in ToRead
            \/ Opening(d) = <<"go">> /\ Table[d].asks = {}
            \/ Opening(d) \in {<<"go">>, <<"go", "read", "write">>} /\ d = "voice"
<1> DEFINE asks == Puts(Table[d].asks)
           first == IF Table[d].clears /\ (d = "voice" => state # NoState) THEN Clears ELSE <<>>
<1>1. (asks = <<>> /\ Table[d].asks = {}) \/ asks = <<"read", "write">>
  BY DEF Puts
<1>2. \/ first = <<"clear", "wipe">>
      \/ first = <<>> /\ ~(Table[d].clears /\ d # "voice")
  BY DEF Clears
<1>0. \A t : t \in OpenTodos => <<>> \o t = t /\ t \o <<>> = t
  BY DEF OpenTodos
<1>3. CASE d = "voice"
  <2>1. Opening(d) = first \o (<<"go">> \o asks)
    BY <1>3 DEF Opening
  <2>2. <<"go">> \o asks \in {<<"go">>, <<"go", "read", "write">>}
    BY <1>1, Joined
  <2> HIDE DEF first, asks
  <2>3. CASE first = <<>>
    <3>1. Opening(d) \in {<<"go">>, <<"go", "read", "write">>}
      BY <1>0, <2>1, <2>2, <2>3 DEF OpenTodos
    <3> QED BY <1>3, <3>1 DEF OpenTodos
  <2>4. CASE first = <<"clear", "wipe">>
    <3>1. Opening(d) \in {<<"clear", "wipe", "go">>, <<"clear", "wipe", "go", "read", "write">>}
      BY <2>1, <2>2, <2>4, Joined
    <3> QED BY <3>1 DEF OpenTodos
  <2> QED BY <1>2, <2>3, <2>4
<1>4. CASE d # "voice"
  <2>1. Opening(d) = first \o (asks \o <<"go">>)
    BY <1>4 DEF Opening
  <2>2. \/ asks \o <<"go">> = <<"go">> /\ Table[d].asks = {}
        \/ asks \o <<"go">> = <<"read", "write", "go">>
    BY <1>1, Joined
  <2> HIDE DEF first, asks
  <2>3. CASE first = <<>>
    <3>1. \/ Opening(d) = <<"go">> /\ Table[d].asks = {}
          \/ Opening(d) = <<"read", "write", "go">>
      BY <1>0, <2>1, <2>2, <2>3 DEF OpenTodos
    <3> QED BY <1>2, <1>4, <2>3, <3>1 DEF OpenTodos, ToRead
  <2>4. CASE first = <<"clear", "wipe">>
    <3>1. Opening(d) \in {<<"clear", "wipe", "go">>, <<"clear", "wipe", "read", "write", "go">>}
      BY <2>1, <2>2, <2>4, Joined
    <3> QED BY <3>1 DEF OpenTodos
  <2> QED BY <1>2, <2>3, <2>4
<1> QED BY <1>3, <1>4

\* What the handler of a step does.
LEMMA HandlerIs ==
  ASSUME NEW d, NEW s, NEW writes, NEW next
  PROVE  /\ next = "end" => Handler(d, s, writes, next) \in EndTodos
         /\ next # "end" => Handler(d, s, writes, next) \in OpenTodos \cup ShowTodos
         /\ \/ Handler(d, s, writes, next) \in ToRead
            \/ Handler(d, s, writes, next) \in ToPass /\ writes = {}
<1> DEFINE end == Ending(d)
           on == IF Steps(d)[s].shows THEN <<"show">> ELSE <<>>
           rest == IF next = "end" THEN end ELSE on \o <<"go">>
           EndTails == {<<"take", "save", "clear", "wipe">>, <<"take", "clear", "wipe", "save">>}
           Goes == {<<"go">>, <<"show", "go">>}
<1>1. end \in EndTails
  BY Joined DEF Ending, Clears
<1>2. on \o <<"go">> \in Goes
  BY Joined
<1>3. Handler(d, s, writes, next) = Puts(writes) \o rest
  BY DEF Handler
<1> HIDE DEF end, on
<1>4. (next = "end" => rest \in EndTails) /\ (next # "end" => rest \in Goes)
  BY <1>1, <1>2
<1> HIDE DEF rest
<1>5. CASE writes = {}
  <2>1. <<>> \o rest = rest
    BY <1>4
  <2>2. Handler(d, s, writes, next) = rest
    BY <1>3, <1>5, <2>1 DEF Puts
  <2> QED BY <1>4, <1>5, <2>2 DEF EndTodos, OpenTodos, ShowTodos, ToPass
<1>6. CASE writes # {}
  <2>1. Handler(d, s, writes, next) = <<"read", "write">> \o rest
    BY <1>3, <1>6 DEF Puts
  <2>2. next = "end" => Handler(d, s, writes, next) \in
                          {<<"read", "write", "take", "save", "clear", "wipe">>,
                           <<"read", "write", "take", "clear", "wipe", "save">>}
    BY <1>4, <2>1, Joined
  <2>3. next # "end" => Handler(d, s, writes, next) \in
                          {<<"read", "write", "go">>, <<"read", "write", "show", "go">>}
    BY <1>4, <2>1, Joined
  <2> QED BY <2>2, <2>3 DEF EndTodos, OpenTodos, ShowTodos, ToRead
<1> QED BY <1>5, <1>6

-----------------------------------------------------------------------------
(* Hands.                                                                   *)

StepNames == {"none", "end"} \cup UNION {DOMAIN Steps(d) : d \in Dialog}
HandType == [todo : Todos \cup {<<>>}, dialog : Dialog \cup {"none"}, visit : Nat,
             writes : SUBSET Keys, next : StepNames, copy : [Keys -> Nat]]

\* What is left to do fits the dialog.
HandFits(l) ==
  \/ l = Free
  \/ l.todo \in ClearTodos /\ l.dialog = "none" /\ l.visit = 0
  \/ /\ l.dialog \in Dialog /\ l.visit \in 1..visits
     /\ \/ l.todo \in OpenTodos \cup ShowTodos /\ l.next \in DOMAIN Steps(l.dialog)
        \/ l.todo \in VoiceTodos
        \/ l.todo \in EndTodos \cup ClearTodos /\ l.next = "end"

HandTypes ==
  /\ hand \in [1..Hands -> HandType]
  /\ \A h \in 1..Hands : \A l \in {hand[h]} : HandFits(l) /\ l.copy \in [Keys -> 0..visits]

DialogTypes == DialogTypeOK /\ HandTypes /\ (state = NoState \/ state.visit # 0)

LEMMA BeginEffect ==
  ASSUME hand \in [1..Hands -> HandType], NEW h \in 1..Hands, NEW t \in Todos,
         NEW d \in Dialog \cup {"none"}, NEW v \in Nat, NEW writes \in SUBSET Keys,
         NEW next \in StepNames, Begin(h, t, d, v, writes, next)
  PROVE  /\ hand' \in [1..Hands -> HandType] /\ hand[h].todo = <<>>
         /\ \A o \in (1..Hands) \ {h} : hand'[o] = hand[o]
         /\ hand'[h].todo = t /\ hand'[h].dialog = d /\ hand'[h].visit = v
         /\ hand'[h].writes = writes /\ hand'[h].next = next /\ hand'[h].copy = Absent
<1> DEFINE l == [todo |-> t, dialog |-> d, visit |-> v, writes |-> writes, next |-> next,
                 copy |-> Absent]
<1>1. hand[h].todo = <<>> /\ hand' = [hand EXCEPT ![h] = l]
  BY DEF Begin
<1>2. l \in HandType
  BY DEF HandType, Absent
<1>3. /\ l.todo = t /\ l.dialog = d /\ l.visit = v
      /\ l.writes = writes /\ l.next = next /\ l.copy = Absent
  BY DEF l
<1> HIDE DEF l
<1>4. hand' \in [1..Hands -> HandType] /\ hand'[h] = l /\ \A o \in (1..Hands) \ {h} : hand'[o] = hand[o]
  BY <1>1, <1>2
<1> QED BY <1>1, <1>3, <1>4

\* Who is busy is crossed.
LEMMA BeginNotes ==
  ASSUME NEW h \in 1..Hands, NEW t, NEW d, NEW v, NEW writes, NEW next,
         Begin(h, t, d, v, writes, next)
  PROVE  /\ crossed \subseteq crossed'
         /\ \A o \in 1..Hands : hand[o].todo # <<>> => {v, hand[o].visit} \in crossed'
         /\ crossed' \subseteq crossed \cup {{v, hand[o].visit} : o \in 1..Hands}
         /\ troubles' = troubles \/ (troubles < MostTroubles /\ troubles' = troubles + 1)
<1> DEFINE busy == {o \in 1..Hands : hand[o].todo # <<>>}
<1>1. IF busy = {} THEN UNCHANGED <<crossed, troubles>>
      ELSE /\ troubles < MostTroubles /\ troubles' = troubles + 1
           /\ crossed' = crossed \cup {{v, hand[o].visit} : o \in busy}
  BY DEF Begin
<1>2. CASE busy = {}
  BY <1>1, <1>2
<1>3. CASE busy # {}
  BY <1>1, <1>3
<1> QED BY <1>2, <1>3

LEMMA RestEffect ==
  ASSUME hand \in [1..Hands -> HandType], NEW h \in 1..Hands, NEW t \in Todos \cup {<<>>},
         NEW c \in [Keys -> Nat], Rest(h, t, c)
  PROVE  /\ hand' \in [1..Hands -> HandType]
         /\ \A o \in (1..Hands) \ {h} : hand'[o] = hand[o]
         /\ t = <<>> => hand'[h] = Free
         /\ t # <<>> => /\ hand'[h].todo = t /\ hand'[h].copy = c
                        /\ hand'[h].dialog = hand[h].dialog /\ hand'[h].visit = hand[h].visit
                        /\ hand'[h].writes = hand[h].writes /\ hand'[h].next = hand[h].next
<1> DEFINE l == IF t = <<>> THEN Free ELSE [hand[h] EXCEPT !.todo = t, !.copy = c]
<1>1. hand' = [hand EXCEPT ![h] = l]
  BY DEF Rest
<1>2. Free \in HandType
  BY DEF Free, HandType, Absent, StepNames
<1>3. PICK was \in HandType : was = hand[h]
  OBVIOUS
<1>4. t # <<>> => /\ l \in HandType /\ l.todo = t /\ l.copy = c /\ l.dialog = was.dialog
                  /\ l.visit = was.visit /\ l.writes = was.writes /\ l.next = was.next
  BY <1>3 DEF HandType
<1>5. l \in HandType
  BY <1>2, <1>4
<1>6. t = <<>> => l = Free
  OBVIOUS
<1> HIDE DEF l
<1>7. hand' \in [1..Hands -> HandType] /\ hand'[h] = l /\ \A o \in (1..Hands) \ {h} : hand'[o] = hand[o]
  BY <1>1, <1>5
<1> QED BY <1>3, <1>4, <1>6, <1>7

\* How a todo goes on.
LEMMA TodoGoesOn ==
  ASSUME NEW t \in Todos
  PROVE  /\ Tail(t) \in Todos \cup {<<>>}
         /\ t \in ClearTodos => Tail(t) \in ClearTodos \cup {<<>>}
         /\ t \in OpenTodos \cup ShowTodos => Tail(t) \in OpenTodos \cup ShowTodos \cup VoiceTodos \cup {<<>>}
         /\ t \in VoiceTodos => Tail(t) \in VoiceTodos \cup {<<>>}
         /\ t \in EndTodos => Tail(t) \in EndTodos \cup ClearTodos \cup {<<>>}
<1> DEFINE a == <<"save", "clear", "wipe">>
           b == <<"clear", "wipe", "save">>
           c == <<"wipe", "save">>
           e == <<"save">>
<1>0. a \in EndTodos /\ b \in EndTodos /\ c \in EndTodos /\ e \in EndTodos
  BY SmallTodos DEF ToStore
<1>1. CASE Head(t) = "clear"
  BY <1>0, <1>1, AtClear, SmallTodos, TodosDiffer DEF Todos
<1>2. CASE Head(t) = "wipe"
  BY <1>0, <1>2, AtWipe, SmallTodos, TodosDiffer, ZenonT(40) DEF Todos
<1>3. CASE Head(t) = "read"
  BY <1>3, AtRead, SmallTodos, TodosDiffer DEF Todos
<1>4. CASE Head(t) = "write"
  BY <1>4, AtWrite, SmallTodos, TodosDiffer DEF Todos
<1>5. CASE Head(t) = "go"
  BY <1>5, AtGo, SmallTodos, TodosDiffer DEF Todos
<1>6. CASE Head(t) = "show"
  BY <1>6, AtShow, SmallTodos, TodosDiffer DEF Todos
<1>7. CASE Head(t) = "take"
  BY <1>0, <1>7, AtTake, TodosDiffer DEF Todos
<1>8. CASE Head(t) = "save"
  BY <1>0, <1>8, AtSave, SmallTodos, TodosDiffer DEF Todos
<1> QED BY <1>1, <1>2, <1>3, <1>4, <1>5, <1>6, <1>7, <1>8, TodosBegin

\* A hand goes on with the rest, or is free.
LEMMA RestTypes ==
  ASSUME HandTypes, visits' = visits, NEW h \in 1..Hands, hand[h].todo # <<>>,
         NEW t \in {Tail(hand[h].todo), <<>>}, NEW c \in [Keys -> 0..visits], Rest(h, t, c),
         visits \in Nat
  PROVE  HandTypes'
<1>1. PICK l \in HandType : l = hand[h] /\ HandFits(l) /\ l.todo \in Todos
  <2>1. hand[h] \in HandType /\ HandFits(hand[h])
    BY DEF HandTypes
  <2> QED BY <2>1 DEF HandType
<1>2. t \in Todos \cup {<<>>}
  BY <1>1, TodoGoesOn DEF Todos
<1>9. c \in [Keys -> Nat]
  OBVIOUS
<1>3. PICK m : m = hand'[h]
  OBVIOUS
<1>4. /\ hand' \in [1..Hands -> HandType] /\ \A o \in (1..Hands) \ {h} : hand'[o] = hand[o]
      /\ t = <<>> => m = Free
      /\ t # <<>> => /\ m.todo = t /\ m.copy = c /\ m.dialog = l.dialog
                     /\ m.visit = l.visit /\ m.next = l.next
  BY <1>1, <1>2, <1>3, <1>9, RestEffect DEF HandTypes
<1>5. m.copy \in [Keys -> 0..visits]
  BY <1>4 DEF Free, Absent
<1>6. HandFits(m)
  <2>1. CASE t = <<>>
    BY <1>4, <2>1 DEF HandFits
  <2>2. CASE t # <<>>
    <3>1. l # Free /\ t = Tail(l.todo)
      BY <1>1, <2>2 DEF Free
    <3> QED BY <1>1, <1>4, <2>2, <3>1, TodoGoesOn, TodosDiffer DEF HandFits
  <2> QED BY <2>1, <2>2
<1>7. \A k : HandFits(k)' <=> HandFits(k)
  BY DEF HandFits
<1>8. \A o \in 1..Hands : \A k \in {hand'[o]} : HandFits(k)' /\ k.copy \in [Keys -> 0..visits']
  <2>1. ASSUME NEW o \in 1..Hands PROVE \A k \in {hand'[o]} : HandFits(k)' /\ k.copy \in [Keys -> 0..visits']
    <3>1. CASE o = h
      BY <1>3, <1>5, <1>6, <1>7, <3>1
    <3>2. CASE o # h
      BY <1>4, <1>7, <3>2 DEF HandTypes
    <3> QED BY <3>1, <3>2
  <2> QED BY <2>1
<1> QED BY <1>4, <1>8 DEF HandTypes

\* A hand begins.
LEMMA BeginTypes ==
  ASSUME HandTypes, visits \in Nat, visits' \in Nat, visits <= visits', NEW h \in 1..Hands,
         NEW t \in Todos, NEW d \in Dialog \cup {"none"}, NEW v \in Nat,
         NEW writes \in SUBSET Keys, NEW next \in StepNames, Begin(h, t, d, v, writes, next),
         \/ t \in ClearTodos /\ d = "none" /\ v = 0
         \/ /\ d \in Dialog /\ v \in 1..visits'
            /\ \/ t \in OpenTodos \cup ShowTodos /\ next \in DOMAIN Steps(d)
               \/ t \in EndTodos /\ next = "end"
  PROVE  HandTypes'
<1>1. PICK m : m = hand'[h]
  OBVIOUS
<1>0. hand \in [1..Hands -> HandType]
  BY DEF HandTypes
<1>2. hand' \in [1..Hands -> HandType] /\ \A o \in (1..Hands) \ {h} : hand'[o] = hand[o]
  BY <1>0, BeginEffect
<1>4. m.todo = t /\ m.dialog = d /\ m.visit = v /\ m.next = next /\ m.copy = Absent
  BY <1>0, <1>1, BeginEffect, ZenonT(40)
<1>3. m.copy \in [Keys -> 0..visits']
  BY <1>4 DEF Absent
<1>5. HandFits(m)'
  BY <1>4 DEF HandFits
<1>6. ASSUME NEW l, HandFits(l), l.copy \in [Keys -> 0..visits]
      PROVE  HandFits(l)' /\ l.copy \in [Keys -> 0..visits']
  BY <1>6 DEF HandFits
<1>7. ASSUME NEW o \in 1..Hands PROVE \A k \in {hand'[o]} : HandFits(k)' /\ k.copy \in [Keys -> 0..visits']
  <2>1. CASE o = h
    BY <1>1, <1>3, <1>5, <2>1
  <2>2. CASE o # h
    BY <1>2, <1>6, <2>2 DEF HandTypes
  <2> QED BY <2>1, <2>2
<1> QED BY <1>2, <1>7 DEF HandTypes

\* Of a busy hand.
LEMMA BusyHand ==
  ASSUME DialogAssumption, DialogTypes, NEW h \in 1..Hands, hand[h].todo # <<>>
  PROVE  /\ hand[h] \in HandType /\ hand[h].todo \in Todos
         /\ hand[h].visit \in 0..visits /\ hand[h].copy \in [Keys -> 0..visits]
         /\ hand[h].dialog = "none" => hand[h].todo \in ClearTodos /\ hand[h].visit = 0
         /\ hand[h].dialog # "none" => hand[h].dialog \in Dialog /\ hand[h].visit \in 1..visits
         /\ hand[h].todo \in OpenTodos \cup ShowTodos =>
              hand[h].dialog # "none" /\ hand[h].next \in DOMAIN Steps(hand[h].dialog)
         /\ hand[h].todo \in VoiceTodos => hand[h].dialog # "none"
         /\ hand[h].todo \in EndTodos => hand[h].dialog # "none" /\ hand[h].next = "end"
<1>1. PICK l \in HandType : l = hand[h] /\ HandFits(l) /\ l.copy \in [Keys -> 0..visits]
  BY DEF DialogTypes, HandTypes
<1>2. l.todo \in Todos /\ l # Free
  BY <1>1 DEF HandType, Free
<1>3. "none" \notin Dialog
  <2>1. "none" \notin DOMAIN Table
    BY DEF Table
  <2> QED BY <2>1 DEF DialogAssumption
<1>4. visits \in Nat
  BY DEF DialogTypes, DialogTypeOK, DialogAssumption
<1>5. l.visit \in 0..visits
  BY <1>1, <1>2, <1>4 DEF HandFits
<1>6. \/ l.todo \in ClearTodos /\ l.dialog = "none" /\ l.visit = 0
      \/ /\ l.dialog \in Dialog /\ l.visit \in 1..visits
         /\ \/ l.todo \in OpenTodos \cup ShowTodos /\ l.next \in DOMAIN Steps(l.dialog)
            \/ l.todo \in VoiceTodos
            \/ l.todo \in EndTodos \cup ClearTodos /\ l.next = "end"
  BY <1>1, <1>2 DEF HandFits
<1> QED BY <1>1, <1>2, <1>3, <1>5, <1>6, TodosDiffer

LEMMA AnyHand ==
  ASSUME DialogAssumption, DialogTypes, NEW h \in 1..Hands
  PROVE  /\ hand[h].visit \in 0..visits /\ hand[h].copy \in [Keys -> 0..visits]
         /\ hand[h].todo = <<>> => hand[h] = Free
<1>1. PICK l \in HandType : l = hand[h] /\ HandFits(l) /\ l.copy \in [Keys -> 0..visits]
  BY DEF DialogTypes, HandTypes
<1>2. visits \in Nat
  BY DEF DialogTypes, DialogTypeOK, DialogAssumption
<1>3. l.todo = <<>> => l = Free
  BY <1>1, TodosBegin DEF HandFits, Todos
<1>4. l.visit \in 0..visits
  BY <1>1, <1>2 DEF HandFits, Free
<1> QED BY <1>1, <1>3, <1>4

\* What is observed stays in its bounds when a hand begins.
LEMMA BeginBounds ==
  ASSUME DialogAssumption, DialogTypes, visits' \in Nat, visits <= visits', NEW h \in 1..Hands,
         NEW t \in Todos, NEW d \in Dialog \cup {"none"}, NEW v \in 0..visits',
         NEW writes \in SUBSET Keys, NEW next \in StepNames, Begin(h, t, d, v, writes, next)
  PROVE  crossed' \subseteq SUBSET (0..visits') /\ troubles' \in 0..MostTroubles
<1>0. hand \in [1..Hands -> HandType] /\ visits \in Nat
  BY DEF DialogTypes, HandTypes, DialogTypeOK, DialogAssumption
<1>1. /\ crossed' \subseteq crossed \cup {{v, hand[o].visit} : o \in 1..Hands}
      /\ troubles' = troubles \/ (troubles < MostTroubles /\ troubles' = troubles + 1)
  <2>1. v \in Nat
    OBVIOUS
  <2>2. crossed' \subseteq crossed \cup {{v, hand[o].visit} : o \in 1..Hands}
    BY BeginNotes
  <2>3. troubles' = troubles \/ (troubles < MostTroubles /\ troubles' = troubles + 1)
    BY BeginNotes
  <2> QED BY <2>2, <2>3
<1>2. \A o \in 1..Hands : hand[o].visit \in 0..visits'
  BY <1>0, AnyHand
<1>3. crossed \subseteq SUBSET (0..visits')
  BY <1>0 DEF DialogTypes, DialogTypeOK
<1>4. troubles' \in 0..MostTroubles
  BY <1>1 DEF DialogTypes, DialogTypeOK, DialogAssumption
<1> QED BY <1>1, <1>2, <1>3, <1>4

\* What a form says of its steps.
LEMMA FormSteps ==
  ASSUME DialogAssumption, NEW d \in Dialog
  PROVE  /\ Table[d].opens \subseteq DOMAIN Steps(d)
         /\ Table[d].asks \in SUBSET Keys /\ Used(d) \subseteq Keys
         /\ \A s \in DOMAIN Steps(d) : /\ s \in StepNames
                                       /\ Steps(d)[s].next \subseteq DOMAIN Steps(d) \cup {"end"}
                                       /\ Steps(d)[s].writes \in SUBSET Keys
                                       /\ "nlp_parsed" \notin Steps(d)[s].writes
         /\ "nlp_parsed" \notin Table[d].asks
<1>1. Sound(Table[d])
  BY FormsAreSound
<1> QED BY <1>1 DEF Sound, Keys, Written, StepNames, Steps

LEMMA OpenTypes ==
  ASSUME DialogAssumption, DialogTypes, NEW h \in 1..Hands, NEW d \in Dialog, Open(h, d)
  PROVE  DialogTypes'
<1>1. PICK s \in Table[d].opens : Begin(h, Opening(d), d, visits + 1, Table[d].asks, s)
  BY DEF Open
<1>2. PICK t, v : t \in OpenTodos /\ t = Opening(d) /\ v = visits + 1
  BY OpeningIs
<1>3. s \in DOMAIN Steps(d) /\ s \in StepNames /\ Table[d].asks \in SUBSET Keys
  BY <1>1, FormSteps
<1>4. Begin(h, t, d, v, Table[d].asks, s)
  BY <1>1, <1>2
<1>5. /\ visits \in Nat /\ visits' = v /\ visits < MostVisits /\ v \in Nat /\ visits <= v
      /\ UNCHANGED <<state, given, saved, again, foreign, cut, stored>>
  BY <1>2 DEF Open, DialogTypes, DialogTypeOK, DialogAssumption
<1>6. t \in Todos /\ d \in Dialog \cup {"none"} /\ v \in 1..visits' /\ v \in 0..visits'
  BY <1>2, <1>5 DEF Todos
<1>7. HandTypes'
  BY <1>2, <1>3, <1>4, <1>5, <1>6, BeginTypes DEF DialogTypes
<1>8. crossed' \subseteq SUBSET (0..visits') /\ troubles' \in 0..MostTroubles
  BY <1>3, <1>4, <1>5, <1>6, BeginBounds
<1>9. DOMAIN hand' = 1..Hands
  BY <1>7 DEF HandTypes
<1>10. visits' \in 0..MostVisits
  BY <1>2, <1>5 DEF DialogAssumption
<1>11. given' \in [Keys -> 0..visits']
  BY <1>2, <1>5 DEF DialogTypes, DialogTypeOK
<1>12. /\ state'.visit \in 0..visits'
       /\ saved' \cup again' \cup cut' \subseteq 0..visits'
       /\ foreign' \subseteq (1..visits') \X Keys \X (0..visits')
  <2>1. 0..visits \subseteq 0..visits' /\ 1..visits \subseteq 1..visits'
    BY <1>2, <1>5
  <2>2. (1..visits) \X Keys \X (0..visits) \subseteq (1..visits') \X Keys \X (0..visits')
    BY <2>1
  <2> QED BY <1>5, <2>1, <2>2 DEF DialogTypes, DialogTypeOK
<1>13. /\ state' = NoState \/ (state'.dialog \in Dialog /\ state'.step \in DOMAIN Steps(state'.dialog))
       /\ stored' \subseteq Dialog /\ (state' = NoState \/ state'.visit # 0)
  BY <1>5 DEF DialogTypes, DialogTypeOK
<1>14. DialogTypeOK'
  BY <1>8, <1>9, <1>10, <1>11, <1>12, <1>13 DEF DialogTypeOK
<1> QED BY <1>7, <1>13, <1>14 DEF DialogTypes

\* The state an answer finds.
LEMMA StateIs ==
  ASSUME DialogAssumption, DialogTypes, state.dialog # "none"
  PROVE  state # NoState /\ state.dialog \in Dialog /\ state.step \in DOMAIN Steps(state.dialog)
         /\ state.visit \in 1..visits
<1>1. state # NoState
  BY DEF NoState
<1> QED BY <1>1 DEF DialogTypes, DialogTypeOK

\* How an answer begins.
LEMMA AnswerBegins ==
  ASSUME DialogAssumption, DialogTypes, NEW h \in 1..Hands, NEW d \in Dialog,
         NEW s \in DOMAIN Steps(d), Answer(h, d, s)
  PROVE  /\ state.dialog = d /\ state.step = s /\ state.visit \in 1..visits
         /\ UNCHANGED <<state, given, visits, saved, again, foreign, cut, stored>>
         /\ PhotoHeard(d, s)
         /\ \E next \in Steps(d)[s].next, writes \in SUBSET Keys, t \in Todos :
              /\ writes \in {Steps(d)[s].writes} \cup (IF Steps(d)[s].skips THEN {{}} ELSE {})
              /\ t = Handler(d, s, writes, next) /\ next \in StepNames
              /\ \/ t \in OpenTodos \cup ShowTodos /\ next \in DOMAIN Steps(d)
                 \/ t \in EndTodos /\ next = "end"
              /\ t \in ToRead \/ (t \in ToPass /\ writes = {})
              /\ Begin(h, t, d, state.visit, writes, next)
<1>1. state.dialog = d /\ state.step = s /\ d # "none"
  <2>1. "none" \notin DOMAIN Table
    BY DEF Table
  <2> QED BY <2>1 DEF Answer, InState, DialogAssumption
<1>2. PICK next \in Steps(d)[s].next,
           writes \in {Steps(d)[s].writes} \cup (IF Steps(d)[s].skips THEN {{}} ELSE {}) :
           Begin(h, Handler(d, s, writes, next), d, state.visit, writes, next)
  BY DEF Answer
<1>3. writes \in SUBSET Keys /\ next \in DOMAIN Steps(d) \cup {"end"} /\ next \in StepNames
  <2>1. "end" \in StepNames
    BY DEF StepNames
  <2> QED BY <1>2, <2>1, FormSteps
<1>4. PICK t : t = Handler(d, s, writes, next)
  OBVIOUS
<1>5. /\ t \in Todos
      /\ \/ t \in OpenTodos \cup ShowTodos /\ next \in DOMAIN Steps(d)
         \/ t \in EndTodos /\ next = "end"
      /\ t \in ToRead \/ (t \in ToPass /\ writes = {})
  BY <1>3, <1>4, HandlerIs DEF Todos
<1>6. Begin(h, t, d, state.visit, writes, next)
  BY <1>2, <1>4
<1>7. UNCHANGED <<state, given, visits, saved, again, foreign, cut, stored>> /\ PhotoHeard(d, s)
  BY DEF Answer
<1> QED BY <1>1, <1>2, <1>3, <1>4, <1>5, <1>6, <1>7, StateIs

\* A hand begins, and the rest is as it was.
LEMMA BegunTypes ==
  ASSUME DialogAssumption, DialogTypes, HandTypes',
         UNCHANGED <<state, given, visits, saved, again, foreign, cut, stored>>,
         crossed' \subseteq SUBSET (0..visits'), troubles' \in 0..MostTroubles
  PROVE  DialogTypes'
<1>1. DialogTypeOK /\ DOMAIN hand' = 1..Hands
  BY DEF HandTypes, DialogTypes
<1>2. DialogTypeOK'
  BY <1>1 DEF DialogTypeOK
<1> QED BY <1>2 DEF DialogTypes

LEMMA AnswerTypes ==
  ASSUME DialogAssumption, DialogTypes, NEW h \in 1..Hands, NEW d \in Dialog,
         NEW s \in DOMAIN Steps(d), Answer(h, d, s)
  PROVE  DialogTypes'
<1>1. PICK next \in Steps(d)[s].next, writes \in SUBSET Keys, t \in Todos :
         /\ writes \in {Steps(d)[s].writes} \cup (IF Steps(d)[s].skips THEN {{}} ELSE {})
         /\ t = Handler(d, s, writes, next) /\ next \in StepNames
         /\ \/ t \in OpenTodos \cup ShowTodos /\ next \in DOMAIN Steps(d)
            \/ t \in EndTodos /\ next = "end"
         /\ t \in ToRead \/ (t \in ToPass /\ writes = {})
         /\ Begin(h, t, d, state.visit, writes, next)
  BY AnswerBegins, SMTT(40)
<1>2. PICK v : v = state.visit
  OBVIOUS
<1>3. /\ v \in 1..visits /\ visits' = visits
      /\ UNCHANGED <<state, given, visits, saved, again, foreign, cut, stored>>
  BY <1>2, AnswerBegins
<1>4. visits \in Nat /\ v \in Nat /\ v \in 1..visits' /\ v \in 0..visits' /\ visits <= visits'
  BY <1>3 DEF DialogTypes, DialogTypeOK, DialogAssumption
<1>5. Begin(h, t, d, v, writes, next)
  BY <1>1, <1>2
<1>6. HandTypes'
  BY <1>1, <1>3, <1>4, <1>5, BeginTypes DEF DialogTypes
<1>7. crossed' \subseteq SUBSET (0..visits') /\ troubles' \in 0..MostTroubles
  BY <1>1, <1>3, <1>4, <1>5, BeginBounds
<1> QED BY <1>3, <1>6, <1>7, BegunTypes

LEMMA CancelTypes ==
  ASSUME DialogAssumption, DialogTypes, NEW h \in 1..Hands, Cancel(h)
  PROVE  DialogTypes'
<1>1. PICK t : t = Clears
  OBVIOUS
<1>2. Begin(h, t, "none", 0, {}, "none")
  BY <1>1 DEF Cancel
<1>3. visits \in Nat /\ visits' = visits /\ 0 \in 0..visits' /\ visits <= visits'
      /\ UNCHANGED <<state, given, visits, saved, again, foreign, cut, stored>>
  BY DEF Cancel, DialogTypes, DialogTypeOK, DialogAssumption
<1>4. t \in ClearTodos /\ t \in Todos /\ "none" \in StepNames
  BY <1>1, SmallTodos DEF Clears, Todos, StepNames
<1>5. HandTypes'
  BY <1>2, <1>3, <1>4, BeginTypes DEF DialogTypes
<1>6. crossed' \subseteq SUBSET (0..visits') /\ troubles' \in 0..MostTroubles
  BY <1>2, <1>3, <1>4, BeginBounds
<1> QED BY <1>3, <1>5, <1>6, BegunTypes

-----------------------------------------------------------------------------
(* What the calls of a handler do.                                          *)

\* A hand goes on, and what is observed is as it was.
LEMMA GoesOnTypes ==
  ASSUME DialogAssumption, DialogTypes, NEW h \in 1..Hands, hand[h].todo # <<>>,
         NEW t \in {Tail(hand[h].todo), <<>>}, NEW c \in [Keys -> 0..visits], Rest(h, t, c),
         UNCHANGED observed, given' \in [Keys -> 0..visits],
         \/ state' = state \/ state' = NoState
         \/ /\ state'.dialog \in Dialog /\ state'.step \in DOMAIN Steps(state'.dialog)
            /\ state'.visit \in 1..visits
  PROVE  DialogTypes'
<1>1. visits \in Nat /\ visits' = visits
  BY DEF DialogTypes, DialogTypeOK, DialogAssumption, observed
<1>2. HandTypes'
  BY <1>1, RestTypes DEF DialogTypes
<1>3. /\ UNCHANGED <<visits, saved, again, foreign, crossed, cut, stored, troubles>>
      /\ DOMAIN hand' = 1..Hands
  BY <1>2 DEF observed, HandTypes
<1>4. /\ state'.visit \in 0..visits'
      /\ state' = NoState \/ (state'.dialog \in Dialog /\ state'.step \in DOMAIN Steps(state'.dialog))
      /\ state' = NoState \/ state'.visit # 0
  <2>1. CASE state' = state
    BY <1>1, <2>1 DEF DialogTypes, DialogTypeOK
  <2>2. CASE state' = NoState
    BY <1>1, <2>2 DEF NoState
  <2>3. CASE state'.dialog \in Dialog /\ state'.step \in DOMAIN Steps(state'.dialog)
             /\ state'.visit \in 1..visits
    BY <1>1, <2>3
  <2> QED BY <2>1, <2>2, <2>3
<1>5. DialogTypeOK'
  BY <1>1, <1>3, <1>4 DEF DialogTypes, DialogTypeOK
<1> QED BY <1>2, <1>4, <1>5 DEF DialogTypes

LEMMA Blank == ASSUME NEW n \in Nat PROVE Absent \in [Keys -> 0..n]
BY DEF Absent

\* The hand whose turn it is.
LEMMA AtWork ==
  ASSUME DialogAssumption, DialogTypes, NEW h \in 1..Hands, NEW op, Does(h, op)
  PROVE  /\ hand[h].todo # <<>> /\ hand[h].todo \in Todos /\ Head(hand[h].todo) = op
         /\ hand[h].copy \in [Keys -> 0..visits] /\ visits \in Nat
         /\ given \in [Keys -> 0..visits]
BY BusyHand DEF Does, DialogTypes, DialogTypeOK, DialogAssumption

LEMMA ClearTypes ==
  ASSUME DialogAssumption, DialogTypes, NEW h \in 1..Hands, Clear(h)
  PROVE  DialogTypes'
<1>1. /\ Does(h, "clear") /\ state' = NoState /\ Rest(h, Tail(hand[h].todo), hand[h].copy)
      /\ UNCHANGED observed /\ given' = given
  BY DEF Clear, Then
<1>2. PICK t, c : t = Tail(hand[h].todo) /\ c = hand[h].copy
  OBVIOUS
<1> QED BY <1>1, <1>2, AtWork, GoesOnTypes

LEMMA WipeTypes ==
  ASSUME DialogAssumption, DialogTypes, NEW h \in 1..Hands, Wipe(h)
  PROVE  DialogTypes'
<1>1. /\ Does(h, "wipe") /\ given' = Absent /\ Rest(h, Tail(hand[h].todo), hand[h].copy)
      /\ UNCHANGED observed /\ state' = state
  BY DEF Wipe, Then
<1>2. PICK t, c : t = Tail(hand[h].todo) /\ c = hand[h].copy
  OBVIOUS
<1> QED BY <1>1, <1>2, AtWork, Blank, GoesOnTypes

LEMMA ReadTypes ==
  ASSUME DialogAssumption, DialogTypes, NEW h \in 1..Hands, ReadAnswers(h)
  PROVE  DialogTypes'
<1>1. /\ Does(h, "read") /\ Rest(h, Tail(hand[h].todo), given)
      /\ UNCHANGED observed /\ state' = state /\ given' = given
  BY DEF ReadAnswers
<1>2. PICK t, c : t = Tail(hand[h].todo) /\ c = given
  OBVIOUS
<1> QED BY <1>1, <1>2, AtWork, GoesOnTypes

LEMMA WriteTypes ==
  ASSUME DialogAssumption, DialogTypes, NEW h \in 1..Hands, WriteAnswers(h)
  PROVE  DialogTypes'
<1>1. /\ Does(h, "write") /\ Rest(h, Tail(hand[h].todo), Absent)
      /\ UNCHANGED observed /\ state' = state
      /\ given' = [k \in Keys |-> IF k \in hand[h].writes THEN hand[h].visit ELSE hand[h].copy[k]]
  BY DEF WriteAnswers
<1>2. given' \in [Keys -> 0..visits]
  BY <1>1, AnyHand
<1>3. PICK t, c : t = Tail(hand[h].todo) /\ c = Absent
  OBVIOUS
<1> QED BY <1>1, <1>2, <1>3, AtWork, Blank, GoesOnTypes

LEMMA GoTypes ==
  ASSUME DialogAssumption, DialogTypes, NEW h \in 1..Hands, Go(h)
  PROVE  DialogTypes'
<1>1. /\ Does(h, "go") /\ Rest(h, Tail(hand[h].todo), hand[h].copy)
      /\ UNCHANGED observed /\ given' = given
      /\ state' = [dialog |-> hand[h].dialog, step |-> hand[h].next, visit |-> hand[h].visit]
  BY DEF Go, Then
<1>2. hand[h].todo \in OpenTodos
  BY <1>1, AtWork, AtGo
<1>3. /\ state'.dialog \in Dialog /\ state'.step \in DOMAIN Steps(state'.dialog)
      /\ state'.visit \in 1..visits
  BY <1>1, <1>2, AtWork, BusyHand
<1>4. PICK t, c : t = Tail(hand[h].todo) /\ c = hand[h].copy
  OBVIOUS
<1> QED BY <1>1, <1>3, <1>4, AtWork, GoesOnTypes

LEMMA ShowTypes ==
  ASSUME DialogAssumption, DialogTypes, NEW h \in 1..Hands, Show(h) \/ Take(h)
  PROVE  DialogTypes'
<1>1. PICK op : Does(h, op)
  BY DEF Show, Take
<1>2. /\ UNCHANGED observed /\ state' = state /\ given' = given
      /\ \/ Rest(h, Tail(hand[h].todo), hand[h].copy)
         \/ Rest(h, Tail(hand[h].todo), given)
         \/ Rest(h, <<>>, Absent)
  BY DEF Show, Take, Then
<1>3. PICK t \in {Tail(hand[h].todo), <<>>}, c \in [Keys -> 0..visits] : Rest(h, t, c)
  BY <1>1, <1>2, AtWork, Blank
<1> QED BY <1>1, <1>2, <1>3, AtWork, GoesOnTypes

LEMMA FailTypes ==
  ASSUME DialogAssumption, DialogTypes, NEW h \in 1..Hands, FailHandler(h)
  PROVE  DialogTypes'
<1>1. /\ hand[h].todo # <<>> /\ troubles < MostTroubles /\ Rest(h, <<>>, Absent)
      /\ troubles' = troubles + 1 /\ cut' = cut \cup {hand[h].visit}
      /\ UNCHANGED <<state, given, visits, saved, again, foreign, crossed, stored>>
  BY DEF FailHandler
<1>2. visits \in Nat /\ hand[h].visit \in 0..visits /\ Absent \in [Keys -> 0..visits]
  BY AnyHand, Blank DEF DialogTypes, DialogTypeOK, DialogAssumption
<1>3. HandTypes'
  BY <1>1, <1>2, RestTypes DEF DialogTypes
<1>4. cut' \subseteq 0..visits /\ troubles' \in 0..MostTroubles
  BY <1>1, <1>2 DEF DialogTypes, DialogTypeOK, DialogAssumption
<1>5. DialogTypeOK'
  BY <1>1, <1>3, <1>4 DEF DialogTypes, DialogTypeOK, HandTypes
<1> QED BY <1>1, <1>3, <1>5 DEF DialogTypes

LEMMA SaveTypes ==
  ASSUME DialogAssumption, DialogTypes, NEW h \in 1..Hands, Save(h)
  PROVE  DialogTypes'
<1> DEFINE d == hand[h].dialog
           v == hand[h].visit
<1>1. /\ Does(h, "save") /\ Rest(h, Tail(hand[h].todo), Absent)
      /\ UNCHANGED <<state, given, visits, crossed, cut, troubles>>
      /\ \/ UNCHANGED <<saved, again, foreign, stored>>
         \/ /\ saved' = saved \cup {v} /\ again' = again \cup (saved \cap {v})
            /\ stored' = stored \cup {d}
            /\ foreign' = foreign \cup {<<v, k, hand[h].copy[k]>> :
                                 k \in {j \in Used(d) : hand[h].copy[j] \notin {0, v}}}
  BY DEF Save
<1>2. hand[h].todo \in EndTodos
  <2>1. hand[h].todo \in ToStore
    BY <1>1, AtWork, AtSave DEF ToStore
  <2> QED BY <2>1, SmallTodos
<1>3. d \in Dialog /\ v \in 1..visits /\ visits \in Nat /\ hand[h].copy \in [Keys -> 0..visits]
  BY <1>1, <1>2, AtWork, BusyHand
<1>4. {<<v, k, hand[h].copy[k]>> : k \in {j \in Used(d) : hand[h].copy[j] \notin {0, v}}}
        \subseteq (1..visits) \X Keys \X (0..visits)
  <2>1. Used(d) \subseteq Keys
    BY <1>3, FormSteps
  <2> QED BY <1>3, <2>1
<1>5. HandTypes'
  <2>1. PICK t, c : t = Tail(hand[h].todo) /\ c = Absent
    OBVIOUS
  <2> QED BY <1>1, <1>3, <2>1, AtWork, Blank, RestTypes DEF DialogTypes
<1> HIDE DEF d, v
<1>6. /\ saved' \cup again' \subseteq 0..visits /\ stored' \subseteq Dialog
      /\ foreign' \subseteq (1..visits) \X Keys \X (0..visits)
  <2>1. v \in 0..visits
    BY <1>3
  <2>2. CASE UNCHANGED <<saved, again, foreign, stored>>
    BY <2>2 DEF DialogTypes, DialogTypeOK
  <2>3. CASE ~UNCHANGED <<saved, again, foreign, stored>>
    BY <1>1, <1>3, <1>4, <2>1, <2>3 DEF DialogTypes, DialogTypeOK
  <2> QED BY <2>2, <2>3
<1>7. DialogTypeOK'
  BY <1>1, <1>5, <1>6 DEF DialogTypes, DialogTypeOK, HandTypes
<1> QED BY <1>1, <1>5, <1>7 DEF DialogTypes

\* The kinds of step of the dialogs.
LEMMA DialogSteps ==
  ASSUME DialogNext
  PROVE  \E h \in 1..Hands :
           \/ \E d \in Dialog : Open(h, d)
           \/ \E d \in Dialog : \E s \in DOMAIN Steps(d) : Answer(h, d, s)
           \/ Cancel(h) \/ Clear(h) \/ Wipe(h) \/ ReadAnswers(h) \/ WriteAnswers(h) \/ Go(h)
           \/ Show(h) \/ Take(h) \/ Save(h) \/ FailHandler(h)
BY DEF DialogNext

LEMMA TypesStep ==
  ASSUME DialogAssumption, DialogTypes, [DialogNext]_dialogVars
  PROVE  DialogTypes'
<1>1. CASE DialogNext
  BY <1>1, DialogSteps, OpenTypes, AnswerTypes, CancelTypes, ClearTypes, WipeTypes, ReadTypes,
     WriteTypes, GoTypes, ShowTypes, SaveTypes, FailTypes
<1>2. CASE UNCHANGED dialogVars
  BY <1>2 DEF DialogTypes, DialogTypeOK, HandTypes, HandFits, dialogVars
<1> QED BY <1>1, <1>2

LEMMA TypesBegin ==
  ASSUME DialogAssumption, DialogInit
  PROVE  DialogTypes
<1>1. Free \in HandType /\ HandFits(Free) /\ Free.copy \in [Keys -> 0..0]
  BY DEF Free, HandType, HandFits, Absent, StepNames
<1>2. HandTypes
  BY <1>1 DEF HandTypes, DialogInit
<1>3. DialogTypeOK
  BY DEF DialogInit, DialogTypeOK, DialogAssumption, NoState, Absent
<1> QED BY <1>2, <1>3 DEF DialogTypes, DialogInit

\* A user's dialog is at one of its own steps, and what is kept of it and of
\* the handlers at work has its type.
THEOREM DialogTypesHold == DialogSpec => []DialogTypeOK
<1>1. DialogInit => DialogTypes
  BY TypesBegin, DialogAssumption
<1>2. DialogTypes /\ [DialogNext]_dialogVars => DialogTypes'
  BY TypesStep, DialogAssumption
<1>3. DialogTypes => DialogTypeOK
  BY DEF DialogTypes
<1> QED BY <1>1, <1>2, <1>3, PTL DEF DialogSpec

-----------------------------------------------------------------------------
(* DeadEnds.  What a dictated cargo needs is never written; the handler of  *)
(* the driver's both photo is never chosen; and the subscription's row is *)
(* not committed.                                                           *)

Unheard == "nlp_parsed"

HandDead(l) ==
  /\ Unheard \notin l.writes
  /\ Unheard \in Keys => l.copy[Unheard] = 0
  /\ l.dialog = "voice" => l.todo \notin ToStore
  /\ l.dialog = "driver" => l.todo \notin EndTodos

DeadInv ==
  /\ Unheard \in Keys => given[Unheard] = 0
  /\ \A h \in 1..Hands : HandDead(hand[h])
  /\ DeadEnds

\* The answers are stored once they were taken.
LEMMA StoreComes ==
  ASSUME NEW t \in Todos, Tail(t) \in ToStore
  PROVE  Head(t) = "take" \/ t \in ToStore
<1> DEFINE a == <<"save", "clear", "wipe">>
           b == <<"clear", "wipe", "save">>
           c == <<"wipe", "save">>
           e == <<"save">>
<1>0. a \in ToStore /\ b \in ToStore /\ c \in ToStore /\ e \in ToStore
  BY DEF ToStore
<1>9. Tail(t) \in EndTodos /\ Tail(t) # <<>>
  BY SmallTodos, TodosBegin DEF Todos
<1>1. CASE Head(t) = "clear"
  BY <1>0, <1>1, <1>9, AtClear, SmallTodos, TodosDiffer
<1>2. CASE Head(t) = "wipe"
  BY <1>0, <1>2, <1>9, AtWipe, SmallTodos, TodosDiffer
<1>3. CASE Head(t) = "read"
  BY <1>3, <1>9, AtRead, TodosBegin DEF Todos
<1>4. CASE Head(t) = "write"
  BY <1>4, <1>9, AtWrite, TodosBegin DEF Todos
<1>5. CASE Head(t) = "go"
  BY <1>5, <1>9, AtGo, SmallTodos, TodosDiffer
<1>6. CASE Head(t) = "show"
  BY <1>6, <1>9, AtShow, SmallTodos, TodosDiffer
<1>7. CASE Head(t) = "save"
  BY <1>0, <1>7, <1>9, AtSave, SmallTodos, TodosDiffer
<1> QED BY <1>1, <1>2, <1>3, <1>4, <1>5, <1>6, <1>7, TodosBegin

\* What ends was to end.
LEMMA EndComes ==
  ASSUME NEW t \in Todos, Tail(t) \in EndTodos
  PROVE  t \in EndTodos
<1>1. Tail(t) # <<>>
  BY TodosBegin DEF Todos
<1> QED BY <1>1, TodoGoesOn, TodosDiffer DEF Todos

LEMMA DeadBegin ==
  ASSUME DeadInv, hand \in [1..Hands -> HandType], NEW h \in 1..Hands, NEW t \in Todos,
         NEW d \in Dialog \cup {"none"}, NEW v \in Nat, NEW writes \in SUBSET Keys,
         NEW next \in StepNames, Begin(h, t, d, v, writes, next),
         t \notin ToStore, d = "driver" => t \notin EndTodos, Unheard \notin writes,
         given' = given, stored' = stored
  PROVE  DeadInv'
<1>1. PICK m : m = hand'[h]
  OBVIOUS
<1>2. \A o \in (1..Hands) \ {h} : hand'[o] = hand[o]
  BY BeginEffect
<1>6. /\ hand'[h].todo = t /\ hand'[h].dialog = d /\ hand'[h].visit = v
      /\ hand'[h].writes = writes /\ hand'[h].next = next /\ hand'[h].copy = Absent
  BY BeginEffect, ZenonT(40)
<1>3. m.todo = t /\ m.dialog = d /\ m.writes = writes /\ m.copy = Absent
  BY <1>1, <1>6
<1>4. HandDead(m)
  BY <1>3 DEF HandDead, Absent
<1>5. \A o \in 1..Hands : HandDead(hand'[o])
  BY <1>1, <1>2, <1>4 DEF DeadInv
<1> QED BY <1>5 DEF DeadInv, HandDead, DeadEnds

LEMMA DeadRest ==
  ASSUME DialogAssumption, DialogTypes, DeadInv, NEW h \in 1..Hands, hand[h].todo # <<>>,
         NEW t \in {Tail(hand[h].todo), <<>>}, NEW c \in [Keys -> 0..visits], Rest(h, t, c),
         Unheard \in Keys => c[Unheard] = 0 /\ given'[Unheard] = 0,
         t \in ToStore /\ Head(hand[h].todo) = "take" => hand[h].dialog # "voice",
         DeadEnds'
  PROVE  DeadInv'
<1>1. PICK l, m : l = hand[h] /\ m = hand'[h]
  OBVIOUS
<1>2. /\ hand \in [1..Hands -> HandType] /\ l.todo \in Todos /\ HandDead(l)
      /\ visits \in Nat
  BY <1>1, BusyHand DEF DialogTypes, HandTypes, DeadInv, DialogTypeOK, DialogAssumption
<1>3. t \in Todos \cup {<<>>} /\ c \in [Keys -> Nat]
  <2>1. t \in Todos \cup {<<>>}
    BY <1>1, <1>2, TodoGoesOn
  <2>2. c \in [Keys -> Nat]
    OBVIOUS
  <2> QED BY <2>1, <2>2
<1>4. /\ \A o \in (1..Hands) \ {h} : hand'[o] = hand[o]
      /\ t = <<>> => m = Free
      /\ t # <<>> => m.todo = t /\ m.copy = c /\ m.dialog = l.dialog /\ m.writes = l.writes
  BY <1>1, <1>2, <1>3, RestEffect
<1>5. HandDead(m)
  <2>1. CASE t = <<>>
    <3>1. Free.todo \notin ToStore
      BY TodosBegin, SmallTodos DEF Free, Todos
    <3> QED BY <1>4, <2>1, <3>1 DEF HandDead, Free, Absent
  <2>2. CASE t # <<>>
    <3>1. t = Tail(l.todo)
      BY <1>1, <2>2
    <3>2. t \in ToStore => l.dialog # "voice"
      BY <1>1, <1>2, <3>1, StoreComes DEF HandDead
    <3>3. t \in EndTodos => l.dialog # "driver"
      BY <1>2, <3>1, EndComes DEF HandDead
    <3> QED BY <1>2, <1>4, <2>2, <3>2, <3>3 DEF HandDead
  <2> QED BY <2>1, <2>2
<1>6. \A o \in 1..Hands : HandDead(hand'[o])
  BY <1>1, <1>4, <1>5 DEF DeadInv
<1> QED BY <1>6 DEF DeadInv, HandDead

LEMMA DeadOpens ==
  ASSUME DialogAssumption, DialogTypes, DeadInv, NEW h \in 1..Hands, NEW d \in Dialog, Open(h, d)
  PROVE  DeadInv'
<1>1. PICK s \in Table[d].opens : Begin(h, Opening(d), d, visits + 1, Table[d].asks, s)
  BY DEF Open
<1>2. PICK t, v : t \in OpenTodos /\ t = Opening(d) /\ v = visits + 1
  BY OpeningIs
<1>3. /\ s \in StepNames /\ Table[d].asks \in SUBSET Keys /\ Unheard \notin Table[d].asks
      /\ t \in Todos /\ t \notin EndTodos /\ t \notin ToStore
  BY <1>1, <1>2, FormSteps, SmallTodos, TodosDiffer DEF Unheard, Todos
<1>4. /\ v \in Nat /\ hand \in [1..Hands -> HandType] /\ given' = given /\ stored' = stored
      /\ Begin(h, t, d, v, Table[d].asks, s)
  BY <1>1, <1>2 DEF Open, DialogTypes, HandTypes, DialogTypeOK, DialogAssumption
<1> QED BY <1>3, <1>4, DeadBegin

LEMMA DeadAnswers ==
  ASSUME DialogAssumption, DialogTypes, DeadInv, NEW h \in 1..Hands, NEW d \in Dialog,
         NEW s \in DOMAIN Steps(d), Answer(h, d, s)
  PROVE  DeadInv'
<1>1. PICK next \in Steps(d)[s].next, writes \in SUBSET Keys, t \in Todos :
         /\ writes \in {Steps(d)[s].writes} \cup (IF Steps(d)[s].skips THEN {{}} ELSE {})
         /\ t = Handler(d, s, writes, next) /\ next \in StepNames
         /\ \/ t \in OpenTodos \cup ShowTodos /\ next \in DOMAIN Steps(d)
            \/ t \in EndTodos /\ next = "end"
         /\ t \in ToRead \/ (t \in ToPass /\ writes = {})
         /\ Begin(h, t, d, state.visit, writes, next)
  BY AnswerBegins, SMTT(40)
<1>2. PICK v : v = state.visit
  OBVIOUS
<1>3. v \in Nat /\ hand \in [1..Hands -> HandType] /\ given' = given /\ stored' = stored
      /\ Begin(h, t, d, v, writes, next)
  <2>1. state.visit \in 1..visits /\ given' = given /\ stored' = stored
    BY AnswerBegins
  <2> QED BY <1>1, <1>2, <2>1 DEF DialogTypes, HandTypes, DialogTypeOK, DialogAssumption
<1>4. t \notin ToStore
  BY <1>1, TodosBegin
<1>5. Unheard \notin writes
  BY <1>1, FormSteps DEF Unheard
<1>6. d = "driver" => t \notin EndTodos
  <2> SUFFICES ASSUME d = "driver", t \in EndTodos PROVE FALSE
    OBVIOUS
  <2>1. next = "end"
    BY <1>1, TodosDiffer
  <2>2. s = "sts_photo" /\ Steps(d)[s].kind = "photo"
    BY <1>1, <2>1 DEF Steps, Table, DriverVerification, Form, Step
  <2>3. PhotoHeard(d, s)
    BY AnswerBegins
  <2>4. <<d, s>> \in {<<"ttn", "wait_ttn_photo">>, <<"legal", "doc">>, <<"driver", "license_photo">>}
    BY <2>2, <2>3 DEF PhotoHeard
  <2> QED BY <2>2, <2>4
<1> QED BY <1>1, <1>3, <1>4, <1>5, <1>6, DeadBegin

LEMMA DeadCancels ==
  ASSUME DialogAssumption, DialogTypes, DeadInv, NEW h \in 1..Hands, Cancel(h)
  PROVE  DeadInv'
<1>1. PICK t : t = Clears
  OBVIOUS
<1>2. /\ Begin(h, t, "none", 0, {}, "none") /\ hand \in [1..Hands -> HandType]
      /\ given' = given /\ stored' = stored
  BY <1>1 DEF Cancel, DialogTypes, HandTypes
<1>3. t \in ClearTodos /\ t \in Todos /\ "none" \in StepNames /\ t \notin ToStore
  BY <1>1, SmallTodos, TodosDiffer DEF Clears, Todos, StepNames
<1> QED BY <1>2, <1>3, DeadBegin

\* What a dictated cargo needs is not there.
LEMMA VoiceNeeds ==
  ASSUME DialogAssumption, DeadInv, NEW h \in 1..Hands, hand[h].dialog = "voice",
         "voice" \in Dialog
  PROVE  ~Complete(h)
<1>1. Table["voice"].needs = {Unheard}
  BY DEF Table, VoiceCargo, Form, Unheard
<1>2. Unheard \in Keys
  BY <1>1 DEF Keys, Used
<1> QED BY <1>1, <1>2 DEF Complete, DeadInv

LEMMA DeadCalls ==
  ASSUME DialogAssumption, DialogTypes, DeadInv, NEW h \in 1..Hands,
         \/ Clear(h) \/ Wipe(h) \/ ReadAnswers(h) \/ WriteAnswers(h) \/ Go(h)
         \/ Show(h) \/ Take(h) \/ FailHandler(h)
  PROVE  DeadInv'
<1>0. hand[h].todo # <<>>
  BY DEF Clear, Wipe, ReadAnswers, WriteAnswers, Go, Show, Take, FailHandler, Does
<1>1. /\ hand[h].todo # <<>> /\ hand[h].todo \in Todos
      /\ given \in [Keys -> 0..visits] /\ hand[h].copy \in [Keys -> 0..visits]
      /\ Absent \in [Keys -> 0..visits] /\ HandDead(hand[h])
  <2>1. visits \in Nat /\ given \in [Keys -> 0..visits] /\ HandDead(hand[h])
    BY DEF DialogTypes, DialogTypeOK, DialogAssumption, DeadInv
  <2> QED BY <1>0, <2>1, BusyHand, Blank
<1>2. stored' = stored /\ DeadEnds'
  BY DEF Clear, Wipe, ReadAnswers, WriteAnswers, Go, Show, Take, FailHandler, observed,
         DeadInv, DeadEnds
<1>3. Unheard \in Keys => given'[Unheard] = 0
  BY <1>1 DEF Clear, Wipe, ReadAnswers, WriteAnswers, Go, Show, Take, FailHandler, DeadInv,
              Absent, HandDead
<1>4. PICK t \in {Tail(hand[h].todo), <<>>}, c \in {Absent, given, hand[h].copy} :
         /\ Rest(h, t, c)
         /\ Head(hand[h].todo) = "take" => t = <<>> \/ Complete(h)
  <2>1. CASE Clear(h) \/ Wipe(h) \/ Go(h)
    BY <2>1 DEF Clear, Wipe, Go, Then, Does
  <2>2. CASE ReadAnswers(h) \/ WriteAnswers(h)
    BY <2>2 DEF ReadAnswers, WriteAnswers, Does
  <2>3. CASE Show(h)
    BY <2>3 DEF Show, Then, Does
  <2>4. CASE Take(h)
    BY <2>4 DEF Take, Does
  <2>5. CASE FailHandler(h)
    BY <2>5 DEF FailHandler
  <2> QED BY <2>1, <2>2, <2>3, <2>4, <2>5
<1>5. c \in [Keys -> 0..visits] /\ (Unheard \in Keys => c[Unheard] = 0)
  BY <1>1 DEF Absent, HandDead, DeadInv
<1>6. t \in ToStore /\ Head(hand[h].todo) = "take" => hand[h].dialog # "voice"
  <2> SUFFICES ASSUME t \in ToStore, Head(hand[h].todo) = "take", hand[h].dialog = "voice"
               PROVE  FALSE
    OBVIOUS
  <2>1. t # <<>>
    BY SmallTodos, TodosBegin DEF Todos
  <2>2. "voice" \in Dialog
    BY <1>1, BusyHand
  <2> QED BY <1>4, <2>1, <2>2, VoiceNeeds
<1> QED BY <1>1, <1>2, <1>3, <1>4, <1>5, <1>6, DeadRest

LEMMA DeadSaves ==
  ASSUME DialogAssumption, DialogTypes, DeadInv, NEW h \in 1..Hands, Save(h)
  PROVE  DeadInv'
<1> DEFINE d == hand[h].dialog
<1>1. /\ Does(h, "save") /\ Rest(h, Tail(hand[h].todo), Absent) /\ given' = given
      /\ stored' = stored \/ (stored' = stored \cup {d} /\ Table[d].keeps)
  BY DEF Save
<1>2. hand[h].todo \in ToStore
  BY <1>1, AtWork, AtSave DEF ToStore
<1>3. d # "voice" /\ d # "driver"
  BY <1>2, SmallTodos DEF DeadInv, HandDead
<1>4. ~Table["subscribe"].keeps
  BY DEF Table, SubscribeRoute, Form
<1>5. DeadEnds'
  BY <1>1, <1>3, <1>4 DEF DeadEnds, DeadInv
<1>6. PICK t : t = Tail(hand[h].todo)
  OBVIOUS
<1>7. PICK c : c = Absent
  OBVIOUS
<1>8. c \in [Keys -> 0..visits] /\ (Unheard \in Keys => c[Unheard] = 0 /\ given'[Unheard] = 0)
  BY <1>1, <1>7, Blank DEF Absent, DeadInv, DialogTypes, DialogTypeOK, DialogAssumption
<1> QED BY <1>1, <1>3, <1>5, <1>6, <1>7, <1>8, AtWork, DeadRest

LEMMA DeadBegins == ASSUME DialogInit PROVE DeadInv
<1>1. HandDead(Free)
  BY TodosBegin, SmallTodos DEF HandDead, Free, Absent, Todos
<1> QED BY <1>1 DEF DeadInv, DialogInit, Absent, DeadEnds

LEMMA DeadStep ==
  ASSUME DialogAssumption, DialogTypes, DeadInv, [DialogNext]_dialogVars
  PROVE  DeadInv'
<1>1. CASE DialogNext
  BY <1>1, DialogSteps, DeadOpens, DeadAnswers, DeadCancels, DeadCalls, DeadSaves
<1>2. CASE UNCHANGED dialogVars
  BY <1>2 DEF DeadInv, HandDead, DeadEnds, dialogVars
<1> QED BY <1>1, <1>2

\* No subscription to a route, no cargo dictated by voice and no driver's
\* verification is ever stored, in whatever order the user goes about it.
THEOREM DeadEndsStay == DialogSpec => []DeadEnds
<1> DEFINE Inv == DialogTypes /\ DeadInv
<1>1. DialogInit => Inv
  BY DeadBegins, TypesBegin, DialogAssumption
<1>2. Inv /\ [DialogNext]_dialogVars => Inv'
  BY TypesStep, DeadStep, DialogAssumption
<1>3. Inv => DeadEnds
  BY DEF DeadInv
<1> QED BY <1>1, <1>2, <1>3, PTL DEF DialogSpec

-----------------------------------------------------------------------------
(* OneSavePerVisit.  A visit whose handlers never cross has one at most; it *)
(* stores once, for what has been stored is still being cleared away, and a *)
(* form that clears first has no state left to be answered in.              *)

LastTodos == {<<"wipe", "save">>, <<"save">>}

\* What holds of visit v while its handlers neither crossed nor died.
Once(v) ==
  /\ \A h, o \in 1..Hands : hand[h].visit = v /\ hand[o].visit = v => h = o
  /\ v \notin again
  /\ \A h \in 1..Hands : hand[h].visit = v =>
       /\ v \in saved => hand[h].todo \in ClearTodos
       /\ hand[h].todo \in LastTodos => state.visit # v
  /\ v \in saved /\ state.visit = v =>
       \E h \in 1..Hands : hand[h].visit = v /\ hand[h].todo = <<"clear", "wipe">>

Lone(v) == v \in 1..visits /\ v \notin cut /\ {v} \notin crossed

OnceInv == \A v \in 1..MostVisits : Lone(v) => Once(v)

\* A hand that has a visit is busy.
LEMMA VisitIsBusy ==
  ASSUME DialogAssumption, DialogTypes, NEW h \in 1..Hands, hand[h].visit # 0
  PROVE  hand[h].todo # <<>>
BY AnyHand DEF Free

\* A visit nothing is done for stays as it was.
LEMMA OnceElse ==
  ASSUME NEW v, Once(v), state'.visit = v => state.visit = v,
         \A o \in 1..Hands : hand[o].visit = v \/ hand'[o].visit = v => hand'[o] = hand[o],
         v \in again' => v \in again, v \in saved' <=> v \in saved
  PROVE  Once(v)'
<1>1. \A h, o \in 1..Hands : hand'[h].visit = v /\ hand'[o].visit = v => h = o
  BY DEF Once
<1>2. v \notin again'
  BY DEF Once
<1>3. \A h \in 1..Hands : hand'[h].visit = v =>
        /\ v \in saved' => hand'[h].todo \in ClearTodos
        /\ hand'[h].todo \in LastTodos => state'.visit # v
  BY DEF Once
<1>4. v \in saved' /\ state'.visit = v =>
        \E h \in 1..Hands : hand'[h].visit = v /\ hand'[h].todo = <<"clear", "wipe">>
  BY DEF Once
<1> QED BY <1>1, <1>2, <1>3, <1>4 DEF Once

\* Nothing that begins is late.
LEMMA LateComes ==
  /\ LastTodos \subseteq ToStore
  /\ \A t \in Todos : Tail(t) \in LastTodos => Head(t) = "clear" \/ (Head(t) = "wipe" /\ t \in LastTodos)
<1>1. LastTodos \subseteq ToStore
  BY DEF LastTodos, ToStore
<1> SUFFICES ASSUME NEW t \in Todos, Tail(t) \in LastTodos, Head(t) # "clear"
             PROVE  Head(t) = "wipe" /\ t \in LastTodos
  BY <1>1
<1>2. Tail(t) \in ToStore
  BY <1>1
<1>3. CASE Head(t) = "take"
  <2>1. <<"save", "clear", "wipe">> \notin LastTodos /\ <<"clear", "wipe", "save">> \notin LastTodos
    BY DEF LastTodos
  <2> QED BY <1>3, <2>1, AtTake
<1>4. CASE Head(t) = "save"
  <2>1. <<"clear", "wipe">> \notin LastTodos /\ <<>> \notin LastTodos
    BY DEF LastTodos
  <2> QED BY <1>4, <2>1, AtSave
<1>5. CASE t \in ToStore /\ Head(t) # "save"
  BY <1>5 DEF ToStore, LastTodos
<1> QED BY <1>2, <1>3, <1>4, <1>5, StoreComes

LEMMA OnceOpens ==
  ASSUME DialogAssumption, DialogTypes, OnceInv, NEW h \in 1..Hands, NEW d \in Dialog, Open(h, d)
  PROVE  OnceInv'
<1>1. PICK s \in Table[d].opens : Begin(h, Opening(d), d, visits + 1, Table[d].asks, s)
  BY DEF Open
<1>2. PICK t, w : t \in OpenTodos /\ t = Opening(d) /\ w = visits + 1
  BY OpeningIs
<1>3. /\ s \in StepNames /\ Table[d].asks \in SUBSET Keys /\ t \in Todos
      /\ t \notin ToStore /\ t \notin ClearTodos
  BY <1>1, <1>2, FormSteps, SmallTodos, TodosDiffer DEF Todos
<1>4. /\ w \in Nat /\ hand \in [1..Hands -> HandType] /\ visits \in Nat /\ visits' = w
      /\ UNCHANGED <<state, saved, again, cut>> /\ Begin(h, t, d, w, Table[d].asks, s)
  BY <1>1, <1>2 DEF Open, DialogTypes, HandTypes, DialogTypeOK, DialogAssumption
<1>5. /\ hand' \in [1..Hands -> HandType] /\ hand[h].todo = <<>>
      /\ \A o \in (1..Hands) \ {h} : hand'[o] = hand[o]
      /\ hand'[h].todo = t /\ hand'[h].dialog = d /\ hand'[h].visit = w
      /\ hand'[h].writes = Table[d].asks /\ hand'[h].next = s /\ hand'[h].copy = Absent
  BY <1>3, <1>4, BeginEffect
<1>6. crossed \subseteq crossed'
  BY <1>4, BeginNotes
<1>7. hand[h].visit = 0
  BY <1>5, AnyHand DEF Free
<1>8. ASSUME NEW v \in 1..MostVisits, Lone(v)' PROVE Once(v)'
  <2>1. CASE v = w
    <3>1. \A o \in 1..Hands : o # h => hand'[o].visit # v
      BY <1>2, <1>4, <1>5, <2>1, AnyHand
    <3>2. v \notin saved' /\ v \notin again'
      BY <1>2, <1>4, <2>1 DEF DialogTypes, DialogTypeOK
    <3>3. t \notin LastTodos
      BY <1>3, LateComes
    <3> QED BY <1>5, <3>1, <3>2, <3>3 DEF Once
  <2>2. CASE v # w
    <3>1. Lone(v)
      BY <1>2, <1>4, <1>6, <1>8, <2>2 DEF Lone
    <3>2. Once(v) /\ v # 0
      BY <3>1 DEF OnceInv
    <3>3. \A o \in 1..Hands : hand[o].visit = v \/ hand'[o].visit = v => hand'[o] = hand[o]
      BY <1>5, <1>7, <2>2, <3>2
    <3> QED BY <1>4, <3>2, <3>3, OnceElse
  <2> QED BY <2>1, <2>2
<1> QED BY <1>8 DEF OnceInv

LEMMA OnceAnswers ==
  ASSUME DialogAssumption, DialogTypes, OnceInv, NEW h \in 1..Hands, NEW d \in Dialog,
         NEW s \in DOMAIN Steps(d), Answer(h, d, s)
  PROVE  OnceInv'
<1>1. PICK next \in Steps(d)[s].next, writes \in SUBSET Keys, t \in Todos :
         /\ writes \in {Steps(d)[s].writes} \cup (IF Steps(d)[s].skips THEN {{}} ELSE {})
         /\ t = Handler(d, s, writes, next) /\ next \in StepNames
         /\ \/ t \in OpenTodos \cup ShowTodos /\ next \in DOMAIN Steps(d)
            \/ t \in EndTodos /\ next = "end"
         /\ t \in ToRead \/ (t \in ToPass /\ writes = {})
         /\ Begin(h, t, d, state.visit, writes, next)
  BY AnswerBegins, SMTT(40)
<1>2. PICK w : w = state.visit
  OBVIOUS
<1>3. /\ w \in Nat /\ hand \in [1..Hands -> HandType] /\ w \in 1..visits
      /\ UNCHANGED <<state, visits, saved, again, cut>> /\ Begin(h, t, d, w, writes, next)
  BY <1>1, <1>2, AnswerBegins DEF DialogTypes, HandTypes, DialogTypeOK, DialogAssumption
<1>4. t \notin LastTodos
  BY <1>1, TodosBegin, LateComes
<1>5. /\ hand' \in [1..Hands -> HandType] /\ hand[h].todo = <<>>
      /\ \A o \in (1..Hands) \ {h} : hand'[o] = hand[o]
      /\ hand'[h].todo = t /\ hand'[h].dialog = d /\ hand'[h].visit = w
      /\ hand'[h].writes = writes /\ hand'[h].next = next /\ hand'[h].copy = Absent
  BY <1>1, <1>3, BeginEffect
<1>6. crossed \subseteq crossed'
      /\ \A o \in 1..Hands : hand[o].todo # <<>> => {w, hand[o].visit} \in crossed'
  BY <1>3, BeginNotes
<1>7. hand[h].visit = 0
  BY <1>5, AnyHand DEF Free
<1>8. ASSUME NEW v \in 1..MostVisits, Lone(v)' PROVE Once(v)'
  <2>1. Lone(v) /\ v # 0
    BY <1>3, <1>6, <1>8 DEF Lone
  <2>2. Once(v)
    BY <2>1 DEF OnceInv
  <2>3. CASE v = w
    <3>1. \A o \in 1..Hands : hand[o].visit # v
      <4> SUFFICES ASSUME NEW o \in 1..Hands, hand[o].visit = v PROVE FALSE
        OBVIOUS
      <4>1. {w, hand[o].visit} \in crossed'
        BY <1>6, <2>1, VisitIsBusy
      <4>2. {w, hand[o].visit} = {v}
        BY <2>3
      <4> QED BY <1>8, <4>1, <4>2 DEF Lone
    <3>2. v \notin saved
      BY <1>2, <2>2, <2>3, <3>1 DEF Once
    <3>3. \A o \in 1..Hands : hand'[o].visit = v => o = h
      BY <1>5, <3>1
    <3> QED BY <1>3, <1>4, <1>5, <2>2, <3>2, <3>3 DEF Once
  <2>4. CASE v # w
    <3>1. \A o \in 1..Hands : hand[o].visit = v \/ hand'[o].visit = v => hand'[o] = hand[o]
      BY <1>5, <1>7, <2>1, <2>4
    <3> QED BY <1>3, <2>2, <3>1, OnceElse
  <2> QED BY <2>3, <2>4
<1> QED BY <1>8 DEF OnceInv

LEMMA OnceCancels ==
  ASSUME DialogAssumption, DialogTypes, OnceInv, NEW h \in 1..Hands, Cancel(h)
  PROVE  OnceInv'
<1>1. PICK t : t = Clears
  OBVIOUS
<1>2. /\ Begin(h, t, "none", 0, {}, "none") /\ hand \in [1..Hands -> HandType]
      /\ UNCHANGED <<state, visits, saved, again, cut>>
  BY <1>1 DEF Cancel, DialogTypes, HandTypes
<1>3. t \in Todos /\ "none" \in StepNames
  BY <1>1, SmallTodos DEF Clears, Todos, StepNames
<1>4. /\ hand' \in [1..Hands -> HandType] /\ hand[h].todo = <<>>
      /\ \A o \in (1..Hands) \ {h} : hand'[o] = hand[o]
      /\ hand'[h].todo = t /\ hand'[h].dialog = "none" /\ hand'[h].visit = 0
      /\ hand'[h].writes = {} /\ hand'[h].next = "none" /\ hand'[h].copy = Absent
  BY <1>2, <1>3, BeginEffect
<1>5. crossed \subseteq crossed'
  BY <1>2, BeginNotes
<1>6. hand[h].visit = 0
  BY <1>4, AnyHand DEF Free
<1>7. ASSUME NEW v \in 1..MostVisits, Lone(v)' PROVE Once(v)'
  <2>1. Lone(v) /\ v # 0
    BY <1>2, <1>5, <1>7 DEF Lone
  <2>2. Once(v)
    BY <2>1 DEF OnceInv
  <2>3. \A o \in 1..Hands : hand[o].visit = v \/ hand'[o].visit = v => hand'[o] = hand[o]
    BY <1>4, <1>6, <2>1
  <2> QED BY <1>2, <2>2, <2>3, OnceElse
<1> QED BY <1>7 DEF OnceInv

\* A call of a handler that stores nothing.
LEMMA OnceCalls ==
  ASSUME DialogAssumption, DialogTypes, OnceInv, NEW h \in 1..Hands,
         \/ Clear(h) \/ Wipe(h) \/ ReadAnswers(h) \/ WriteAnswers(h) \/ Go(h)
         \/ Show(h) \/ Take(h) \/ FailHandler(h)
  PROVE  OnceInv'
<1>1. PICK l, m, op : l = hand[h] /\ m = hand'[h] /\ op = Head(l.todo)
  OBVIOUS
<1>2. hand[h].todo # <<>>
  BY DEF Clear, Wipe, ReadAnswers, WriteAnswers, Go, Show, Take, FailHandler, Does
<1>3. /\ l.todo \in Todos /\ hand \in [1..Hands -> HandType] /\ visits \in Nat
      /\ given \in [Keys -> 0..visits] /\ l.copy \in [Keys -> 0..visits]
  BY <1>1, <1>2, BusyHand DEF DialogTypes, HandTypes, DialogTypeOK, DialogAssumption
<1>4. UNCHANGED <<visits, saved, again, crossed>> /\ cut \subseteq cut'
  BY DEF Clear, Wipe, ReadAnswers, WriteAnswers, Go, Show, Take, FailHandler, observed
<1>5. PICK t \in {Tail(l.todo), <<>>}, c \in {Absent, given, l.copy} : Rest(h, t, c)
  <2>1. CASE Clear(h) \/ Wipe(h) \/ Go(h)
    BY <1>1, <2>1 DEF Clear, Wipe, Go, Then
  <2>2. CASE ReadAnswers(h) \/ WriteAnswers(h)
    BY <1>1, <2>2 DEF ReadAnswers, WriteAnswers
  <2>3. CASE Show(h)
    BY <1>1, <2>3 DEF Show, Then
  <2>4. CASE Take(h)
    BY <1>1, <2>4 DEF Take
  <2>5. CASE FailHandler(h)
    BY <1>1, <2>5 DEF FailHandler
  <2> QED BY <2>1, <2>2, <2>3, <2>4, <2>5
<1>6. t \in Todos \cup {<<>>} /\ c \in [Keys -> Nat]
  <2>1. c \in [Keys -> 0..visits]
    BY <1>3, Blank
  <2>2. c \in [Keys -> Nat]
    BY <2>1
  <2>3. t \in Todos \cup {<<>>}
    BY <1>3, TodoGoesOn
  <2> QED BY <2>2, <2>3
<1>7. /\ \A o \in (1..Hands) \ {h} : hand'[o] = hand[o]
      /\ t = <<>> => m = Free
      /\ t # <<>> => m.todo = t /\ m.visit = l.visit
  BY <1>1, <1>3, <1>5, <1>6, RestEffect
<1>8. \/ state' = NoState /\ op = "clear"
      \/ state'.visit = l.visit /\ op = "go"
      \/ state' = state /\ (op # "clear" \/ l.visit \in cut')
  BY <1>1 DEF Clear, Wipe, ReadAnswers, WriteAnswers, Go, Show, Take, FailHandler, Does
<1>9. ASSUME NEW v \in 1..MostVisits, Lone(v)' PROVE Once(v)'
  <2>1. Lone(v) /\ v # 0 /\ v \notin cut'
    BY <1>4, <1>9 DEF Lone
  <2>2. Once(v)
    BY <2>1 DEF OnceInv
  <2>3. CASE l.visit # v
    <3>1. \A o \in 1..Hands : hand[o].visit = v \/ hand'[o].visit = v => hand'[o] = hand[o]
      BY <1>1, <1>7, <2>1, <2>3 DEF Free
    <3>2. state'.visit = v => state.visit = v
      BY <1>8, <2>1, <2>3 DEF NoState
    <3> QED BY <1>4, <2>2, <3>1, <3>2, OnceElse
  <2>4. CASE l.visit = v
    <3>1. \A o \in 1..Hands : hand'[o].visit = v => o = h
      BY <1>1, <1>7, <2>2, <2>4 DEF Once
    <3>2. m.visit = v => t # <<>> /\ t = Tail(l.todo) /\ m.todo = t
      BY <1>7, <2>1 DEF Free
    <3>3. v \in saved => l.todo \in ClearTodos
      BY <1>1, <2>2, <2>4 DEF Once
    <3>4. m.visit = v /\ v \in saved => m.todo \in ClearTodos
      BY <1>3, <3>2, <3>3, TodoGoesOn
    <3>5. m.visit = v /\ m.todo \in LastTodos => state'.visit # v
      <4> SUFFICES ASSUME m.visit = v, m.todo \in LastTodos PROVE state'.visit # v
        OBVIOUS
      <4>1. op = "clear" \/ (op = "wipe" /\ l.todo \in LastTodos)
        BY <1>1, <1>3, <3>2, LateComes
      <4>2. CASE op = "clear"
        BY <1>8, <2>1, <2>4, <4>2 DEF NoState
      <4>3. CASE op = "wipe" /\ l.todo \in LastTodos
        BY <1>1, <1>8, <2>2, <2>4, <4>3 DEF Once
      <4> QED BY <4>1, <4>2, <4>3
    <3>6. ~(v \in saved /\ state'.visit = v)
      <4> SUFFICES ASSUME v \in saved, state'.visit = v PROVE FALSE
        OBVIOUS
      <4>1. l.todo \notin OpenTodos
        BY <3>3, TodosDiffer
      <4>2. op # "go"
        BY <1>1, <1>3, <4>1, AtGo
      <4>3. state' = state /\ op # "clear"
        BY <1>8, <2>1, <2>4, <4>2 DEF NoState
      <4>4. PICK o \in 1..Hands : hand[o].visit = v /\ hand[o].todo = <<"clear", "wipe">>
        BY <2>2, <4>3 DEF Once
      <4>5. l.todo = <<"clear", "wipe">>
        BY <1>1, <2>2, <2>4, <4>4 DEF Once
      <4> QED BY <1>1, <4>3, <4>5
    <3> QED BY <1>1, <1>4, <2>2, <3>1, <3>4, <3>5, <3>6 DEF Once
  <2> QED BY <2>3, <2>4
<1> QED BY <1>9 DEF OnceInv

LEMMA OnceSaves ==
  ASSUME DialogAssumption, DialogTypes, OnceInv, NEW h \in 1..Hands, Save(h)
  PROVE  OnceInv'
<1>1. PICK l, m : l = hand[h] /\ m = hand'[h]
  OBVIOUS
<1>2. /\ Does(h, "save") /\ Rest(h, Tail(l.todo), Absent)
      /\ UNCHANGED <<state, visits, crossed, cut>>
      /\ \/ UNCHANGED <<saved, again>>
         \/ saved' = saved \cup {l.visit} /\ again' = again \cup (saved \cap {l.visit})
  BY <1>1 DEF Save
<1>3. /\ l.todo \in Todos /\ hand \in [1..Hands -> HandType] /\ visits \in Nat
      /\ Head(l.todo) = "save"
  BY <1>1, <1>2, AtWork DEF DialogTypes, HandTypes
<1>4. PICK t, c : t = Tail(l.todo) /\ c = Absent
  OBVIOUS
<1>5. /\ l.todo = <<"save", "clear", "wipe">> \/ l.todo = <<"save">>
      /\ l.todo = <<"save", "clear", "wipe">> => t = <<"clear", "wipe">>
      /\ l.todo = <<"save">> => t = <<>>
      /\ l.todo \in EndTodos
  <2>1. \/ l.todo = <<"save", "clear", "wipe">> /\ t = <<"clear", "wipe">>
        \/ l.todo = <<"save">> /\ t = <<>>
    BY <1>3, <1>4, AtSave
  <2>2. l.todo \in EndTodos
    BY <2>1, SmallTodos DEF ToStore
  <2>3. <<"save", "clear", "wipe">> # <<"save">>
    OBVIOUS
  <2> QED BY <2>1, <2>2, <2>3
<1>6. t \in Todos \cup {<<>>} /\ c \in [Keys -> Nat]
  <2>1. c \in [Keys -> 0..visits]
    BY <1>3, <1>4, Blank
  <2> QED BY <1>3, <1>4, <2>1, TodoGoesOn
<1>7. /\ \A o \in (1..Hands) \ {h} : hand'[o] = hand[o]
      /\ t = <<>> => m = Free
      /\ t # <<>> => m.todo = t /\ m.visit = l.visit
  BY <1>1, <1>2, <1>3, <1>4, <1>6, RestEffect
<1>8. ASSUME NEW v \in 1..MostVisits, Lone(v)' PROVE Once(v)'
  <2>1. Lone(v) /\ v # 0
    BY <1>2, <1>8 DEF Lone
  <2>2. Once(v)
    BY <2>1 DEF OnceInv
  <2>3. CASE l.visit # v
    <3>1. \A o \in 1..Hands : hand[o].visit = v \/ hand'[o].visit = v => hand'[o] = hand[o]
      BY <1>1, <1>7, <2>1, <2>3 DEF Free
    <3>2. (v \in again' => v \in again) /\ (v \in saved' <=> v \in saved)
      BY <1>2, <2>3
    <3> QED BY <1>2, <2>2, <3>1, <3>2, OnceElse
  <2>4. CASE l.visit = v
    <3>1. \A o \in 1..Hands : hand'[o].visit = v => o = h
      BY <1>1, <1>7, <2>2, <2>4 DEF Once
    <3>2. v \notin saved /\ v \notin again'
      BY <1>1, <1>2, <1>5, <2>2, <2>4, TodosDiffer DEF Once
    <3>3. <<"clear", "wipe">> \in ClearTodos /\ <<"clear", "wipe">> \notin LastTodos
      BY SmallTodos DEF LastTodos
    <3>4. m.visit = v => m.todo = <<"clear", "wipe">> /\ t # <<>>
      BY <1>5, <1>7, <2>1 DEF Free
    <3>5. state'.visit = v => m.visit = v
      <4>1. state.visit = v => l.todo \notin LastTodos
        BY <1>1, <2>2, <2>4 DEF Once
      <4>2. state.visit = v => l.todo # <<"save">>
        BY <4>1 DEF LastTodos
      <4>3. t = <<"clear", "wipe">> => t # <<>>
        OBVIOUS
      <4> QED BY <1>2, <1>5, <1>7, <2>4, <4>2, <4>3
    <3>6. \A o \in 1..Hands : hand'[o].visit = v =>
            /\ v \in saved' => hand'[o].todo \in ClearTodos
            /\ hand'[o].todo \in LastTodos => state'.visit # v
      BY <1>1, <3>1, <3>3, <3>4
    <3>7. v \in saved' /\ state'.visit = v =>
            \E o \in 1..Hands : hand'[o].visit = v /\ hand'[o].todo = <<"clear", "wipe">>
      BY <1>1, <3>4, <3>5
    <3> QED BY <3>1, <3>2, <3>6, <3>7 DEF Once
  <2> QED BY <2>3, <2>4
<1> QED BY <1>8 DEF OnceInv

LEMMA OnceStep ==
  ASSUME DialogAssumption, DialogTypes, OnceInv, [DialogNext]_dialogVars
  PROVE  OnceInv'
<1>1. CASE DialogNext
  BY <1>1, DialogSteps, OnceOpens, OnceAnswers, OnceCancels, OnceCalls, OnceSaves
<1>2. CASE UNCHANGED dialogVars
  BY <1>2 DEF OnceInv, Lone, Once, dialogVars
<1> QED BY <1>1, <1>2

-----------------------------------------------------------------------------
(* OwnAnswers.  On the way of a visit v that crosses no other, the answers  *)
(* it has been asked for are v's own or none (Known), in the dictionary     *)
(* while v's state is set, and in what its handler read while it works.     *)
(* Another dialog that is being opened may be writing over them, but then   *)
(* it will take the state away, die, or cross v.                            *)

Bad == cut \cup UNION crossed
Fine(v) == {0, v} \cup Bad
Going == {hand[o].visit : o \in {j \in 1..Hands : hand[j].todo \in OpenTodos}}

\* What the handler l relies on.
Phase(l, dict, fine) ==
  /\ l.todo \in ToRead => \A k \in Known(l.dialog, l.next) \ l.writes : dict[k] \in fine
  /\ l.todo \in ToWrite => \A k \in Known(l.dialog, l.next) \ l.writes : l.copy[k] \in fine
  /\ l.todo \in ToPass => \A k \in Known(l.dialog, l.next) : dict[k] \in fine
  /\ l.todo \in ToStore => \A k \in Known(l.dialog, l.next) : l.copy[k] \in fine

KnownNow(dict, fine) == \A k \in Known(state.dialog, state.step) : dict[k] \in fine
Writing(l) == l.todo # <<>> /\ Head(l.todo) = "write"
Passing(l) == l.todo # <<>> => l.dialog = "none" \/ l.todo \in OpenTodos

Own(v) ==
  /\ \A h, o \in 1..Hands : hand[h].visit = v /\ hand[o].todo # <<>> => h = o
  /\ \A h \in 1..Hands : hand[h].visit = v => Phase(hand[h], given, Fine(v))
  /\ state.visit = v =>
       /\ \A o \in 1..Hands : hand[o].visit # v => Passing(hand[o])
       /\ KnownNow(given, Fine(v) \cup Going)
       /\ \A o \in 1..Hands : Writing(hand[o]) => KnownNow(hand[o].copy, Fine(v) \cup Going)

OwnInv == \A v \in 1..MostVisits : v \in 1..visits /\ v \notin Bad => Own(v)

\* Where a phase comes from.
LEMMA PhaseComes ==
  ASSUME NEW t \in Todos
  PROVE  /\ Tail(t) \in ToRead => Head(t) = "wipe"
         /\ Tail(t) \in ToWrite => t \in ToRead
         /\ Tail(t) \in ToPass =>
              Head(t) = "wipe" \/ t \in ToWrite \/ (Head(t) = "show" /\ t \in ToPass)
         /\ Tail(t) \in ToStore => t \in ToStore \/ (Head(t) = "take" /\ t \in ToPass)
         /\ Tail(t) # <<>> /\ Head(Tail(t)) = "write" => Head(t) = "read"
<1>1. ToRead \cup ToWrite \cup ToPass \cup ToStore \subseteq Todos \ VoiceTodos
  <2>1. ToRead \cup ToWrite \cup ToPass \cup ToStore \subseteq OpenTodos \cup ShowTodos \cup EndTodos
    BY DEF OpenTodos, ShowTodos, EndTodos, ToRead, ToWrite, ToPass, ToStore
  <2> QED BY <2>1, TodosDiffer DEF Todos
<1>2. PICK u : u = Tail(t)
  OBVIOUS
<1>3. u \in Todos \cup {<<>>}
  BY <1>2, TodoGoesOn
<1>4. /\ <<>> \notin Todos
      /\ u \in ToRead => Head(u) = "read"
      /\ u \in ToWrite => Head(u) = "write"
      /\ u \in ToPass => Head(u) \in {"go", "show", "take"}
      /\ u \in ToStore => Head(u) \in {"save", "clear", "wipe"}
  BY <1>1, TodosBegin
<1>5. /\ Head(<<"wipe">>) = "wipe" /\ Head(<<"wipe", "save">>) = "wipe"
      /\ Head(<<"save">>) = "save" /\ Head(<<"go">>) = "go"
      /\ Head(<<"save", "clear", "wipe">>) = "save" /\ Head(<<"clear", "wipe", "save">>) = "clear"
      /\ Head(<<"clear", "wipe">>) = "clear" /\ Head(<<"read", "write">>) = "read"
  OBVIOUS
<1>6. CASE Head(t) = "clear"
  <2>1. Head(u) = "wipe"
    BY <1>2, <1>5, <1>6, AtClear
  <2> QED BY <1>2, <1>4, <1>6, <2>1, StoreComes
<1>7. CASE Head(t) = "wipe"
  <2>1. u = <<>> \/ Head(u) \in {"read", "go", "save"}
    BY <1>2, <1>5, <1>7, AtWipe
  <2> QED BY <1>1, <1>2, <1>4, <1>7, <2>1, StoreComes
<1>8. CASE Head(t) = "read"
  <2>1. Head(u) = "write" /\ (t \in ToRead \/ u = <<"write">>)
    BY <1>2, <1>8, AtRead
  <2>2. <<"write">> \in VoiceTodos
    BY SmallTodos
  <2> QED BY <1>1, <1>2, <1>4, <1>8, <2>1, <2>2
<1>9. CASE Head(t) = "write"
  <2>1. u = <<>> \/ (t \in ToWrite /\ u \in ToPass)
    BY <1>2, <1>9, AtWrite
  <2> QED BY <1>1, <1>2, <1>4, <1>9, <2>1
<1>10. CASE Head(t) = "go"
  <2>1. u = <<>> \/ (u = <<"read", "write">> /\ Head(u) = "read" /\ u \in VoiceTodos)
    BY <1>2, <1>5, <1>10, AtGo, SmallTodos
  <2> QED BY <1>1, <1>2, <1>4, <2>1
<1>11. CASE Head(t) = "show"
  <2>1. t \in ToPass /\ Head(u) = "go"
    BY <1>2, <1>5, <1>11, AtShow
  <2> QED BY <1>2, <1>4, <1>11, <2>1
<1>12. CASE Head(t) = "take"
  <2>1. t \in ToPass /\ Head(u) \in {"save", "clear"}
    BY <1>2, <1>5, <1>12, AtTake
  <2> QED BY <1>2, <1>4, <1>12, <2>1
<1>13. CASE Head(t) = "save"
  <2>1. u = <<>> \/ Head(u) = "clear"
    BY <1>2, <1>5, <1>13, AtSave
  <2> QED BY <1>1, <1>2, <1>4, <1>13, <2>1, StoreComes
<1> QED BY <1>6, <1>7, <1>8, <1>9, <1>10, <1>11, <1>12, <1>13, TodosBegin

\* A dialog that is being opened stays so until it sets its state.
LEMMA OpenStays ==
  ASSUME NEW t \in OpenTodos, Head(t) # "go"
  PROVE  Head(t) \in {"clear", "wipe", "read", "write"} /\ Tail(t) \in OpenTodos
<1>1. t \in Todos /\ Head(t) \in {"clear", "wipe", "read", "write"}
  BY TodosBegin DEF Todos
<1>2. CASE Head(t) = "clear"
  <2>1. <<"clear", "wipe", "save">> \in EndTodos
    BY SmallTodos DEF ToStore
  <2> QED BY <1>1, <1>2, <2>1, AtClear, SmallTodos, TodosDiffer
<1>3. CASE Head(t) = "wipe"
  <2>1. <<"wipe", "save">> \in EndTodos
    BY SmallTodos DEF ToStore
  <2> QED BY <1>1, <1>3, <2>1, AtWipe, SmallTodos, TodosDiffer
<1>4. CASE Head(t) = "read"
  BY <1>1, <1>4, AtRead, SmallTodos, TodosDiffer
<1>5. CASE Head(t) = "write"
  BY <1>1, <1>5, AtWrite, SmallTodos, TodosDiffer
<1> QED BY <1>1, <1>2, <1>3, <1>4, <1>5

LEMMA KnownKeys == ASSUME NEW d \in Dialog, NEW s PROVE Known(d, s) \subseteq Keys
BY DEF Known, Keys

\* A visit no hand works on, while hand h moves.
LEMMA OwnElse ==
  ASSUME NEW v, NEW h \in 1..Hands, Own(v),
         \A o \in (1..Hands) \ {h} : hand'[o] = hand[o],
         \A o \in 1..Hands : hand'[o].visit # v,
         NEW fine, fine = (Fine(v) \cup Going)',
         state'.visit = v =>
           /\ state' = state /\ Passing(hand'[h]) /\ Fine(v) \cup Going \subseteq fine
           /\ KnownNow(given', fine)
           /\ Writing(hand'[h]) => KnownNow(hand'[h].copy, fine)
  PROVE  Own(v)'
<1>1. CASE state'.visit = v
  <2>1. \A k : (KnownNow(k, fine))' <=> KnownNow(k, fine)
    BY <1>1 DEF KnownNow
  <2>2. \A k : KnownNow(k, Fine(v) \cup Going) => KnownNow(k, fine)
    BY <1>1 DEF KnownNow
  <2>3. \A o \in 1..Hands : Passing(hand'[o])
    BY <1>1 DEF Own, Passing
  <2>4. \A o \in 1..Hands : Writing(hand'[o]) => KnownNow(hand'[o].copy, fine)
    BY <1>1, <2>2 DEF Own
  <2> QED BY <1>1, <2>1, <2>3, <2>4 DEF Own, Passing, Writing, KnownNow
<1>2. CASE state'.visit # v
  BY <1>2 DEF Own
<1> QED BY <1>1, <1>2

\* A dialog that begins leaves the other visits alone.
LEMMA OwnElseBegins ==
  ASSUME DialogAssumption, DialogTypes, NEW h \in 1..Hands, NEW t \in Todos,
         NEW d \in Dialog \cup {"none"}, NEW w \in Nat, NEW writes \in SUBSET Keys,
         NEW next \in StepNames, Begin(h, t, d, w, writes, next),
         UNCHANGED <<state, given, cut>>,
         NEW v \in 1..visits, v # w, Own(v), v \notin Bad',
         d = "none" \/ t \in OpenTodos \/ state.visit = w
  PROVE  Own(v)'
<1>0. hand \in [1..Hands -> HandType] /\ visits \in Nat
  BY DEF DialogTypes, HandTypes, DialogTypeOK, DialogAssumption
<1>1. /\ hand' \in [1..Hands -> HandType] /\ hand[h].todo = <<>>
      /\ \A o \in (1..Hands) \ {h} : hand'[o] = hand[o]
      /\ hand'[h].todo = t /\ hand'[h].dialog = d /\ hand'[h].visit = w
      /\ hand'[h].writes = writes /\ hand'[h].next = next /\ hand'[h].copy = Absent
  BY <1>0, BeginEffect
<1>2. /\ crossed \subseteq crossed'
      /\ \A o \in 1..Hands : hand[o].todo # <<>> => {w, hand[o].visit} \in crossed'
  BY BeginNotes
<1>3. \A o \in 1..Hands : hand'[o].visit # v
  <2> SUFFICES ASSUME NEW o \in 1..Hands, hand'[o].visit = v PROVE FALSE
    OBVIOUS
  <2>1. o # h /\ hand[o].visit = v /\ v # 0
    BY <1>0, <1>1
  <2>2. {w, v} \in crossed'
    BY <1>2, <2>1, VisitIsBusy
  <2> QED BY <2>2 DEF Bad
<1>4. Fine(v) \subseteq Fine(v)' /\ Going \subseteq Going'
  <2>1. Bad \subseteq Bad'
    BY <1>2 DEF Bad
  <2>2. Going \subseteq Going'
    <3> SUFFICES ASSUME NEW o \in 1..Hands, hand[o].todo \in OpenTodos
                 PROVE  hand[o].visit \in Going'
      BY DEF Going
    <3>1. o # h
      BY <1>1, TodosBegin DEF Todos
    <3> QED BY <1>1, <3>1 DEF Going
  <2> QED BY <2>1, <2>2 DEF Fine
<1>5. PICK fine : fine = (Fine(v) \cup Going)'
  OBVIOUS
<1>6. state'.visit = v =>
        /\ state' = state /\ Passing(hand'[h]) /\ Fine(v) \cup Going \subseteq fine
        /\ KnownNow(given', fine) /\ (Writing(hand'[h]) => KnownNow(hand'[h].copy, fine))
  <2> SUFFICES ASSUME state.visit = v
               PROVE  /\ Passing(hand'[h])
                      /\ KnownNow(given, fine) /\ KnownNow(Absent, fine)
    BY <1>1, <1>4, <1>5
  <2>1. Passing(hand'[h])
    BY <1>1 DEF Passing
  <2>2. KnownNow(given, fine)
    BY <1>4, <1>5 DEF Own, KnownNow
  <2>3. state.dialog \in Dialog
    BY <1>0 DEF DialogTypes, DialogTypeOK, NoState
  <2>4. KnownNow(Absent, fine)
    BY <1>5, <2>3, KnownKeys DEF KnownNow, Absent, Fine
  <2> QED BY <2>1, <2>2, <2>4
<1> QED BY <1>1, <1>3, <1>5, <1>6, OwnElse

\* A handler of visit v that begins finds nobody at work.
LEMMA OwnBegins ==
  ASSUME DialogAssumption, DialogTypes, NEW h \in 1..Hands, NEW t \in Todos,
         NEW d \in Dialog, NEW v \in 1..visits', NEW writes \in SUBSET Keys,
         NEW next \in StepNames, Begin(h, t, d, v, writes, next),
         visits' \in Nat, UNCHANGED <<state, given, cut>>, v \notin Bad',
         state.visit = v => Own(v),
         t \in ToRead => \A k \in Known(d, next) \ writes : given[k] \in Fine(v)',
         t \in ToPass => \A k \in Known(d, next) : given[k] \in Fine(v)',
         t \notin ToWrite, t \notin ToStore
  PROVE  Own(v)'
<1>0. hand \in [1..Hands -> HandType] /\ visits \in Nat /\ v \in Nat
  BY DEF DialogTypes, HandTypes, DialogTypeOK, DialogAssumption
<1>1. /\ hand' \in [1..Hands -> HandType] /\ hand[h].todo = <<>>
      /\ \A o \in (1..Hands) \ {h} : hand'[o] = hand[o]
      /\ hand'[h].todo = t /\ hand'[h].dialog = d /\ hand'[h].visit = v
      /\ hand'[h].writes = writes /\ hand'[h].next = next /\ hand'[h].copy = Absent
  BY <1>0, BeginEffect
<1>2. /\ crossed \subseteq crossed'
      /\ \A o \in 1..Hands : hand[o].todo # <<>> => {v, hand[o].visit} \in crossed'
  BY <1>0, BeginNotes
<1>3. \A o \in 1..Hands : hand[o].todo = <<>>
  BY <1>2 DEF Bad
<1>4. \A o \in (1..Hands) \ {h} : hand'[o].todo = <<>> /\ hand'[o].visit # v
  BY <1>1, <1>3, <1>0, AnyHand DEF Free
<1>5. Fine(v) \subseteq Fine(v)' /\ Going = {}
  <2>1. Bad \subseteq Bad'
    BY <1>2 DEF Bad
  <2>2. <<>> \notin OpenTodos
    BY TodosBegin DEF Todos
  <2> QED BY <1>3, <2>1, <2>2 DEF Fine, Going
<1>6. \A o \in 1..Hands : hand'[o].visit = v => Phase(hand'[o], given', Fine(v)')
  <2>1. Phase(hand'[h], given', Fine(v)')
    BY <1>1 DEF Phase
  <2> QED BY <1>4, <2>1
<1>7. state'.visit = v =>
        /\ KnownNow(given, (Fine(v) \cup Going)')
        /\ KnownNow(Absent, (Fine(v) \cup Going)')
  <2> SUFFICES ASSUME state.visit = v
               PROVE  /\ KnownNow(given, (Fine(v) \cup Going)')
                      /\ KnownNow(Absent, (Fine(v) \cup Going)')
    OBVIOUS
  <2>1. KnownNow(given, Fine(v))
    BY <1>5 DEF Own
  <2>2. PICK fine : fine = (Fine(v) \cup Going)'
    OBVIOUS
  <2>3. 0 \in fine /\ Fine(v) \subseteq fine
    BY <1>5, <2>2 DEF Fine
  <2>4. state.dialog \in Dialog
    BY <1>0 DEF DialogTypes, DialogTypeOK, NoState
  <2>5. KnownNow(Absent, fine)
    BY <2>3, <2>4, KnownKeys DEF KnownNow, Absent
  <2>6. KnownNow(given, fine)
    BY <2>1, <2>3 DEF KnownNow
  <2> QED BY <2>2, <2>5, <2>6
<1>8. state'.visit = v =>
        /\ \A o \in 1..Hands : hand'[o].visit # v => Passing(hand'[o])
        /\ \A k \in Known(state'.dialog, state'.step) : given'[k] \in (Fine(v) \cup Going)'
        /\ \A o \in 1..Hands : Writing(hand'[o]) =>
             \A k \in Known(state'.dialog, state'.step) : hand'[o].copy[k] \in (Fine(v) \cup Going)'
  BY <1>1, <1>4, <1>7 DEF KnownNow, Passing, Writing
<1> QED BY <1>1, <1>4, <1>6, <1>8 DEF Own, KnownNow, Passing, Writing

LEMMA OwnOpens ==
  ASSUME DialogAssumption, DialogTypes, OwnInv, NEW h \in 1..Hands, NEW d \in Dialog, Open(h, d)
  PROVE  OwnInv'
<1>1. PICK s \in Table[d].opens : Begin(h, Opening(d), d, visits + 1, Table[d].asks, s)
  BY DEF Open
<1>2. PICK t, w : t \in OpenTodos /\ t = Opening(d) /\ w = visits + 1
  BY OpeningIs
<1>3. /\ s \in StepNames /\ Table[d].asks \in SUBSET Keys /\ t \in Todos
      /\ t \notin ToStore /\ Head(t) # "write"
  <2>1. t \in Todos /\ t \notin ToStore
    BY <1>2, SmallTodos, TodosDiffer DEF Todos
  <2>2. \/ Head(t) = "clear" \/ t \in ToRead
        \/ t \in {<<"go">>, <<"go", "read", "write">>}
    BY <1>2, OpeningIs
  <2>3. Head(<<"go">>) = "go" /\ Head(<<"go", "read", "write">>) = "go"
    OBVIOUS
  <2>4. Head(t) # "write"
    BY <2>1, <2>2, <2>3, TodosBegin
  <2> QED BY <1>1, <2>1, <2>4, FormSteps
<1>4. /\ w \in Nat /\ hand \in [1..Hands -> HandType] /\ visits \in Nat /\ visits' = w
      /\ UNCHANGED <<state, given, cut>> /\ Begin(h, t, d, w, Table[d].asks, s)
  BY <1>1, <1>2 DEF Open, DialogTypes, HandTypes, DialogTypeOK, DialogAssumption
<1>5. Bad \subseteq Bad'
  BY <1>4, BeginNotes DEF Bad
<1>6. Head(t) = "clear" \/ Known(d, s) \subseteq Table[d].asks
  BY <1>1, <1>2, OpeningIs, KnownAtStart
<1>7. ASSUME t \in ToPass PROVE Known(d, s) = {}
  <2>1. Head(t) # "clear" /\ t \notin ToRead
    BY <1>3, <1>7, TodosBegin
  <2>2. CASE Table[d].asks = {}
    BY <1>6, <2>1, <2>2
  <2>3. CASE d = "voice"
    <3>1. Used("voice") = {"nlp_parsed"} /\ Table["voice"].asks = {"parsed_cargo"}
      BY DEF Used, Table, VoiceCargo, Form
    <3> QED BY <1>6, <2>1, <2>3, <3>1 DEF Known
  <2> QED BY <1>2, <2>1, <2>2, <2>3, OpeningIs
<1>8. ASSUME NEW v \in 1..MostVisits, v \in 1..visits', v \notin Bad' PROVE Own(v)'
  <2>1. CASE v = w
    <3>1. state.visit # v
      BY <1>2, <1>4, <2>1 DEF DialogTypes, DialogTypeOK
    <3>2. t \in ToRead => \A k \in Known(d, s) \ Table[d].asks : given[k] \in Fine(v)'
      BY <1>3, <1>6, TodosBegin
    <3>3. t \in ToPass => \A k \in Known(d, s) : given[k] \in Fine(v)'
      BY <1>7
    <3>4. t \notin ToWrite /\ v \in 1..visits' /\ visits' \in Nat
          /\ Begin(h, t, d, v, Table[d].asks, s)
      BY <1>3, <1>4, <1>8, <2>1, TodosBegin
    <3> QED BY <1>3, <1>4, <1>8, <3>1, <3>2, <3>3, <3>4, OwnBegins
  <2>2. CASE v # w
    <3>1. v \in 1..visits /\ v \notin Bad
      BY <1>2, <1>4, <1>5, <1>8, <2>2
    <3>2. Own(v)
      BY <3>1 DEF OwnInv
    <3> QED BY <1>2, <1>3, <1>4, <1>8, <2>2, <3>1, <3>2, OwnElseBegins
  <2> QED BY <2>1, <2>2
<1> QED BY <1>8 DEF OwnInv

LEMMA OwnAnswered ==
  ASSUME DialogAssumption, DialogTypes, OwnInv, NEW h \in 1..Hands, NEW d \in Dialog,
         NEW s \in DOMAIN Steps(d), Answer(h, d, s)
  PROVE  OwnInv'
<1>1. PICK next \in Steps(d)[s].next, writes \in SUBSET Keys, t \in Todos :
         /\ writes \in {Steps(d)[s].writes} \cup (IF Steps(d)[s].skips THEN {{}} ELSE {})
         /\ t = Handler(d, s, writes, next) /\ next \in StepNames
         /\ \/ t \in OpenTodos \cup ShowTodos /\ next \in DOMAIN Steps(d)
            \/ t \in EndTodos /\ next = "end"
         /\ t \in ToRead \/ (t \in ToPass /\ writes = {})
         /\ Begin(h, t, d, state.visit, writes, next)
  BY AnswerBegins, SMTT(40)
<1>2. PICK w : w = state.visit
  OBVIOUS
<1>3. /\ w \in Nat /\ hand \in [1..Hands -> HandType] /\ w \in 1..visits
      /\ UNCHANGED <<state, given, visits, cut>> /\ Begin(h, t, d, w, writes, next)
      /\ state.dialog = d /\ state.step = s /\ visits \in Nat
  BY <1>1, <1>2, AnswerBegins DEF DialogTypes, HandTypes, DialogTypeOK, DialogAssumption
<1>4. Bad \subseteq Bad' /\ \A o \in 1..Hands : hand[o].todo # <<>> => {w, hand[o].visit} \in crossed'
  BY <1>3, BeginNotes DEF Bad
<1>5. t \notin ToWrite /\ t \notin ToStore
  BY <1>1, TodosBegin
<1>6. Known(d, next) \subseteq Known(d, s) \cup writes
  BY <1>1, KnownAtNext
<1>7. ASSUME NEW v \in 1..MostVisits, v \in 1..visits', v \notin Bad' PROVE Own(v)'
  <2>1. v \in 1..visits /\ Own(v)
    BY <1>3, <1>4, <1>7 DEF OwnInv
  <2>2. CASE v = w
    <3>1. \A o \in 1..Hands : hand[o].todo = <<>>
      BY <1>4, <1>7, <2>2 DEF Bad
    <3>2. Going = {}
      <4>1. <<>> \notin OpenTodos
        BY TodosBegin DEF Todos
      <4> QED BY <3>1, <4>1 DEF Going
    <3>3. \A k \in Known(d, s) : given[k] \in Fine(v)
      BY <1>2, <1>3, <2>1, <2>2, <3>2 DEF Own, KnownNow
    <3>4. Fine(v) \subseteq Fine(v)'
      BY <1>4 DEF Fine
    <3>5. \A k \in Known(d, next) \ writes : given[k] \in Fine(v)'
      BY <1>6, <3>3, <3>4
    <3>6. t \in ToPass => writes = {}
      BY <1>1, TodosBegin
    <3>7. Begin(h, t, d, v, writes, next) /\ v \in 1..visits' /\ visits' \in Nat
      BY <1>3, <2>2, <2>1
    <3> QED BY <1>1, <1>3, <1>5, <1>7, <2>1, <3>5, <3>6, <3>7, OwnBegins
  <2>3. CASE v # w
    BY <1>1, <1>2, <1>3, <1>7, <2>1, <2>3, OwnElseBegins
  <2> QED BY <2>2, <2>3
<1> QED BY <1>7 DEF OwnInv

LEMMA OwnCancels ==
  ASSUME DialogAssumption, DialogTypes, OwnInv, NEW h \in 1..Hands, Cancel(h)
  PROVE  OwnInv'
<1>1. PICK t : t = Clears
  OBVIOUS
<1>2. /\ Begin(h, t, "none", 0, {}, "none") /\ UNCHANGED <<state, given, visits, cut>>
  BY <1>1 DEF Cancel
<1>3. t \in Todos /\ "none" \in StepNames
  BY <1>1, SmallTodos DEF Clears, Todos, StepNames
<1>4. Bad \subseteq Bad'
  BY <1>2, BeginNotes DEF Bad
<1>5. ASSUME NEW v \in 1..MostVisits, v \in 1..visits', v \notin Bad' PROVE Own(v)'
  <2>1. v \in 1..visits /\ Own(v) /\ v # 0
    BY <1>2, <1>4, <1>5 DEF OwnInv
  <2> QED BY <1>2, <1>3, <1>5, <2>1, OwnElseBegins
<1> QED BY <1>5 DEF OwnInv

\* A call of a handler that lives on: what it does to the state, to the
\* dictionary and to what it has read.
Call(h, t, c) ==
  LET op == Head(hand[h].todo)
  IN /\ hand[h].todo # <<>> /\ Rest(h, t, c) /\ UNCHANGED <<visits, crossed, cut>>
     /\ op \notin {"show", "take"} => t = Tail(hand[h].todo)
     /\ \/ op = "clear" /\ state' = NoState
        \/ op = "go" /\ state' = [dialog |-> hand[h].dialog, step |-> hand[h].next,
                                  visit |-> hand[h].visit]
        \/ op \notin {"clear", "go"} /\ state' = state
     /\ \/ op = "wipe" /\ given' = Absent
        \/ /\ op = "write"
           /\ given' = [k \in Keys |-> IF k \in hand[h].writes THEN hand[h].visit
                                                              ELSE hand[h].copy[k]]
        \/ op \notin {"wipe", "write"} /\ given' = given
     /\ op \in {"read", "take"} /\ t # <<>> => c = given
     /\ op \in {"clear", "wipe", "go", "show"} /\ t # <<>> => c = hand[h].copy

LEMMA CallIs ==
  ASSUME DialogAssumption, DialogTypes, NEW h \in 1..Hands,
         \/ Clear(h) \/ Wipe(h) \/ ReadAnswers(h) \/ WriteAnswers(h) \/ Go(h)
         \/ Show(h) \/ Take(h) \/ Save(h)
  PROVE  \E t \in {Tail(hand[h].todo), <<>>}, c \in [Keys -> 0..visits] : Call(h, t, c)
<1>1. hand[h].todo # <<>>
  BY DEF Clear, Wipe, ReadAnswers, WriteAnswers, Go, Show, Take, Save, Does
<1>2. /\ hand[h].copy \in [Keys -> 0..visits] /\ given \in [Keys -> 0..visits]
      /\ Absent \in [Keys -> 0..visits]
  <2>1. visits \in Nat /\ given \in [Keys -> 0..visits]
    BY DEF DialogTypes, DialogTypeOK, DialogAssumption
  <2> QED BY <2>1, AnyHand, Blank
<1>3. CASE Clear(h) \/ Wipe(h) \/ Go(h)
  <2>1. Call(h, Tail(hand[h].todo), hand[h].copy)
    BY <1>1, <1>3 DEF Call, Clear, Wipe, Go, Then, Does, observed
  <2> QED BY <1>2, <2>1
<1>4. CASE ReadAnswers(h)
  <2>1. Call(h, Tail(hand[h].todo), given)
    BY <1>1, <1>4 DEF Call, ReadAnswers, Does, observed
  <2> QED BY <1>2, <2>1
<1>5. CASE WriteAnswers(h) \/ Save(h)
  <2>1. Call(h, Tail(hand[h].todo), Absent)
    BY <1>1, <1>5 DEF Call, WriteAnswers, Save, Does, observed
  <2> QED BY <1>2, <2>1
<1>6. CASE Show(h) \/ Take(h)
  <2>1. \/ Call(h, Tail(hand[h].todo), hand[h].copy)
        \/ Call(h, Tail(hand[h].todo), given)
        \/ Call(h, <<>>, Absent)
    BY <1>1, <1>6 DEF Call, Show, Take, Then, Does, observed
  <2> QED BY <1>2, <2>1
<1> QED BY <1>3, <1>4, <1>5, <1>6

\* What a call leaves of the hand.
LEMMA CallEffect ==
  ASSUME DialogAssumption, DialogTypes, NEW h \in 1..Hands,
         NEW t \in {Tail(hand[h].todo), <<>>}, NEW c \in [Keys -> 0..visits], Call(h, t, c)
  PROVE  /\ hand[h].todo \in Todos /\ t \in Todos \cup {<<>>}
         /\ \A o \in (1..Hands) \ {h} : hand'[o] = hand[o]
         /\ t = <<>> => hand'[h] = Free
         /\ t # <<>> => /\ hand'[h].todo = t /\ hand'[h].copy = c
                        /\ hand'[h].dialog = hand[h].dialog /\ hand'[h].visit = hand[h].visit
                        /\ hand'[h].writes = hand[h].writes /\ hand'[h].next = hand[h].next
         /\ Bad' = Bad /\ visits' = visits
<1>1. hand[h].todo # <<>> /\ Rest(h, t, c) /\ Bad' = Bad /\ visits' = visits
  BY DEF Call, Bad
<1>2. hand \in [1..Hands -> HandType] /\ hand[h].todo \in Todos /\ visits \in Nat
  BY <1>1, BusyHand DEF DialogTypes, HandTypes, DialogTypeOK, DialogAssumption
<1>3. t \in Todos \cup {<<>>}
  BY <1>2, TodoGoesOn
<1>4. c \in [Keys -> Nat]
  OBVIOUS
<1>5. PICK u : u = t
  OBVIOUS
<1>6. /\ hand' \in [1..Hands -> HandType]
      /\ \A o \in (1..Hands) \ {h} : hand'[o] = hand[o]
      /\ t = <<>> => hand'[h] = Free
      /\ t # <<>> => /\ hand'[h].todo = t /\ hand'[h].copy = c
                     /\ hand'[h].dialog = hand[h].dialog /\ hand'[h].visit = hand[h].visit
                     /\ hand'[h].writes = hand[h].writes /\ hand'[h].next = hand[h].next
  BY <1>1, <1>2, <1>3, <1>4, RestEffect
<1> QED BY <1>1, <1>2, <1>3, <1>6

\* A handler relies on what its calls make so.
LEMMA PhaseGoesOn ==
  ASSUME DialogAssumption, DialogTypes, NEW h \in 1..Hands,
         NEW t \in {Tail(hand[h].todo), <<>>}, NEW c \in [Keys -> 0..visits], Call(h, t, c),
         t # <<>>, NEW fine, 0 \in fine, hand[h].visit \in fine, Phase(hand[h], given, fine)
  PROVE  Phase(hand'[h], given', fine)
<1>1. PICK l, m, dict : l = hand[h] /\ m = hand'[h] /\ dict = given'
  OBVIOUS
<1>2. /\ l.todo \in Todos /\ t = Tail(l.todo) /\ m.todo = t /\ m.copy = c
      /\ m.dialog = l.dialog /\ m.writes = l.writes /\ m.next = l.next
  BY <1>1, CallEffect
<1>3. PICK known : known = Known(l.dialog, l.next)
  OBVIOUS
<1>4. t \in Todos
  BY <1>2, CallEffect
<1>5. known \subseteq Keys \/ l.todo \in ClearTodos
  <2>1. l.dialog \in Dialog \/ l.todo \in ClearTodos
    BY <1>1, <1>2, TodosBegin, BusyHand
  <2> QED BY <1>3, <2>1, KnownKeys
<1>6. ASSUME t \in ToRead PROVE \A k \in known \ l.writes : dict[k] \in fine
  <2>1. Head(l.todo) = "wipe" /\ dict = Absent
    BY <1>1, <1>2, <1>6, PhaseComes DEF Call
  <2>2. l.todo \notin ClearTodos
    BY <1>2, <1>4, <1>6, TodosBegin, TodoGoesOn
  <2> QED BY <1>5, <2>1, <2>2 DEF Absent
<1>7. ASSUME t \in ToWrite PROVE \A k \in known \ l.writes : c[k] \in fine
  <2>1. l.todo \in ToRead /\ Head(l.todo) = "read"
    BY <1>2, <1>7, PhaseComes, TodosBegin
  <2>2. c = given
    BY <1>1, <2>1 DEF Call
  <2> QED BY <1>1, <1>3, <2>1, <2>2 DEF Phase
<1>8. ASSUME t \in ToPass PROVE \A k \in known : dict[k] \in fine
  <2>1. CASE Head(l.todo) = "wipe"
    <3>1. dict = Absent
      BY <1>1, <2>1 DEF Call
    <3>2. l.todo \notin ClearTodos
      BY <1>2, <1>4, <1>8, TodosBegin, TodoGoesOn
    <3> QED BY <1>5, <3>1, <3>2 DEF Absent
  <2>2. CASE l.todo \in ToWrite
    <3>1. Head(l.todo) = "write" /\ l.todo \notin ClearTodos
      BY <1>2, <2>2, TodosBegin
    <3>2. dict = [k \in Keys |-> IF k \in l.writes THEN l.visit ELSE l.copy[k]]
      BY <1>1, <3>1 DEF Call
    <3>3. \A k \in known \ l.writes : l.copy[k] \in fine
      BY <1>1, <1>3, <2>2 DEF Phase
    <3> QED BY <1>1, <1>5, <3>1, <3>2, <3>3
  <2>3. CASE Head(l.todo) = "show" /\ l.todo \in ToPass
    <3>1. dict = given
      BY <1>1, <2>3 DEF Call
    <3> QED BY <1>1, <1>3, <2>3, <3>1 DEF Phase
  <2> QED BY <1>2, <1>8, <2>1, <2>2, <2>3, PhaseComes
<1>9. ASSUME t \in ToStore PROVE \A k \in known : c[k] \in fine
  <2>1. CASE Head(l.todo) = "take" /\ l.todo \in ToPass
    <3>1. c = given
      BY <1>1, <2>1 DEF Call
    <3> QED BY <1>1, <1>3, <2>1, <3>1 DEF Phase
  <2>2. CASE l.todo \in ToStore
    <3>1. Head(l.todo) \in {"clear", "wipe"}
      <4>1. Head(l.todo) # "save"
        BY <1>2, <1>9, SmallTodos, TodosDiffer, TodosBegin, AtSave
      <4> QED BY <1>2, <2>2, <4>1, TodosBegin
    <3>2. c = l.copy
      BY <1>1, <3>1 DEF Call
    <3> QED BY <1>1, <1>3, <2>2, <3>2 DEF Phase
  <2> QED BY <1>2, <1>9, <2>1, <2>2, PhaseComes
<1> QED BY <1>1, <1>2, <1>3, <1>6, <1>7, <1>8, <1>9 DEF Phase

\* A call for another visit, or for none, leaves visit v alone.
LEMMA OwnElseCalls ==
  ASSUME DialogAssumption, DialogTypes, NEW h \in 1..Hands,
         NEW t \in {Tail(hand[h].todo), <<>>}, NEW c \in [Keys -> 0..visits], Call(h, t, c),
         NEW v \in 1..visits, Own(v), hand[h].visit # v
  PROVE  Own(v)'
<1>1. PICK l, m, dict, op : l = hand[h] /\ m = hand'[h] /\ dict = given' /\ op = Head(l.todo)
  OBVIOUS
<1>2. /\ l.todo \in Todos /\ t \in Todos \cup {<<>>}
      /\ \A o \in (1..Hands) \ {h} : hand'[o] = hand[o]
      /\ t = <<>> => m = Free
      /\ t # <<>> => /\ m.todo = t /\ m.copy = c /\ m.dialog = l.dialog /\ m.visit = l.visit
      /\ Bad' = Bad
  BY <1>1, CallEffect, ZenonT(40)
<1>3. visits \in Nat /\ v # 0
  BY DEF DialogTypes, DialogTypeOK, DialogAssumption
<1>4. \A o \in 1..Hands : hand'[o].visit # v
  <2>1. hand[h].todo # <<>>
    BY DEF Call
  <2>2. \A o \in 1..Hands : hand[o].visit # v
    BY <2>1 DEF Own
  <2> QED BY <1>1, <1>2, <1>3, <2>2 DEF Free
<1>5. PICK fine : fine = (Fine(v) \cup Going)'
  OBVIOUS
<1>6. ASSUME state'.visit = v
      PROVE  /\ state' = state /\ Passing(m) /\ Fine(v) \cup Going \subseteq fine
             /\ KnownNow(dict, fine) /\ (Writing(m) => KnownNow(m.copy, fine))
  <2>1. state' = state /\ op # "clear" /\ op # "go"
    BY <1>1, <1>3, <1>6 DEF Call, NoState
  <2>2. /\ Passing(l) /\ KnownNow(given, Fine(v) \cup Going)
        /\ Writing(l) => KnownNow(l.copy, Fine(v) \cup Going)
    BY <1>1, <1>6, <2>1 DEF Own
  <2>3. l.todo # <<>>
    BY <1>1 DEF Call
  <2>4. \/ l.todo \in ClearTodos /\ l.dialog = "none" /\ op = "wipe"
        \/ l.todo \in OpenTodos /\ op \in {"wipe", "read", "write"}
    <3>1. CASE l.dialog = "none"
      <4>1. l.todo \in ClearTodos
        BY <1>1, <2>3, <3>1, BusyHand
      <4> QED BY <1>1, <1>2, <2>1, <3>1, <4>1, TodosBegin
    <3>2. CASE l.todo \in OpenTodos
      BY <1>1, <2>1, <3>2, OpenStays
    <3> QED BY <2>2, <2>3, <3>1, <3>2 DEF Passing
  <2>5. t = Tail(l.todo)
    BY <1>1, <2>4 DEF Call
  <2>6. \/ l.todo \in ClearTodos /\ l.dialog = "none" /\ t \in ClearTodos \cup {<<>>}
        \/ l.todo \in OpenTodos /\ t \in OpenTodos
    BY <1>1, <1>2, <2>1, <2>4, <2>5, TodoGoesOn, OpenStays
  <2>7. Passing(m)
    BY <1>2, <2>6 DEF Passing, Free
  <2>8. Fine(v) \cup Going \subseteq fine
    <3>1. Fine(v)' = Fine(v)
      BY <1>2 DEF Fine
    <3>2. ASSUME NEW o \in 1..Hands, hand[o].todo \in OpenTodos PROVE hand[o].visit \in Going'
      <4>1. CASE o = h
        <5>1. t \in OpenTodos /\ t # <<>>
          BY <1>1, <2>6, <3>2, <4>1, TodosDiffer, TodosBegin DEF Todos
        <5>2. hand'[h].todo \in OpenTodos /\ hand'[h].visit = hand[h].visit
          BY <1>1, <1>2, <5>1
        <5> QED BY <4>1, <5>2 DEF Going
      <4>2. CASE o # h
        BY <1>2, <3>2, <4>2 DEF Going
      <4> QED BY <4>1, <4>2
    <3>3. Going \subseteq Going'
      BY <3>2 DEF Going
    <3> QED BY <1>5, <3>1, <3>3
  <2>9. \A k \in Known(state.dialog, state.step) : k \in Keys
    <3>1. state.visit # 0
      BY <1>3, <1>6, <2>1
    <3>2. state.dialog \in Dialog
      BY <3>1 DEF DialogTypes, DialogTypeOK, NoState
    <3> QED BY <3>2, KnownKeys
  <2>10. KnownNow(dict, fine)
    <3>1. CASE op = "wipe"
      <4>1. dict = Absent /\ 0 \in fine
        BY <1>1, <2>8, <3>1 DEF Call, Fine
      <4> QED BY <2>9, <4>1 DEF KnownNow, Absent
    <3>2. CASE op = "read"
      <4>1. dict = given
        BY <1>1, <3>2 DEF Call
      <4> QED BY <2>2, <2>8, <4>1 DEF KnownNow
    <3>3. CASE op = "write"
      <4>1. dict = [k \in Keys |-> IF k \in l.writes THEN l.visit ELSE l.copy[k]]
        BY <1>1, <3>3 DEF Call
      <4>2. l.visit \in Going
        BY <1>1, <2>4, <3>3 DEF Going
      <4>3. KnownNow(l.copy, Fine(v) \cup Going)
        BY <1>1, <2>2, <2>3, <3>3 DEF Writing
      <4> QED BY <2>8, <2>9, <4>1, <4>2, <4>3 DEF KnownNow
    <3> QED BY <2>4, <3>1, <3>2, <3>3
  <2>11. Writing(m) => KnownNow(m.copy, fine)
    <3> SUFFICES ASSUME Writing(m) PROVE KnownNow(m.copy, fine)
      OBVIOUS
    <3>1. m.todo # <<>> /\ Head(m.todo) = "write"
      BY DEF Writing
    <3>2. t # <<>> /\ m.todo = t /\ m.copy = c
      BY <1>2, <3>1 DEF Free
    <3>3. op = "read"
      BY <1>1, <1>2, <2>5, <3>1, <3>2, PhaseComes
    <3>4. c = given
      BY <1>1, <3>2, <3>3 DEF Call
    <3> QED BY <2>2, <2>8, <3>2, <3>4 DEF KnownNow
  <2> QED BY <2>1, <2>7, <2>8, <2>10, <2>11
<1> QED BY <1>1, <1>2, <1>4, <1>5, <1>6, OwnElse

\* A call for visit v itself, which nobody else works at.
LEMMA OwnCalls ==
  ASSUME DialogAssumption, DialogTypes, NEW h \in 1..Hands,
         NEW t \in {Tail(hand[h].todo), <<>>}, NEW c \in [Keys -> 0..visits], Call(h, t, c),
         NEW v \in 1..visits, Own(v), hand[h].visit = v
  PROVE  Own(v)'
<1>1. PICK l, m, dict, op : l = hand[h] /\ m = hand'[h] /\ dict = given' /\ op = Head(l.todo)
  OBVIOUS
<1>2. /\ l.todo \in Todos /\ t \in Todos \cup {<<>>}
      /\ \A o \in (1..Hands) \ {h} : hand'[o] = hand[o]
      /\ t = <<>> => m = Free
      /\ t # <<>> => /\ m.todo = t /\ m.copy = c /\ m.dialog = l.dialog /\ m.visit = l.visit
      /\ Bad' = Bad
  BY <1>1, CallEffect, ZenonT(40)
<1>3. visits \in Nat /\ v # 0 /\ l.todo # <<>>
  BY <1>1 DEF DialogTypes, DialogTypeOK, DialogAssumption, Call
<1>4. \A o \in (1..Hands) \ {h} : hand[o].todo = <<>> /\ hand'[o].todo = <<>> /\ hand'[o].visit = 0
  <2>1. \A o \in (1..Hands) \ {h} : hand[o].todo = <<>>
    BY DEF Own
  <2> QED BY <1>2, <2>1, AnyHand DEF Free
<1>5. PICK fine : fine = Fine(v) /\ fine = Fine(v)' /\ 0 \in fine /\ v \in fine
  <2>1. Fine(v)' = Fine(v) /\ 0 \in Fine(v) /\ v \in Fine(v)
    BY <1>2 DEF Fine
  <2> QED BY <2>1
<1>6. Phase(l, given, fine)
  BY <1>1, <1>5 DEF Own
<1>7. \A o \in 1..Hands : hand'[o].visit = v => Phase(hand'[o], given', fine)
  <2>1. m.visit = v => t # <<>>
    BY <1>2, <1>3 DEF Free
  <2>2. t # <<>> => Phase(hand'[h], given', fine)
    BY <1>1, <1>5, <1>6, PhaseGoesOn
  <2> QED BY <1>1, <1>3, <1>4, <2>1, <2>2
<1>8. Going \subseteq fine /\ fine \subseteq (Fine(v) \cup Going)'
  <2>1. <<>> \notin OpenTodos
    BY TodosBegin DEF Todos
  <2>2. \A o \in 1..Hands : hand[o].todo \in OpenTodos => hand[o].visit = v
    BY <1>4, <2>1
  <2> QED BY <1>5, <2>2 DEF Going
<1>9. PICK known : known = Known(state'.dialog, state'.step)
  OBVIOUS
<1>10. ASSUME state'.visit = v
       PROVE  (\A k \in known : dict[k] \in fine) /\ (Writing(m) => \A k \in known : m.copy[k] \in fine)
  <2>1. CASE op = "go"
    <3>1. known = Known(l.dialog, l.next) /\ dict = given
      BY <1>1, <1>9, <2>1 DEF Call
    <3>2. l.todo \in ToPass /\ t = Tail(l.todo)
      BY <1>1, <1>2, <2>1, AtGo DEF Call
    <3>3. ~Writing(m)
      <4>1. Writing(m) => t # <<>> /\ m.todo = t /\ Head(t) = "write"
        BY <1>2 DEF Writing, Free
      <4> QED BY <1>1, <1>2, <2>1, <3>2, <4>1, PhaseComes
    <3> QED BY <1>6, <3>1, <3>2, <3>3 DEF Phase
  <2>2. CASE op # "go"
    <3>1. state' = state /\ op # "clear"
      BY <1>1, <1>3, <1>10, <2>2 DEF Call, NoState
    <3>2. /\ \A k \in known : given[k] \in fine
          /\ Writing(l) => \A k \in known : l.copy[k] \in fine
      BY <1>1, <1>5, <1>8, <1>9, <1>10, <3>1 DEF Own, KnownNow
    <3>3. known \subseteq Keys
      <4>1. state.visit # 0
        BY <1>3, <1>10, <3>1
      <4>2. state.dialog \in Dialog
        BY <4>1 DEF DialogTypes, DialogTypeOK, NoState
      <4> QED BY <1>9, <3>1, <4>2, KnownKeys
    <3>4. \A k \in known : dict[k] \in fine
      <4>1. CASE op = "wipe"
        <5>1. dict = Absent
          BY <1>1, <4>1 DEF Call
        <5> QED BY <1>5, <3>3, <5>1 DEF Absent
      <4>2. CASE op = "write"
        <5>1. dict = [k \in Keys |-> IF k \in l.writes THEN l.visit ELSE l.copy[k]]
          BY <1>1, <4>2 DEF Call
        <5>2. \A k \in known : l.copy[k] \in fine
          BY <1>1, <1>3, <3>2, <4>2 DEF Writing
        <5> QED BY <1>1, <1>5, <3>3, <5>1, <5>2
      <4>3. CASE op \notin {"wipe", "write"}
        <5>1. dict = given
          BY <1>1, <4>3 DEF Call
        <5> QED BY <3>2, <5>1
      <4> QED BY <4>1, <4>2, <4>3
    <3>5. Writing(m) => \A k \in known : m.copy[k] \in fine
      <4> SUFFICES ASSUME Writing(m) PROVE \A k \in known : m.copy[k] \in fine
        OBVIOUS
      <4>1. m.todo # <<>> /\ Head(m.todo) = "write"
        BY DEF Writing
      <4>2. t # <<>> /\ m.todo = t /\ m.copy = c /\ t = Tail(l.todo)
        BY <1>1, <1>2, <4>1 DEF Free
      <4>3. op = "read"
        BY <1>1, <1>2, <4>1, <4>2, PhaseComes
      <4>4. c = given
        BY <1>1, <4>2, <4>3 DEF Call
      <4> QED BY <3>2, <4>2, <4>4
    <3> QED BY <3>4, <3>5
  <2> QED BY <2>1, <2>2
<1>11. \A a, b \in 1..Hands : hand'[a].visit = v /\ hand'[b].todo # <<>> => a = b
  BY <1>3, <1>4
<1>12. state'.visit = v =>
         /\ \A o \in 1..Hands : hand'[o].visit # v => Passing(hand'[o])
         /\ \A k \in Known(state'.dialog, state'.step) : given'[k] \in (Fine(v) \cup Going)'
         /\ \A o \in 1..Hands : Writing(hand'[o]) =>
              \A k \in Known(state'.dialog, state'.step) : hand'[o].copy[k] \in (Fine(v) \cup Going)'
  <2> SUFFICES ASSUME state'.visit = v
               PROVE  /\ \A o \in 1..Hands : hand'[o].visit # v => Passing(hand'[o])
                      /\ \A k \in known : dict[k] \in (Fine(v) \cup Going)'
                      /\ \A o \in 1..Hands : Writing(hand'[o]) =>
                           \A k \in known : hand'[o].copy[k] \in (Fine(v) \cup Going)'
    BY <1>1, <1>9
  <2>1. \A o \in 1..Hands : hand'[o].visit # v => hand'[o].todo = <<>>
    BY <1>1, <1>2, <1>4 DEF Free
  <2>2. \A o \in 1..Hands : Writing(hand'[o]) => o = h
    BY <1>4 DEF Writing
  <2> QED BY <1>1, <1>8, <1>10, <2>1, <2>2 DEF Passing
<1>13. \A o \in 1..Hands : hand'[o].visit = v => Phase(hand'[o], given', Fine(v)')
  BY <1>5, <1>7
<1> QED BY <1>11, <1>12, <1>13 DEF Own, KnownNow, Passing, Writing

LEMMA OwnFails ==
  ASSUME DialogAssumption, DialogTypes, NEW h \in 1..Hands, FailHandler(h),
         NEW v \in 1..visits, Own(v), v \notin Bad'
  PROVE  Own(v)'
<1>1. /\ hand[h].todo # <<>> /\ Rest(h, <<>>, Absent)
      /\ cut' = cut \cup {hand[h].visit} /\ UNCHANGED <<state, given, visits, crossed>>
  BY DEF FailHandler
<1>2. hand \in [1..Hands -> HandType] /\ visits \in Nat /\ v # 0
  BY DEF DialogTypes, HandTypes, DialogTypeOK, DialogAssumption
<1>3. hand'[h] = Free /\ \A o \in (1..Hands) \ {h} : hand'[o] = hand[o]
  <2>1. Absent \in [Keys -> Nat]
    BY DEF Absent
  <2> QED BY <1>1, <1>2, <2>1, RestEffect
<1>4. Bad' = Bad \cup {hand[h].visit} /\ hand[h].visit # v
  BY <1>1 DEF Bad
<1>5. \A o \in 1..Hands : hand'[o].visit # v
  <2>1. \A o \in 1..Hands : hand[o].visit # v
    BY <1>1, <1>4 DEF Own
  <2> QED BY <1>2, <1>3, <2>1 DEF Free
<1>6. PICK fine : fine = (Fine(v) \cup Going)'
  OBVIOUS
<1>7. Fine(v) \cup Going \subseteq fine
  <2>1. Fine(v) \subseteq fine /\ hand[h].visit \in fine
    BY <1>4, <1>6 DEF Fine
  <2>2. ASSUME NEW o \in 1..Hands, hand[o].todo \in OpenTodos, o # h
        PROVE  hand[o].visit \in Going'
    BY <1>3, <2>2 DEF Going
  <2> QED BY <1>6, <2>1, <2>2 DEF Going
<1>8. ~Writing(Free) /\ Passing(Free)
  BY DEF Writing, Passing, Free
<1>9. state'.visit = v => KnownNow(given', fine)
  BY <1>1, <1>7 DEF Own, KnownNow
<1> QED BY <1>1, <1>3, <1>5, <1>6, <1>7, <1>8, <1>9, OwnElse

LEMMA OwnStep ==
  ASSUME DialogAssumption, DialogTypes, OwnInv, [DialogNext]_dialogVars
  PROVE  OwnInv'
<1>1. ASSUME NEW h \in 1..Hands,
             \/ Clear(h) \/ Wipe(h) \/ ReadAnswers(h) \/ WriteAnswers(h) \/ Go(h)
             \/ Show(h) \/ Take(h) \/ Save(h)
      PROVE  OwnInv'
  <2>1. PICK t \in {Tail(hand[h].todo), <<>>}, c \in [Keys -> 0..visits] : Call(h, t, c)
    BY <1>1, CallIs
  <2>2. Bad' = Bad /\ visits' = visits
    BY <2>1, CallEffect
  <2>3. ASSUME NEW v \in 1..MostVisits, v \in 1..visits', v \notin Bad' PROVE Own(v)'
    <3>1. v \in 1..visits /\ Own(v)
      BY <2>2, <2>3 DEF OwnInv
    <3> QED BY <2>1, <3>1, OwnCalls, OwnElseCalls
  <2> QED BY <2>3 DEF OwnInv
<1>2. ASSUME NEW h \in 1..Hands, FailHandler(h) PROVE OwnInv'
  <2>1. Bad \subseteq Bad' /\ visits' = visits
    BY <1>2 DEF FailHandler, Bad
  <2>2. ASSUME NEW v \in 1..MostVisits, v \in 1..visits', v \notin Bad' PROVE Own(v)'
    <3>1. v \in 1..visits /\ Own(v)
      BY <2>1, <2>2 DEF OwnInv
    <3> QED BY <1>2, <2>2, <3>1, OwnFails
  <2> QED BY <2>2 DEF OwnInv
<1>3. CASE DialogNext
  BY <1>1, <1>2, <1>3, DialogSteps, OwnOpens, OwnAnswered, OwnCancels
<1>4. CASE UNCHANGED dialogVars
  <2>1. Bad' = Bad /\ Going' = Going /\ UNCHANGED <<state, given, hand, visits>>
    BY <1>4 DEF dialogVars, Bad, Going
  <2> QED BY <2>1 DEF OwnInv, Own, Fine, KnownNow, Writing, Passing
<1> QED BY <1>3, <1>4

\* What is stored for a visit that met no other is its own.
LEMMA ForeignStep ==
  ASSUME DialogAssumption, DialogTypes, DeadInv, OwnInv, OwnAnswers, [DialogNext]_dialogVars
  PROVE  OwnAnswers'
<1>1. Bad \subseteq Bad'
  <2>1. ASSUME NEW h \in 1..Hands, NEW t, NEW d, NEW v, NEW writes, NEW next,
               Begin(h, t, d, v, writes, next)
        PROVE  crossed \subseteq crossed'
    BY <2>1, BeginNotes
  <2>2. crossed \subseteq crossed' /\ cut \subseteq cut'
    <3>1. CASE DialogNext
      BY <2>1, <3>1 DEF DialogNext, Open, Answer, Cancel, Clear, Wipe, ReadAnswers, WriteAnswers,
                        Go, Show, Take, Save, FailHandler, observed
    <3>2. CASE UNCHANGED dialogVars
      BY <3>2 DEF dialogVars
    <3> QED BY <3>1, <3>2
  <2> QED BY <2>2 DEF Bad
<1>2. ASSUME NEW f \in foreign'
      PROVE  f[2] = "truck_type" \/ {f[1], f[3]} \cap Bad' # {}
  <2>1. CASE f \in foreign
    <3>1. f[2] = "truck_type" \/ {f[1], f[3]} \cap Bad # {}
      BY <2>1 DEF OwnAnswers, Bad
    <3> QED BY <1>1, <3>1
  <2>2. CASE f \notin foreign
    <3>1. PICK h \in 1..Hands : Save(h)
      <4>1. DialogNext
        BY <1>2, <2>2 DEF dialogVars
      <4> QED BY <1>2, <2>2, <4>1 DEF DialogNext, Open, Answer, Cancel, Clear, Wipe, ReadAnswers,
                      WriteAnswers, Go, Show, Take, FailHandler, observed
    <3>2. PICK l, d, v : l = hand[h] /\ d = l.dialog /\ v = l.visit
      OBVIOUS
    <3>3. PICK k \in Used(d) : l.copy[k] \notin {0, v} /\ f = <<v, k, l.copy[k]>>
      BY <1>2, <2>2, <3>1, <3>2 DEF Save
    <3>4. l.todo \in ToStore
      BY <3>1, <3>2, AtWork, AtSave DEF ToStore, Save
    <3>5. l.todo \in EndTodos /\ l.todo # <<>>
      BY <3>4, SmallTodos, TodosBegin DEF Todos
    <3>6. d \in Dialog /\ v \in 1..visits /\ l.next = "end" /\ v \in 1..MostVisits
      <4>1. d \in Dialog /\ v \in 1..visits /\ l.next = "end"
        BY <3>2, <3>5, BusyHand
      <4>2. visits \in 0..MostVisits /\ MostVisits \in Nat
        BY DEF DialogTypes, DialogTypeOK, DialogAssumption
      <4> QED BY <4>1, <4>2
    <3>7. d # "voice"
      BY <3>2, <3>4 DEF DeadInv, HandDead
    <3>8. CASE v \notin Bad
      <4>1. Phase(l, given, Fine(v))
        BY <3>2, <3>6, <3>8 DEF OwnInv, Own
      <4>2. CASE k # "truck_type"
        <5>1. k \in Known(d, "end")
          BY <3>3, <3>6, <3>7, <4>2, KnownAtEnd
        <5>2. l.copy[k] \in Fine(v)
          BY <3>2, <3>4, <3>6, <4>1, <5>1 DEF Phase
        <5>3. l.copy[k] \in Bad
          BY <3>3, <5>2 DEF Fine
        <5> QED BY <1>1, <3>3, <5>3
      <4>3. CASE k = "truck_type"
        BY <3>3, <4>3
      <4> QED BY <4>2, <4>3
    <3>9. CASE v \in Bad
      BY <1>1, <3>3, <3>9
    <3> QED BY <3>8, <3>9
  <2> QED BY <2>1, <2>2
<1> QED BY <1>2 DEF OwnAnswers, Bad

\* What is stored is stored for a visit.
LEMMA VisitsSave ==
  ASSUME DialogAssumption, DialogTypes, 0 \notin again, [DialogNext]_dialogVars
  PROVE  0 \notin again'
<1>1. ASSUME NEW h \in 1..Hands, Save(h) PROVE 0 \notin again'
  <2>1. hand[h].todo \in ToStore /\ hand[h].todo # <<>>
    BY <1>1, AtWork, AtSave DEF ToStore, Save
  <2>2. hand[h].visit \in 1..visits /\ visits \in Nat
    BY <2>1, SmallTodos, BusyHand DEF DialogTypes, DialogTypeOK, DialogAssumption
  <2>3. again' \subseteq again \cup {hand[h].visit}
    BY <1>1 DEF Save
  <2> QED BY <2>2, <2>3
<1>2. CASE DialogNext
  BY <1>1, <1>2 DEF DialogNext, Open, Answer, Cancel, Clear, Wipe, ReadAnswers,
                    WriteAnswers, Go, Show, Take, FailHandler, observed
<1>3. CASE UNCHANGED dialogVars
  BY <1>3 DEF dialogVars
<1> QED BY <1>2, <1>3

\* Of a dialog the answers given in it are stored, and once, unless two of its
\* updates or two dialogs were handled at the same time or a handler died.
THEOREM DialogsStoreOnceAndOwn == DialogSpec => []SavedOnceAndOwn
<1> DEFINE Inv == DialogTypes /\ DeadInv /\ OnceInv /\ OwnInv /\ OwnAnswers /\ 0 \notin again
<1>1. DialogInit => Inv
  <2> SUFFICES ASSUME DialogInit PROVE Inv
    OBVIOUS
  <2>1. OnceInv /\ OwnInv
    BY DialogAssumption DEF OnceInv, Lone, OwnInv, DialogInit
  <2>2. OwnAnswers /\ 0 \notin again
    BY DEF OwnAnswers, DialogInit
  <2> QED BY <2>1, <2>2, DeadBegins, TypesBegin, DialogAssumption
<1>2. Inv /\ [DialogNext]_dialogVars => Inv'
  BY TypesStep, DeadStep, OnceStep, OwnStep, ForeignStep, VisitsSave, DialogAssumption
<1>3. Inv => SavedOnceAndOwn
  <2> SUFFICES ASSUME Inv, NEW v \in again PROVE {v} \in crossed \/ v \in cut
    BY DEF SavedOnceAndOwn, OneSavePerVisit
  <2>1. v \in 1..visits /\ v \in 1..MostVisits
    BY DialogAssumption DEF DialogTypes, DialogTypeOK, DialogAssumption
  <2> QED BY <2>1 DEF OnceInv, Lone, Once
<1> QED BY <1>1, <1>2, <1>3, PTL DEF DialogSpec

-----------------------------------------------------------------------------
(* What the services promise together.  The run of MCServices moves one     *)
(* part in each behaviour and lets the others stay; its steps are for each  *)
(* part that part's own or none, so what the proofs show of the parts'      *)
(* specifications holds of the specification that the run checks.           *)

\* Whatever service moves, the steps are for each service its own or none: what holds of
\* it by its own specification holds here.
THEOREM ServicesRunAlone ==
  ServicesSpec => /\ PremiumSpec /\ AISpec /\ WindowSpec /\ WatchSpec /\ TgSpec /\ VkSpec
                  /\ DialogSpec /\ FinanceSpec /\ LimitsSpec
<1>1. ServicesInit => /\ PremiumInit /\ AIInit /\ WindowInit /\ WatchInit /\ TgInit /\ VkInit
                      /\ DialogInit /\ FinanceInit /\ LimitsInit
  BY Zenon DEF ServicesInit
<1>2. [ServicesNext]_serviceVars => [PremiumNext]_premiumVars
  BY Zenon DEF ServicesNext, Others, serviceVars
<1>3. [ServicesNext]_serviceVars => [AINext]_aiVars
  BY Zenon DEF ServicesNext, Others, serviceVars
<1>4. [ServicesNext]_serviceVars => [WindowNext]_windowVars
  BY Zenon DEF ServicesNext, Others, serviceVars
<1>5. [ServicesNext]_serviceVars => [WatchNext]_watchVars
  BY Zenon DEF ServicesNext, Others, serviceVars
<1>6. [ServicesNext]_serviceVars => [TgNext]_tgVars
  BY Zenon DEF ServicesNext, Others, serviceVars
<1>7. [ServicesNext]_serviceVars => [VkNext]_vkVars
  BY Zenon DEF ServicesNext, Others, serviceVars
<1>8. [ServicesNext]_serviceVars => [DialogNext]_dialogVars
  BY Zenon DEF ServicesNext, Others, serviceVars
<1>9. [ServicesNext]_serviceVars => [FinanceNext]_financeVars
  BY Zenon DEF ServicesNext, Others, serviceVars
<1>10. [ServicesNext]_serviceVars => [LimitsNext]_limitVars
  BY Zenon DEF ServicesNext, Others, serviceVars
<1> QED
  BY <1>1, <1>2, <1>3, <1>4, <1>5, <1>6, <1>7, <1>8, <1>9, <1>10, PTL
     DEF ServicesSpec, PremiumSpec, AISpec, WindowSpec, WatchSpec, TgSpec, VkSpec, DialogSpec,
         FinanceSpec, LimitsSpec

\* The invariants of the smaller services have their types among them.
LEMMA SmallTypesHold ==
  WatchSpec /\ TgSpec /\ VkSpec /\ FinanceSpec /\ LimitsSpec =>
    [](WatchTypeOK /\ TgTypeOK /\ VkTypeOK /\ FinanceTypeOK /\ LimitsTypeOK)
<1>1. WatchInv => WatchTypeOK
  BY DEF WatchInv
<1>2. TgInv => TgTypeOK
  BY DEF TgInv
<1>3. VkInv => VkTypeOK
  BY DEF VkInv
<1>4. FinanceInv => FinanceTypeOK
  BY DEF FinanceInv
<1>5. LimitsInv => LimitsTypeOK
  BY DEF LimitsInv
<1>6. WatchSpec => []WatchInv
  BY WatchStart, WatchStep, PTL DEF WatchSpec
<1>7. TgSpec => []TgInv
  BY TgStart, TgStep, PTL DEF TgSpec
<1>8. VkSpec => []VkInv
  BY VkStart, VkStep, PTL DEF VkSpec
<1>9. FinanceSpec => []FinanceInv
  BY FinanceStart, FinanceStep, PTL DEF FinanceSpec
<1>10. LimitsSpec => []LimitsInv
  BY LimitsStart, LimitsStep, PTL DEF LimitsSpec
<1> QED BY <1>1, <1>2, <1>3, <1>4, <1>5, <1>6, <1>7, <1>8, <1>9, <1>10, PTL

\* Every variable of every service keeps its type: all nine of them, whichever moves.
THEOREM TypesHold == ServicesSpec => []TypesOK
<1>1. (/\ PremiumTypeOK /\ AITypeOK /\ WindowTypeOK /\ DialogTypeOK /\ WatchTypeOK
       /\ TgTypeOK /\ VkTypeOK /\ FinanceTypeOK /\ LimitsTypeOK) => TypesOK
  BY Zenon DEF TypesOK
<1> QED BY <1>1, ServicesRunAlone, SmallTypesHold, PremiumTypeCorrect, AITypeCorrect,
           WindowTypeCorrect, DialogTypesHold, PTL

\* The run's own specification keeps all that the services promise but that a job once begun
\* is answered.
THEOREM ServicesHold ==
  ServicesSpec => /\ [](RewardOnce /\ NoDayForFree) /\ DaysLostOnlyToOverlap /\ []JobsAreKept
                  /\ [](NothingFallsThrough /\ ToldAsOftenAsWindowsOverlap /\ AlarmNeedsCrowd)
                  /\ [](MissedOnlyInGap /\ PassedOnOnce /\ SavedOnceAndOwn /\ DeadEnds)
                  /\ [](BlockedOnceAndLate /\ CounterLives)
BY ServicesRunAlone, OneRewardEach, NoFreePremium, DaysLostOnlySo, JobsKept, NothingMissed,
   ToldNoMoreOften, NoAlarmWithoutCrowd, OnlyTheGapIsMissed, VkPassesOnOnce,
   DialogsStoreOnceAndOwn, DeadEndsStay, BlockedFairly, CounterEnds, PTL
=============================================================================
