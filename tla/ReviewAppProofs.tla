---------------------------- MODULE ReviewAppProofs ----------------------------
(***************************************************************************)
(* The way out of the terminal application, for every way to start it: it  *)
(* stops only after the pull-request review and the changed preferences    *)
(* were decided on, and GitHub receives one review, with the text the      *)
(* reviewer saved.                                                         *)
(***************************************************************************)
EXTENDS ReviewApp, TLAPS

\* The prompts that end in a submission are open only while there is none yet.
SubmittedOnce ==
  /\ ui.mode \in {"PublishPrompt", "VerdictPrompt", "OverallComment"} => pr.outcome = None
  /\ ui.mode = "Message" /\ ui.returnTo = "Verdict" => pr.outcome = None

\* The question about preferences comes after the one about the review.
AskedInOrder == ui.mode = "SavePrompt" /\ remote => pr.outcome # None

\* A text the reviewer saved is the text of the review from then on, and the
\* editor of the overall comment remembers the text it was opened on.
ChosenStands ==
  /\ pr.chosen # None => pr.edited /\ pr.body = pr.chosen
  /\ ui.mode = "OverallComment" => pr.original = pr.body

ThemeIsSelected == ui.mode = "Theme" => pref.selection # None

\* The inductive invariant.  The two properties alone are not: they need to
\* know which prompts can be open once a review was published or discarded.
AppInv ==
  /\ TypeOK
  /\ ThemeIsSelected
  /\ AskedInOrder
  /\ SubmittedOnce
  /\ ChosenStands
  /\ QuitIsDecided
  /\ OneReview

\* A prompt's own keys work in that prompt only.
LEMMA KeysOfPrompts ==
  ASSUME NEW m \in Modes, NEW a \in map_key_event(m)
  PROVE  /\ a = "Discard" => m = "SavePrompt"
         /\ a \in {"ConfirmPublish", "DiscardRemoteReview"} => m = "PublishPrompt"
         /\ a \in {"ChooseVerdict", "EditOverallComment"} => m = "VerdictPrompt"
         /\ a = "KeepReviewing" => m \in {"PublishPrompt", "VerdictPrompt"}
         /\ a = "SaveOverallComment" => m = "OverallComment"
         /\ a = "DismissMessage" => m = "Message"
         /\ a = "MoveChoice" => m = "Theme"
<1>1. a \in map_overlay_switch(m) \/ a \in map_normal \/ a \in map_review_map \/ a \in map_text(m)
      \/ (m = "Theme" /\ a \in map_theme) \/ a = "Cancel"
      \/ (m = "SavePrompt" /\ a \in {"Confirm", "Discard", "DisableSavePrompt"})
      \/ (m = "PublishPrompt" /\ a \in {"ConfirmPublish", "KeepReviewing", "DiscardRemoteReview"})
      \/ (m = "VerdictPrompt" /\ a \in {"ChooseVerdict", "EditOverallComment", "KeepReviewing"})
      \/ a = "TogglePrDescription" \/ a = "ToggleLinearTicket" \/ a \in map_chat
      \/ (m = "OverallComment" /\ a \in map_overall_comment)
      \/ (m = "Message" /\ a = "DismissMessage")
  BY DEF map_key_event, Modes, Prompts, Screens, input_mode
<1> QED BY <1>1 DEF map_overlay_switch, map_normal, map_review_map, map_text, map_chat,
                    map_overall_comment, map_theme

\* Every screen has its mode, which is no prompt.
LEMMA ModesOfScreens ==
  /\ \A s \in Screens : input_mode(s) \in Modes \ Prompts
  /\ Prompts \subseteq Modes /\ "Normal" \in Modes \ Prompts
<1>1. \A s \in Screens : input_mode(s) \in {"Normal", "ReviewMap", "PrDescription", "LinearTicket", "Chat"}
  BY DEF Screens, input_mode
<1>2. "Review" \in Screens /\ input_mode("Review") = "Normal"
  BY DEF Screens, input_mode
<1> QED BY <1>1, <1>2 DEF Modes, Prompts

\* Another mode or screen leaves a state of the user interface.
UiStates == [screen : Screens, mode : Modes, returnTo : {"Review", "Verdict"}]

\* Changing the mode keeps the type of the interface state.
LEMMA UiType ==
  ASSUME NEW u \in UiStates, NEW m \in Modes
  PROVE  [u EXCEPT !.mode = m] \in UiStates /\ [u EXCEPT !.mode = m].mode = m
BY DEF UiStates

\* So does changing the screen and the mode together.
LEMMA UiScreenType ==
  ASSUME NEW u \in UiStates, NEW m \in Modes, NEW sc \in Screens
  PROVE  /\ [u EXCEPT !.screen = sc, !.mode = m] \in UiStates
         /\ [u EXCEPT !.screen = sc, !.mode = m].mode = m
BY DEF UiStates

\* So does opening the message editor from one of its two callers.
LEMMA UiMessageType ==
  ASSUME NEW u \in UiStates, NEW r \in {"Review", "Verdict"}
  PROVE  /\ [u EXCEPT !.mode = "Message", !.returnTo = r] \in UiStates
         /\ [u EXCEPT !.mode = "Message", !.returnTo = r].mode = "Message"
         /\ [u EXCEPT !.mode = "Message", !.returnTo = r].returnTo = r
BY ModesOfScreens DEF UiStates, Prompts

\* The initial states satisfy the invariant.
LEMMA AppInitInv == Init => AppInv
<1> SUFFICES ASSUME Init PROVE AppInv
  OBVIOUS
<1> USE ThemesAreThere, TextMayBeEmpty, NoneIsApart, SettingsAreRecords
<1>0. /\ text = [chat |-> EmptyText, buf |-> EmptyText] /\ pane = [chat |-> FALSE, ticket |-> FALSE]
      /\ pr = [outcome |-> None, body |-> Typed(EmptyText), edited |-> FALSE, original |-> None, chosen |-> None]
      /\ notes = 0 /\ published = [count |-> 0, last |-> None] /\ ~quit
  BY Zenon DEF Init
<1>1. PICK sc \in {"ReviewMap", "Review"} : ui = [screen |-> sc, mode |-> input_mode(sc), returnTo |-> "Review"]
  BY DEF Init
<1>2. Typed(EmptyText) \in Bodies
  BY DEF Bodies
<1>3. TypeOK
  <2>1. ui \in [screen : Screens, mode : Modes, returnTo : {"Review", "Verdict"}]
    BY <1>1, ModesOfScreens DEF Screens
  <2>2. pr \in [outcome : {None, "Published", "Discarded"}, body : Bodies, edited : BOOLEAN,
                original : Bodies \union {None}, chosen : Bodies \union {None}]
    BY <1>0, <1>2
  <2>3. pref \in [active : Themes, selection : Themes \union {None}, view : BOOLEAN,
                  theme : Themes, declined : BOOLEAN, stored : BOOLEAN]
    BY DEF Init
  <2>4. /\ text \in [chat : Text, buf : Text] /\ pane \in [chat : BOOLEAN, ticket : BOOLEAN]
        /\ notes \in 0..MaxNotes /\ published.count \in Nat
        /\ published.last \in {None} \union [body : Bodies, chosen : Bodies \union {None}]
    BY <1>0
  <2> QED BY <2>1, <2>2, <2>3, <2>4, Zenon DEF Init, TypeOK
<1>4. ThemeIsSelected /\ AskedInOrder /\ SubmittedOnce /\ ChosenStands
  BY <1>0, <1>1 DEF input_mode, ThemeIsSelected, AskedInOrder, SubmittedOnce, ChosenStands
<1>5. QuitIsDecided /\ OneReview
  BY <1>0 DEF QuitIsDecided, OneReview
<1> QED BY <1>3, <1>4, <1>5 DEF AppInv

\* The types of the other variables that steps update field by field.
Prefs == [active : Themes, selection : Themes \union {None}, view : BOOLEAN,
          theme : Themes, declined : BOOLEAN, stored : BOOLEAN]
Reviews == [outcome : {None, "Published", "Discarded"}, body : Bodies, edited : BOOLEAN,
            original : Bodies \union {None}, chosen : Bodies \union {None}]
Texts == [chat : Text, buf : Text]
Panes == [chat : BOOLEAN, ticket : BOOLEAN]

\* TypeOK in these terms.
LEMMA TypesOfState ==
  ASSUME TypeOK
  PROVE  /\ ui \in UiStates /\ text \in Texts /\ pane \in Panes /\ pr \in Reviews /\ pref \in Prefs
         /\ notes \in 0..MaxNotes
BY DEF TypeOK, UiStates, Texts, Panes, Reviews, Prefs

\* A step that stays in the application, submits nothing and enters a mode
\* that no decision depends on keeps the invariant.
LEMMA StayingKeepsInv ==
  ASSUME AppInv, ~quit, UNCHANGED <<env, head, pr, published, quit>>, ui' \in UiStates,
         text' \in Texts, pane' \in Panes, pref' \in Prefs, notes' \in 0..MaxNotes,
         ui'.mode = "Theme" => pref'.selection # None,
         \/ ui'.mode \notin {"SavePrompt", "PublishPrompt", "VerdictPrompt", "OverallComment", "Message"}
         \/ ui' = ui
         \/ ui'.mode = "Message" /\ ui'.returnTo = "Review"
         \/ ui'.mode \in {"Message", "VerdictPrompt"} /\ pr.outcome = None
  PROVE  AppInv'
<1>1. TypeOK'
  BY DEF AppInv, TypeOK, UiStates, Texts, Panes, Prefs
<1>2. (ThemeIsSelected /\ AskedInOrder /\ SubmittedOnce /\ ChosenStands)'
  BY DEF AppInv, ThemeIsSelected, AskedInOrder, SubmittedOnce, ChosenStands, remote
<1>3. (QuitIsDecided /\ OneReview)'
  BY DEF AppInv, QuitIsDecided, OneReview, remote
<1> QED BY <1>1, <1>2, <1>3 DEF AppInv

\* Opening and closing screens.
LEMMA ScreensKeepInv ==
  ASSUME AppInv, ~quit, NEW a, ScreenAction(a), UNCHANGED <<env, head>>
  PROVE  AppInv'
<1>1. /\ ui' = ui \/ \E sc \in Screens : ui' = [ui EXCEPT !.screen = sc, !.mode = input_mode(sc)]
      /\ UNCHANGED text
  BY DEF ScreenAction, toggle_review_map, toggle_pr_description, toggle_linear_ticket, toggle_chat,
         close_overlay, SwitchFromChat, OpenSelected, DismissFailure, Toggle, set_screen, Same, Screens
<1>2. pane' \in Panes
  BY DEF AppInv, TypeOK, Panes, ScreenAction, toggle_review_map, toggle_pr_description, toggle_linear_ticket,
         toggle_chat, close_overlay, SwitchFromChat, OpenSelected, DismissFailure
<1>3. ui \in UiStates /\ text \in Texts /\ pref \in Prefs /\ notes \in 0..MaxNotes
  BY TypesOfState DEF AppInv
<1>4. UNCHANGED <<pr, pref, notes, published, quit>>
  BY DEF ScreenAction
<1>5. CASE ui' = ui
  BY <1>1, <1>2, <1>3, <1>4, <1>5, StayingKeepsInv DEF AppInv, ThemeIsSelected
<1>6. ASSUME NEW sc \in Screens, ui' = [ui EXCEPT !.screen = sc, !.mode = input_mode(sc)]
      PROVE  AppInv'
  <2>1. ui' \in UiStates /\ ui'.mode \in Modes \ Prompts
    BY <1>3, <1>6, ModesOfScreens, UiScreenType
  <2> QED BY <1>1, <1>2, <1>3, <1>4, <2>1, StayingKeepsInv DEF Prompts
<1> QED BY <1>1, <1>5, <1>6

\* The filter, the help, the editors and their text fields.
LEMMA ReviewKeepsInv ==
  ASSUME AppInv, ~quit, NEW a, ReviewAction(a), UNCHANGED <<env, head>>
  PROVE  AppInv'
<1>1. \/ ui' = ui
      \/ \E m \in {"Filter", "Help", "AgentSkill", "Normal", "Note", "Ask"} : ui' = [ui EXCEPT !.mode = m]
      \/ ui' = [ui EXCEPT !.mode = "Message", !.returnTo = "Review"]
  BY DEF ReviewAction, SetMode, Message, show_remote_message, Same
<1>2. text' \in Texts
  BY TextMayBeEmpty DEF AppInv, TypeOK, Texts, ReviewAction, SetMode, Message, Same, edit_focused_buffer
<1>3. ui \in UiStates /\ pane \in Panes /\ pref \in Prefs /\ notes \in 0..MaxNotes
  BY TypesOfState DEF AppInv
<1>4. UNCHANGED <<pane, pr, pref, notes, published, quit>>
  BY DEF ReviewAction
<1>5. {"Filter", "Help", "AgentSkill", "Normal", "Note", "Ask", "Message"} \subseteq Modes
  BY ModesOfScreens DEF Prompts
<1>6. CASE ui' = ui
  BY <1>2, <1>3, <1>4, <1>6, StayingKeepsInv DEF AppInv, ThemeIsSelected
<1>7. ASSUME NEW m \in {"Filter", "Help", "AgentSkill", "Normal", "Note", "Ask"}, ui' = [ui EXCEPT !.mode = m]
      PROVE  AppInv'
  <2>1. ui' \in UiStates /\ ui'.mode = m
    BY <1>3, <1>5, <1>7, UiType
  <2> QED BY <1>2, <1>3, <1>4, <2>1, StayingKeepsInv
<1>8. CASE ui' = [ui EXCEPT !.mode = "Message", !.returnTo = "Review"]
  <2>1. ui' \in UiStates /\ ui'.mode = "Message" /\ ui'.returnTo = "Review"
    BY <1>3, <1>8, UiMessageType
  <2> QED BY <1>2, <1>3, <1>4, <2>1, StayingKeepsInv
<1> QED BY <1>1, <1>6, <1>7, <1>8

\* Themes and view preferences.
LEMMA PrefsKeepInv ==
  ASSUME AppInv, ~quit, NEW a, PrefAction(a), UNCHANGED <<env, head>>
  PROVE  AppInv'
<1> USE NoneIsApart
<1>1. /\ ui \in UiStates /\ text \in Texts /\ pane \in Panes /\ pref \in Prefs /\ notes \in 0..MaxNotes
      /\ ui.mode = "Theme" => pref.selection \in Themes
  BY TypesOfState DEF AppInv, ThemeIsSelected, Prefs
<1>2. UNCHANGED <<pane, pr, notes, published, quit>>
  BY DEF PrefAction
<1>3. CASE ChangeView
  <2>1. pref' \in Prefs /\ pref'.selection = pref.selection /\ UNCHANGED <<ui, text>>
    BY <1>1, <1>3 DEF ChangeView, Prefs
  <2> QED BY <1>1, <1>2, <2>1, StayingKeepsInv
<1>4. CASE OpenThemeSelector
  <2>1. pref' \in Prefs /\ pref'.selection \in Themes
    BY <1>1, <1>4 DEF OpenThemeSelector, Prefs
  <2>2. ui' \in UiStates /\ ui'.mode = "Theme" /\ UNCHANGED text
    BY <1>1, <1>4, ModesOfScreens, UiType DEF OpenThemeSelector, SetMode, Prompts
  <2> QED BY <1>1, <1>2, <2>1, <2>2, StayingKeepsInv
<1>5. CASE MoveChoice
  <2>1. pref' \in Prefs /\ pref'.selection \in Themes /\ UNCHANGED <<ui, text>>
    BY <1>1, <1>5 DEF MoveChoice, Prefs
  <2> QED BY <1>1, <1>2, <2>1, StayingKeepsInv
<1>6. CASE ui.mode = "Theme" /\ ConfirmTheme
  <2>1. pref' \in Prefs
    BY <1>1, <1>6 DEF ConfirmTheme, persist_theme_choice, Prefs
  <2>2. ui' \in UiStates /\ ui'.mode \in Modes \ Prompts /\ UNCHANGED text
    <3>1. base_input_mode \in Modes \ Prompts
      BY <1>1, ModesOfScreens DEF base_input_mode, UiStates
    <3> QED BY <1>1, <1>6, <3>1, UiType DEF ConfirmTheme, SetMode
  <2> QED BY <1>1, <1>2, <2>1, <2>2, StayingKeepsInv DEF Prompts
<1> QED BY <1>3, <1>4, <1>5, <1>6 DEF PrefAction

\* Escape.
LEMMA CancelKeepsInv ==
  ASSUME AppInv, ~quit, cancel_input, UNCHANGED <<env, head>>
  PROVE  AppInv'
<1> USE NoneIsApart
<1>1. /\ ui \in UiStates /\ text \in Texts /\ pane \in Panes /\ pr \in Reviews /\ pref \in Prefs
      /\ notes \in 0..MaxNotes
  BY TypesOfState DEF AppInv
<1>2. UNCHANGED <<pane, notes, published, quit>>
  BY DEF cancel_input
<1>3. text' \in Texts
  BY <1>1, TextMayBeEmpty DEF cancel_input, Texts
<1>4. pref' \in Prefs
  BY <1>1 DEF cancel_input, Prefs
<1>5. CASE ui.mode = "OverallComment"
  <2>1. pr.outcome = None /\ pr.original = pr.body /\ pr.original # None
    BY <1>1, <1>5 DEF AppInv, SubmittedOnce, ChosenStands, Reviews
  <2>2. pr' \in Reviews /\ pr'.body = pr.body /\ pr'.edited = pr.edited /\ pr'.chosen = pr.chosen
        /\ pr'.outcome = None
    BY <1>1, <1>5, <2>1 DEF cancel_input, Reviews
  <2>3. ui' \in UiStates /\ ui'.mode = "VerdictPrompt"
    BY <1>1, <1>5, ModesOfScreens, UiType DEF cancel_input, Prompts
  <2>4. TypeOK'
    BY <1>1, <1>2, <1>3, <1>4, <2>2, <2>3 DEF AppInv, TypeOK, UiStates, Texts, Panes, Prefs, Reviews
  <2>5. (ThemeIsSelected /\ AskedInOrder /\ SubmittedOnce /\ ChosenStands)'
    BY <2>2, <2>3 DEF AppInv, ThemeIsSelected, AskedInOrder, SubmittedOnce, ChosenStands
  <2>6. (QuitIsDecided /\ OneReview)'
    BY <1>2, <2>1, <2>2 DEF AppInv, QuitIsDecided, OneReview
  <2> QED BY <2>4, <2>5, <2>6 DEF AppInv
<1>6. CASE ui.mode # "OverallComment"
  <2>1. UNCHANGED pr
    BY <1>6 DEF cancel_input
  <2>2. \E m \in Modes \ Prompts : ui' = [ui EXCEPT !.mode = m]
    <3>1. ui' = [ui EXCEPT !.mode = base_input_mode] \/ ui' = [ui EXCEPT !.mode = "Normal"]
      BY <1>6 DEF cancel_input
    <3>2. base_input_mode \in Modes \ Prompts
      BY <1>1, ModesOfScreens DEF base_input_mode, UiStates
    <3> QED BY <3>1, <3>2, ModesOfScreens
  <2>3. ui' \in UiStates /\ ui'.mode \in Modes \ Prompts
    <3>1. PICK m \in Modes \ Prompts : ui' = [ui EXCEPT !.mode = m]
      BY <2>2
    <3> QED BY <1>1, <3>1, UiType
  <2> QED BY <1>1, <1>2, <1>3, <1>4, <2>1, <2>3, StayingKeepsInv DEF Prompts
<1> QED BY <1>5, <1>6

\* Saving a note, asking a question, sending a chat message.
LEMMA ConfirmTextKeepsInv ==
  ASSUME AppInv, ~quit, ConfirmText, UNCHANGED <<env, head>>
  PROVE  AppInv'
<1>1. /\ ui \in UiStates /\ text \in Texts /\ pane \in Panes /\ pref \in Prefs /\ notes \in 0..MaxNotes
      /\ UNCHANGED <<pane, pr, pref, published, quit>>
  BY TypesOfState DEF AppInv, ConfirmText
<1>2. text' \in Texts
  BY <1>1, TextMayBeEmpty DEF ConfirmText, Texts
<1>3. notes' \in 0..MaxNotes
  <2>1. notes' = notes \/ (notes < MaxNotes /\ notes' = notes + 1)
    BY DEF ConfirmText
  <2> QED BY <1>1, <2>1, ThemesAreThere
<1>4. ui' \in UiStates /\ (ui' = ui \/ ui'.mode = "Normal")
  BY <1>1, ModesOfScreens, UiType DEF ConfirmText
<1> QED BY <1>1, <1>2, <1>3, <1>4, StayingKeepsInv DEF AppInv, ThemeIsSelected

\* The way out: what a step that decides something must establish.
Decided ==
  /\ ui.mode \notin {"Theme", "Message"}
  /\ ui.mode \in {"PublishPrompt", "VerdictPrompt", "OverallComment"} => pr.outcome = None
  /\ ui.mode = "OverallComment" => pr.original = pr.body
  /\ ui.mode = "SavePrompt" /\ remote => pr.outcome # None

\* A step that only decides about the review keeps the invariant when it keeps its parts.
LEMMA DecidingKeepsInv ==
  ASSUME AppInv, UNCHANGED <<env, head, pane, notes>>, ui' \in UiStates, text' \in Texts,
         pr' \in Reviews, pref' \in Prefs, quit' \in BOOLEAN, Decided',
         pr'.chosen # None => pr'.edited /\ pr'.body = pr'.chosen,
         QuitIsDecided', OneReview', published'.count \in Nat,
         published'.last \in {None} \union [body : Bodies, chosen : Bodies \union {None}]
  PROVE  AppInv'
<1>1. TypeOK'
  BY DEF AppInv, TypeOK, UiStates, Texts, Prefs, Reviews
<1>2. (ThemeIsSelected /\ AskedInOrder /\ SubmittedOnce /\ ChosenStands)'
  BY DEF Decided, ThemeIsSelected, AskedInOrder, SubmittedOnce, ChosenStands
<1> QED BY <1>1, <1>2 DEF AppInv

\* What holds of the review and of what GitHub received before each step.
LEMMA ReviewSoFar ==
  ASSUME AppInv
  PROVE  /\ pr \in Reviews /\ pref \in Prefs /\ text \in Texts /\ ui \in UiStates /\ notes \in 0..MaxNotes
         /\ pr.chosen # None => pr.edited /\ pr.body = pr.chosen
         /\ published.count \in Nat
         /\ published.last \in {None} \union [body : Bodies, chosen : Bodies \union {None}]
         /\ published.last # None => published.last.chosen \in {None, published.last.body}
         /\ published.count <= MaxLost + (IF pr.outcome = "Published" THEN 1 ELSE 0)
<1>1. TypeOK /\ ChosenStands /\ OneReview
  BY DEF AppInv
<1> QED BY <1>1, TypesOfState DEF TypeOK, ChosenStands, OneReview

\* The key to quit: the review first, then the preferences.
LEMMA RequestKeepsInv ==
  ASSUME AppInv, ~quit, request_quit, UNCHANGED <<env, head, pane, notes>>
  PROVE  AppInv'
<1>1. UNCHANGED <<text, pr, pref, published>> /\ OneReview /\ quit \in BOOLEAN
  BY DEF request_quit, AppInv, TypeOK
<1>2. CASE remote /\ pr.outcome = None
  <2>1. ui' \in UiStates /\ ui'.mode = "PublishPrompt" /\ ~quit' /\ quit' \in BOOLEAN
    <3>1. ui' = [ui EXCEPT !.mode = "PublishPrompt"] /\ quit' = quit
      BY <1>2 DEF request_quit
    <3> QED BY <1>1, <3>1, ReviewSoFar, ModesOfScreens, UiType DEF Prompts
  <2>2. Decided' /\ QuitIsDecided' /\ OneReview'
    BY <1>1, <1>2, <2>1 DEF Decided, QuitIsDecided, OneReview
  <2> QED BY <1>1, <2>1, <2>2, ReviewSoFar, DecidingKeepsInv
<1>3. CASE ~(remote /\ pr.outcome = None) /\ AsksToSave
  <2>1. ui' \in UiStates /\ ui'.mode = "SavePrompt" /\ ~quit' /\ quit' \in BOOLEAN
    <3>1. ui' = [ui EXCEPT !.mode = "SavePrompt"] /\ quit' = quit
      BY <1>3 DEF request_quit, request_local_quit
    <3> QED BY <1>1, <3>1, ReviewSoFar, ModesOfScreens, UiType DEF Prompts
  <2>2. Decided' /\ QuitIsDecided' /\ OneReview'
    BY <1>1, <1>3, <2>1 DEF Decided, QuitIsDecided, OneReview, remote
  <2> QED BY <1>1, <2>1, <2>2, ReviewSoFar, DecidingKeepsInv
<1>4. CASE ~(remote /\ pr.outcome = None) /\ ~AsksToSave
  <2>1. UNCHANGED ui /\ quit'
    BY <1>4 DEF request_quit, request_local_quit
  <2>2. QuitIsDecided' /\ OneReview'
    BY <1>1, <1>4 DEF QuitIsDecided, OneReview, remote, AsksToSave
  <2>3. (ThemeIsSelected /\ AskedInOrder /\ SubmittedOnce /\ ChosenStands)'
    BY <1>1, <2>1 DEF AppInv, ThemeIsSelected, AskedInOrder, SubmittedOnce, ChosenStands, remote
  <2>4. TypeOK'
    BY <1>1, <2>1 DEF AppInv, TypeOK
  <2> QED BY <2>2, <2>3, <2>4 DEF AppInv
<1> QED BY <1>2, <1>3, <1>4

\* The answers to the question about preferences, and discarding the review.
LEMMA AnswersKeepInv ==
  ASSUME AppInv, ~quit, UNCHANGED <<env, head, pane, notes>>,
         \/ ui.mode = "SavePrompt" /\ (save_and_quit \/ Discard)
         \/ ui.mode = "PublishPrompt" /\ DiscardRemoteReview
  PROVE  AppInv'
<1> USE NoneIsApart
<1>1. /\ UNCHANGED <<text, published>> /\ OneReview
      /\ ui.mode = "SavePrompt" /\ remote => pr.outcome # None
  BY DEF save_and_quit, Discard, DiscardRemoteReview, AppInv, AskedInOrder
<1>2. CASE ui.mode = "SavePrompt" /\ save_and_quit
  <2>1. PICK saved \in BOOLEAN : /\ quit' = saved /\ pref' = [pref EXCEPT !.stored = saved]
                                 /\ ui' = [ui EXCEPT !.mode = IF saved THEN "Normal" ELSE "SavePrompt"]
                                 /\ UNCHANGED pr
    BY <1>2 DEF save_and_quit
  <2>2. ui' \in UiStates /\ ui'.mode \in {"Normal", "SavePrompt"}
    BY <2>1, ReviewSoFar, ModesOfScreens, UiType DEF Prompts
  <2>3. pref' \in Prefs /\ (quit' => pref'.stored)
    BY <2>1, ReviewSoFar DEF Prefs
  <2>4. Decided' /\ QuitIsDecided' /\ OneReview'
    BY <1>1, <1>2, <2>1, <2>2, <2>3 DEF Decided, QuitIsDecided, OneReview, remote
  <2> QED BY <1>1, <2>1, <2>2, <2>3, <2>4, ReviewSoFar, DecidingKeepsInv
<1>3. CASE ui.mode = "SavePrompt" /\ Discard
  <2>1. /\ quit' = TRUE /\ pref' = [pref EXCEPT !.declined = TRUE]
        /\ ui' = [ui EXCEPT !.mode = "Normal"] /\ UNCHANGED pr
    BY <1>3 DEF Discard
  <2>2. ui' \in UiStates /\ ui'.mode = "Normal"
    BY <2>1, ReviewSoFar, ModesOfScreens, UiType
  <2>3. pref' \in Prefs /\ pref'.declined
    BY <2>1, ReviewSoFar DEF Prefs
  <2>4. Decided' /\ QuitIsDecided' /\ OneReview'
    BY <1>1, <1>3, <2>1, <2>2, <2>3 DEF Decided, QuitIsDecided, OneReview, remote
  <2> QED BY <1>1, <2>1, <2>2, <2>3, <2>4, ReviewSoFar, DecidingKeepsInv
<1>4. CASE ui.mode = "PublishPrompt" /\ DiscardRemoteReview
  <2>1. /\ quit' = TRUE /\ pr' = [pr EXCEPT !.outcome = "Discarded"]
        /\ ui' = [ui EXCEPT !.mode = "Normal"] /\ UNCHANGED pref
    BY <1>4 DEF DiscardRemoteReview
  <2>2. ui' \in UiStates /\ ui'.mode = "Normal"
    BY <2>1, ReviewSoFar, ModesOfScreens, UiType
  <2>3. /\ pr' \in Reviews /\ pr'.outcome = "Discarded" /\ pr'.chosen = pr.chosen /\ pr'.body = pr.body
        /\ pr'.edited = pr.edited
    BY <2>1, ReviewSoFar DEF Reviews
  <2>4. pr.outcome = None
    BY <1>4 DEF AppInv, SubmittedOnce
  <2>5. Decided' /\ QuitIsDecided' /\ OneReview'
    BY <1>1, <2>1, <2>2, <2>3, <2>4 DEF Decided, QuitIsDecided, OneReview, remote
  <2> QED BY <1>1, <2>1, <2>2, <2>3, <2>5, ReviewSoFar, DecidingKeepsInv
<1> QED BY <1>2, <1>3, <1>4

\* Choosing to publish, and the editor of the overall comment.
LEMMA CommentKeepsInv ==
  ASSUME AppInv, ~quit, UNCHANGED <<env, head, pane, notes>>,
         \/ ui.mode = "PublishPrompt" /\ confirm_remote_publish
         \/ ui.mode = "VerdictPrompt" /\ EditOverallComment
         \/ ui.mode = "OverallComment" /\ SaveOverallComment
  PROVE  AppInv'
<1> USE NoneIsApart
<1>1. /\ UNCHANGED <<pref, published, quit>> /\ OneReview /\ quit \in BOOLEAN
      /\ pr.outcome = None
  BY DEF confirm_remote_publish, EditOverallComment, SaveOverallComment, AppInv, TypeOK, SubmittedOnce
<1>2. text' \in Texts
  BY ReviewSoFar, TextMayBeEmpty
     DEF confirm_remote_publish, EditOverallComment, SaveOverallComment, Texts
<1>3. ui' \in UiStates /\ ui'.mode \in {"VerdictPrompt", "OverallComment"}
  <2>1. \E m \in {"VerdictPrompt", "OverallComment"} : ui' = [ui EXCEPT !.mode = m]
    BY DEF confirm_remote_publish, EditOverallComment, SaveOverallComment
  <2> QED BY <2>1, ReviewSoFar, ModesOfScreens, UiType DEF Prompts
<1>4. /\ pr' \in Reviews /\ pr'.outcome = None
      /\ pr'.chosen # None => pr'.edited /\ pr'.body = pr'.chosen
      /\ ui'.mode = "OverallComment" => pr'.original = pr'.body
  <2>1. CASE confirm_remote_publish
    <3>1. default_overall_body(notes) \in Bodies
      BY ReviewSoFar DEF Bodies
    <3>2. ui'.mode = "VerdictPrompt"
      <4>1. ui' = [ui EXCEPT !.mode = "VerdictPrompt"]
        BY <2>1 DEF confirm_remote_publish
      <4> QED BY <4>1, ReviewSoFar, ModesOfScreens, UiType DEF Prompts
    <3> QED BY <1>1, <2>1, <3>1, <3>2, ReviewSoFar DEF confirm_remote_publish, BodyToConfirm, Reviews
  <2>2. CASE EditOverallComment
    BY <1>1, <2>2, ReviewSoFar DEF EditOverallComment, Reviews
  <2>3. CASE SaveOverallComment
    <3>1. Typed(text.buf) \in Bodies
      BY ReviewSoFar DEF Bodies, Texts
    <3>2. ui'.mode = "VerdictPrompt"
      <4>1. ui' = [ui EXCEPT !.mode = "VerdictPrompt"]
        BY <2>3 DEF SaveOverallComment
      <4> QED BY <4>1, ReviewSoFar, ModesOfScreens, UiType DEF Prompts
    <3> QED BY <1>1, <2>3, <3>1, <3>2, ReviewSoFar DEF SaveOverallComment, Reviews
  <2> QED BY <2>1, <2>2, <2>3
<1>5. Decided' /\ QuitIsDecided' /\ OneReview'
  BY <1>1, <1>3, <1>4 DEF Decided, QuitIsDecided, OneReview
<1> QED BY <1>1, <1>2, <1>3, <1>4, <1>5, ReviewSoFar, DecidingKeepsInv

\* Choosing a verdict: refused, lost on the way back, or accepted.
LEMMA SubmitKeepsInv ==
  ASSUME AppInv, ~quit, UNCHANGED <<env, head, pane, notes>>, ui.mode = "VerdictPrompt",
         NEW v \in Verdicts, submit_remote_review(v)
  PROVE  AppInv'
<1> USE NoneIsApart, ThemesAreThere
<1>1. UNCHANGED <<text, pref>> /\ OneReview /\ quit \in BOOLEAN /\ pr.outcome = None
  BY DEF submit_remote_review, AppInv, TypeOK, SubmittedOnce
<1>2. CASE show_remote_message("Verdict") /\ UNCHANGED <<pr, published, quit>>
  <2>1. ui' \in UiStates /\ ui'.mode = "Message"
    BY <1>2, ReviewSoFar, UiMessageType DEF show_remote_message
  <2>2. pane \in Panes
    BY TypesOfState DEF AppInv
  <2> QED BY <1>1, <1>2, <2>1, <2>2, ReviewSoFar, StayingKeepsInv
<1>3. ASSUME published' = WithReview(published)
      PROVE  /\ published'.count = published.count + 1 /\ published'.count \in Nat
             /\ published'.last \in [body : Bodies, chosen : Bodies \union {None}]
             /\ published'.last.chosen \in {None, published'.last.body}
  BY <1>3, ReviewSoFar DEF WithReview, Reviews
<1>4. CASE /\ published.count < MaxLost /\ show_remote_message("Verdict")
           /\ published' = WithReview(published) /\ UNCHANGED <<pr, quit>>
  <2>1. ui' \in UiStates /\ ui'.mode = "Message"
    BY <1>4, ReviewSoFar, UiMessageType DEF show_remote_message
  <2>2. OneReview' /\ QuitIsDecided'
    BY <1>1, <1>3, <1>4, ReviewSoFar DEF OneReview, QuitIsDecided
  <2>3. TypeOK'
    BY <1>1, <1>3, <1>4, <2>1 DEF AppInv, TypeOK, UiStates
  <2>4. (ThemeIsSelected /\ AskedInOrder /\ SubmittedOnce /\ ChosenStands)'
    BY <1>1, <1>4, <2>1 DEF AppInv, ThemeIsSelected, AskedInOrder, SubmittedOnce, ChosenStands
  <2> QED BY <2>2, <2>3, <2>4 DEF AppInv
<1>5. CASE /\ published' = WithReview(published) /\ pr' = AfterSuccess(pr)
           /\ request_local_quit([ui EXCEPT !.mode = "Normal"])
  <2>1. /\ pr' \in Reviews /\ pr'.outcome = "Published" /\ pr'.chosen = pr.chosen
        /\ pr'.body = pr.body /\ pr'.edited = pr.edited
    BY <1>5, ReviewSoFar DEF AfterSuccess, Reviews
  <2>2. [ui EXCEPT !.mode = "Normal"] \in UiStates /\ [ui EXCEPT !.mode = "Normal"].mode = "Normal"
    BY ReviewSoFar, ModesOfScreens, UiType
  <2>3. OneReview'
    BY <1>1, <1>3, <1>5, <2>1, ReviewSoFar DEF OneReview
  <2>4. ui' \in UiStates /\ ui'.mode \in {"Normal", "SavePrompt"} /\ quit' \in BOOLEAN
    BY <1>1, <1>5, <2>2, ModesOfScreens, UiType DEF request_local_quit, Prompts
  <2>5. AsksToSave' => ~quit'
    BY <1>1, <1>5 DEF request_local_quit, AsksToSave
  <2>6. QuitIsDecided' /\ Decided'
    BY <2>1, <2>4, <2>5 DEF QuitIsDecided, Decided
  <2> QED BY <1>1, <1>3, <1>5, <2>1, <2>3, <2>4, <2>6, ReviewSoFar, DecidingKeepsInv
<1> QED BY <1>2, <1>4, <1>5 DEF submit_remote_review

\* Back to the review from a prompt, and a dismissed message.
LEMMA DismissKeepsInv ==
  ASSUME AppInv, ~quit, UNCHANGED <<env, head, pane, notes>>, UNCHANGED <<pr, pref, published, quit>>,
         \/ SetMode("Normal")
         \/ ui.mode = "Message" /\ SetMode(IF ui.returnTo = "Verdict" THEN "VerdictPrompt" ELSE "Normal")
  PROVE  AppInv'
<1>1. UNCHANGED text /\ pane \in Panes
  BY TypesOfState DEF AppInv, SetMode
<1>2. \/ ui' = [ui EXCEPT !.mode = "Normal"]
      \/ ui' = [ui EXCEPT !.mode = "VerdictPrompt"] /\ pr.outcome = None
  BY DEF SetMode, AppInv, SubmittedOnce
<1>3. ui' \in UiStates /\ (ui'.mode = "Normal" \/ (ui'.mode = "VerdictPrompt" /\ pr.outcome = None))
  <2>1. CASE ui' = [ui EXCEPT !.mode = "Normal"]
    BY <2>1, ReviewSoFar, ModesOfScreens, UiType
  <2>2. CASE ui' = [ui EXCEPT !.mode = "VerdictPrompt"] /\ pr.outcome = None
    BY <2>2, ReviewSoFar, ModesOfScreens, UiType DEF Prompts
  <2> QED BY <1>2, <2>1, <2>2
<1> QED BY <1>1, <1>3, ReviewSoFar, StayingKeepsInv

\* Every key, a push and an agent's removal keep the invariant.
LEMMA AppNextInv == AppInv /\ [Next]_vars => AppInv'
<1> SUFFICES ASSUME AppInv, [Next]_vars PROVE AppInv'
  OBVIOUS
<1>1. ASSUME handle_ui_key PROVE AppInv'
  <2>1. ui.mode \in Modes
    BY DEF AppInv, TypeOK
  <2>2. PICK a \in map_key_event(ui.mode) : apply_app_action(a)
    BY <1>1 DEF handle_ui_key
  <2>3. ~quit /\ UNCHANGED <<env, head>>
    BY <1>1 DEF handle_ui_key
  <2>4. CASE ScreenAction(a) \/ ReviewAction(a) \/ PrefAction(a) \/ cancel_input \/ ConfirmText
    BY <2>3, <2>4, ScreensKeepInv, ReviewKeepsInv, PrefsKeepInv, CancelKeepsInv, ConfirmTextKeepsInv
  <2>5. CASE QuitAction(a)
    <3>1. UNCHANGED <<env, head, pane, notes>>
      BY <2>3, <2>5 DEF QuitAction
    <3>2. \/ request_quit
          \/ ui.mode = "SavePrompt" /\ (save_and_quit \/ Discard)
          \/ ui.mode = "PublishPrompt" /\ (DiscardRemoteReview \/ confirm_remote_publish)
          \/ ui.mode = "VerdictPrompt" /\ EditOverallComment
          \/ ui.mode = "OverallComment" /\ SaveOverallComment
          \/ ui.mode = "VerdictPrompt" /\ \E v \in Verdicts : submit_remote_review(v)
          \/ /\ UNCHANGED <<pr, pref, published, quit>>
             /\ \/ SetMode("Normal")
                \/ /\ ui.mode = "Message"
                   /\ SetMode(IF ui.returnTo = "Verdict" THEN "VerdictPrompt" ELSE "Normal")
      BY <2>1, <2>5, KeysOfPrompts DEF QuitAction
    <3> QED BY <2>3, <3>1, <3>2, RequestKeepsInv, AnswersKeepInv, CommentKeepsInv, SubmitKeepsInv, DismissKeepsInv
  <2> QED BY <2>2, <2>4, <2>5 DEF apply_app_action
<1>2. ASSUME Push PROVE AppInv'
  <2>1. TypeOK'
    BY <1>2 DEF Push, AppInv, TypeOK
  <2>2. (ThemeIsSelected /\ AskedInOrder /\ SubmittedOnce /\ ChosenStands /\ QuitIsDecided /\ OneReview)'
    BY <1>2 DEF Push, AppInv, ThemeIsSelected, AskedInOrder, SubmittedOnce, ChosenStands, QuitIsDecided,
                OneReview, remote, AsksToSave
  <2> QED BY <2>1, <2>2 DEF AppInv
<1>3. ASSUME AgentRemovesNote PROVE AppInv'
  <2>1. notes' \in 0..MaxNotes
    BY <1>3, ReviewSoFar, ThemesAreThere DEF AgentRemovesNote
  <2>2. UNCHANGED <<env, ui, text, pane, pr, pref, head, published, quit>> /\ ~quit
    BY <1>3 DEF AgentRemovesNote
  <2> QED BY <2>1, <2>2, ReviewSoFar, TypesOfState, StayingKeepsInv DEF AppInv, ThemeIsSelected
<1>4. ASSUME UNCHANGED vars PROVE AppInv'
  <2>1. TypeOK'
    BY <1>4 DEF vars, AppInv, TypeOK
  <2>2. (ThemeIsSelected /\ AskedInOrder /\ SubmittedOnce /\ ChosenStands /\ QuitIsDecided /\ OneReview)'
    BY <1>4 DEF vars, AppInv, ThemeIsSelected, AskedInOrder, SubmittedOnce, ChosenStands, QuitIsDecided,
                OneReview, remote, AsksToSave
  <2> QED BY <2>1, <2>2 DEF AppInv
<1> QED BY <1>1, <1>2, <1>3, <1>4 DEF Next

\* The process stops only after the review of a pull request was published or
\* discarded and changed preferences were saved, declined or not to be asked
\* about, whatever prompts were opened and dismissed before (request_quit,
\* save_and_quit, submit_remote_review).
THEOREM QuitDecided == Spec => []QuitIsDecided
<1>1. AppInv => QuitIsDecided
  BY DEF AppInv
<1> QED BY <1>1, AppInitInv, AppNextInv, PTL DEF Spec

\* GitHub receives one review, one more only for each whose answer was lost, with
\* the text the reviewer last saved (confirm_remote_publish, submit_remote_review).
THEOREM ReviewOnce == Spec => []OneReview
<1>1. AppInv => OneReview
  BY DEF AppInv
<1> QED BY <1>1, AppInitInv, AppNextInv, PTL DEF Spec

\* Every part of the application's state keeps its type.
THEOREM AppTypes == Spec => []TypeOK
<1>1. AppInv => TypeOK
  BY DEF AppInv
<1> QED BY <1>1, AppInitInv, AppNextInv, PTL DEF Spec
=============================================================================
