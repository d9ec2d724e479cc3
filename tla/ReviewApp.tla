------------------------------ MODULE ReviewApp ------------------------------
(***************************************************************************)
(* The terminal application's screens, input modes and prompts: which keys *)
(* a mode takes, what each does, and the way out: publishing a pull-request*)
(* review, keeping or discarding it, saving view preferences, quitting.    *)
(*                                                                         *)
(* A key is what map_key_event makes of it (KeyActions); an edit of a text *)
(* field may leave any text.  What an editor of notes does to notes is the *)
(* subject of ReviewNotes; here a confirmed note is one note more.  The    *)
(* text of a filter is left out: every way out of the filter's field has   *)
(* the same effect on screens and modes whatever it holds.                 *)
(***************************************************************************)
EXTENDS Integers

CONSTANTS Settings,    \* how the application may be started
          Themes,      \* two ids at least; the configured one is Configured
          Configured,
          Text,        \* contents of a text field; "" is empty
          MaxNotes,    \* bound on the reviewer's notes
          MaxLost,     \* bound on submissions whose answer is lost
          None

ASSUME SettingsAreRecords ==
  Settings \subseteq [remote : BOOLEAN, selfAuthored : BOOLEAN, pager : BOOLEAN, path : BOOLEAN,
                      prompt : BOOLEAN, map : BOOLEAN, linear : BOOLEAN, chat : BOOLEAN]
ASSUME ThemesAreThere == Configured \in Themes /\ MaxNotes \in Nat /\ MaxLost \in Nat

EmptyText == ""
ASSUME TextMayBeEmpty == EmptyText \in Text

VARIABLES env,        \* the settings of this process
          ui,         \* screen, input_mode, and where a message returns to
          text,       \* the chat draft and comment_buf
          pane,       \* is chat pinned, was the Linear ticket fetched
          pr,         \* RemoteReviewSession
          pref,       \* theme and view preferences, what is saved of them
          notes,      \* how many notes the reviewer has
          head,       \* has the pull request moved since it was loaded
          published,  \* how many reviews GitHub accepted, and the last of them
          quit        \* should_quit

vars == <<env, ui, text, pane, pr, pref, notes, head, published, quit>>

Screens == {"ReviewMap", "Review", "PrDescription", "LinearTicket", "Chat"}
Prompts == {"Filter", "Note", "Ask", "Theme", "Help", "AgentSkill", "SavePrompt", "PublishPrompt",
            "VerdictPrompt", "OverallComment", "Message"}
input_mode(s) == IF s = "Review" THEN "Normal" ELSE s
Modes == Prompts \union {input_mode(s) : s \in Screens}
Verdicts == {"Comment", "Approve", "RequestChanges"}
\* The text generated for n comments; a configured review_message replaces it.
default_overall_body(n) == <<"default", n>>
Typed(t) == <<"typed", t>>
Bodies == {default_overall_body(n) : n \in 0..MaxNotes} \union {Typed(t) : t \in Text}

\* None is none of the values it stands beside.
ASSUME NoneIsApart == None \notin {"Published", "Discarded"} /\ None \notin Themes /\ None \notin Bodies

\* new_with_services, attach_review_map: a review with a map starts on it.
Init ==
  /\ env \in Settings
  /\ LET s == IF env.map /\ ~env.pager THEN "ReviewMap" ELSE "Review"
     IN  ui = [screen |-> s, mode |-> input_mode(s), returnTo |-> "Review"]
  /\ text = [chat |-> EmptyText, buf |-> EmptyText]
  /\ pane = [chat |-> FALSE, ticket |-> FALSE]
  /\ pr = [outcome |-> None, body |-> Typed(EmptyText), edited |-> FALSE, original |-> None, chosen |-> None]
  /\ pref = [active |-> Configured, selection |-> None, view |-> FALSE,
             theme |-> Configured, declined |-> FALSE, stored |-> FALSE]
  /\ notes = 0 /\ head = FALSE /\ published = [count |-> 0, last |-> None] /\ quit = FALSE

remote == env.remote
base_input_mode == input_mode(ui.screen)
-----------------------------------------------------------------------------
(* What keys mean in a mode.                                               *)

map_overlay_switch(mode) ==
  {"CloseOverlay"} \union
  (IF mode \in {"Normal", "ReviewMap", "PrDescription", "LinearTicket"}
   THEN {"ToggleReviewMap", "TogglePrDescription", "ToggleLinearTicket", "ToggleChat"} ELSE {})

map_normal == {"ChangeView", "OpenThemeSelector", "StartAsk", "StartNote", "OpenAgentSkill", "ToggleContext",
               "EditSelectedFile", "Reload", "FocusFilter", "ToggleFocus", "OpenHelp", "Quit", "Cancel"}
map_review_map == {"OpenSelected", "FocusReviewMapFilter", "OpenMapHelp", "DismissFailure"}
map_text(mode) == {"Edit", "Cancel"} \union (IF mode = "Filter" THEN {"ToggleFocus"} ELSE {"Confirm"})
map_chat == {"Edit", "Confirm", "ToggleChat", "SwitchFromChat"}
map_overall_comment == {"SaveOverallComment", "Edit", "Cancel"}
map_theme == {"MoveChoice", "Confirm", "Cancel"}

\* The rest of a pull request's, a ticket's and a note's keys only scroll or move.
pager_action == {"ChangeView", "StartNote", "Quit", "Edit", "Cancel", "Confirm"}

map_key_event(mode) ==
  LET keys == [m \in Modes |->
        CASE m = "Normal" -> map_normal
          [] m = "ReviewMap" -> map_review_map
          [] m \in {"Filter", "Note", "Ask"} -> map_text(m)
          [] m = "Theme" -> map_theme
          [] m \in {"Help", "AgentSkill"} -> {"Cancel"}
          [] m = "SavePrompt" -> {"Confirm", "Discard", "DisableSavePrompt", "Cancel"}
          [] m = "PublishPrompt" -> {"ConfirmPublish", "KeepReviewing", "DiscardRemoteReview"}
          [] m = "VerdictPrompt" -> {"ChooseVerdict", "EditOverallComment", "KeepReviewing"}
          [] m = "PrDescription" -> {"TogglePrDescription"}
          [] m = "LinearTicket" -> {"ToggleLinearTicket"}
          [] m = "Chat" -> map_chat
          [] m = "OverallComment" -> map_overall_comment
          [] m = "Message" -> {"DismissMessage"}]
      all == map_overlay_switch(mode) \union keys[mode]
  IN  IF env.pager THEN all \intersect pager_action ELSE all
-----------------------------------------------------------------------------
(* Screens.                                                                *)

set_screen(s) == ui' = [ui EXCEPT !.screen = s, !.mode = input_mode(s)] /\ UNCHANGED text

SetMode(m) == ui' = [ui EXCEPT !.mode = m] /\ UNCHANGED text
Same == UNCHANGED <<ui, text>>

\* A screen's own key closes it; a screen with nothing to show is not opened.
Toggle(screen, available) ==
  IF ui.screen = screen THEN set_screen("Review")
  ELSE IF available THEN set_screen(screen) ELSE Same

toggle_review_map == Toggle("ReviewMap", env.map) /\ UNCHANGED pane
toggle_pr_description == Toggle("PrDescription", remote) /\ UNCHANGED pane

\* toggle_linear_ticket: fetched once; a failed fetch only says so.
toggle_linear_ticket ==
  \E fetched \in BOOLEAN :
    LET there == pane.ticket \/ (env.linear /\ remote /\ fetched)
    IN  /\ Toggle("LinearTicket", there)
        /\ pane' = [pane EXCEPT !.ticket = IF ui.screen = "LinearTicket" THEN @ ELSE there]

\* toggle_chat: the pane stays pinned when focus goes back to the diff.
toggle_chat ==
  /\ IF env.chat THEN Toggle("Chat", TRUE) ELSE Same
  /\ pane' = [pane EXCEPT !.chat = @ \/ (env.chat /\ ui.screen # "Chat")]

close_overlay ==
  /\ set_screen("Review")
  /\ pane' = [pane EXCEPT !.chat = @ /\ ui.screen # "Chat"]

\* In an empty chat field the four switching letters switch.
SwitchFromChat ==
  /\ text.chat = EmptyText
  /\ toggle_chat \/ toggle_review_map \/ toggle_pr_description \/ toggle_linear_ticket

\* apply_review_map_effect: a file of the map opens if the diff still has it.
OpenSelected == (set_screen("Review") \/ Same) /\ UNCHANGED pane
\* Escape on the map dismisses a failure if there is one, else leaves.
DismissFailure == (set_screen("Review") \/ Same) /\ UNCHANGED pane

ScreenAction(a) ==
  /\ \/ a = "ToggleReviewMap" /\ toggle_review_map
     \/ a = "TogglePrDescription" /\ toggle_pr_description
     \/ a = "ToggleLinearTicket" /\ toggle_linear_ticket
     \/ a = "ToggleChat" /\ toggle_chat
     \/ a = "CloseOverlay" /\ close_overlay
     \/ a = "SwitchFromChat" /\ SwitchFromChat
     \/ a = "OpenSelected" /\ OpenSelected
     \/ a = "DismissFailure" /\ DismissFailure
  /\ UNCHANGED <<pr, pref, notes, published, quit>>
-----------------------------------------------------------------------------
(* Text fields and the modes of the review.                                *)

edit_focused_buffer ==
  \E t \in Text :
    text' = CASE ui.mode \in {"Note", "Ask", "OverallComment"} -> [text EXCEPT !.buf = t]
              [] ui.mode = "Chat" -> [text EXCEPT !.chat = t]
              [] OTHER -> text

show_remote_message(returnTo) == ui' = [ui EXCEPT !.mode = "Message", !.returnTo = returnTo]

Message(returnTo) == (IF remote THEN show_remote_message(returnTo) ELSE UNCHANGED ui) /\ UNCHANGED text

ReviewAction(a) ==
  /\ \/ a \in {"FocusFilter", "FocusReviewMapFilter"} /\ SetMode("Filter")
     \/ a \in {"OpenHelp", "OpenMapHelp"} /\ SetMode("Help")
     \/ a = "OpenAgentSkill" /\ SetMode("AgentSkill")
     \/ a = "ToggleFocus" /\ SetMode(IF ui.mode = "Filter" THEN "Normal" ELSE "Filter")
     \/ /\ a \in {"StartNote", "StartAsk"}
        /\ \/ ui' = [ui EXCEPT !.mode = IF a = "StartNote" THEN "Note" ELSE "Ask"]
              /\ text' = [text EXCEPT !.buf = EmptyText]
           \/ a = "StartNote" /\ Message("Review")    \* the selection cannot be published
           \/ Same
     \/ a \in {"EditSelectedFile", "Reload"} /\ Message("Review")
     \/ a = "ToggleContext" /\ (Message("Review") \/ Same)
     \/ a = "Edit" /\ edit_focused_buffer /\ UNCHANGED ui
  /\ UNCHANGED <<pane, pr, pref, notes, published, quit>>

\* Layout, sidebar, line numbers, wrapping, hunk headers, agent notes.
ChangeView == pref' = [pref EXCEPT !.view = ~@] /\ UNCHANGED <<ui, text>>

OpenThemeSelector ==
  /\ pref' = [pref EXCEPT !.selection = pref.active]
  /\ SetMode("Theme")
MoveChoice ==
  /\ pref.selection # None
  /\ \E t \in Themes : pref' = [pref EXCEPT !.selection = t]
  /\ UNCHANGED <<ui, text>>

\* persist_theme_choice: a confirmed theme is saved at once; when that fails it
\* stays a change to be saved on the way out.
persist_theme_choice(p) ==
  {p} \union (IF ~env.pager /\ env.path /\ p.active # p.theme THEN {[p EXCEPT !.theme = p.active]} ELSE {})
ConfirmTheme ==
  /\ pref' \in persist_theme_choice([pref EXCEPT !.active = pref.selection, !.selection = None])
  /\ SetMode(base_input_mode)

PrefAction(a) ==
  /\ \/ a = "ChangeView" /\ ChangeView
     \/ a = "OpenThemeSelector" /\ OpenThemeSelector
     \/ a = "MoveChoice" /\ MoveChoice
     \/ a = "Confirm" /\ ui.mode = "Theme" /\ ConfirmTheme
  /\ UNCHANGED <<pane, pr, notes, published, quit>>
-----------------------------------------------------------------------------
(* Cancel.                                                                 *)

\* cancel_input; on the other screens Escape is their own closing key.
cancel_input ==
  /\ ui' = [ui EXCEPT !.mode =
              CASE ui.mode \in {"Filter", "Theme", "Help", "AgentSkill", "SavePrompt"} -> base_input_mode
                [] ui.mode = "OverallComment" -> "VerdictPrompt"
                [] OTHER -> "Normal"]
  /\ text' = IF ui.mode \in {"Note", "Ask", "OverallComment"} THEN [text EXCEPT !.buf = EmptyText] ELSE text
  /\ pref' = IF ui.mode = "Theme" THEN [pref EXCEPT !.selection = None] ELSE pref
  /\ pr' = IF ui.mode = "OverallComment" /\ pr.original # None
           THEN [pr EXCEPT !.body = pr.original, !.original = None] ELSE pr
  /\ UNCHANGED <<pane, notes, published, quit>>
-----------------------------------------------------------------------------
(* The way out.                                                            *)

Changed(p) == p.view \/ p.active # p.theme
AsksToSave == ~env.pager /\ env.path /\ env.prompt /\ Changed(pref)

request_local_quit(u) ==
  IF AsksToSave THEN ui' = [u EXCEPT !.mode = "SavePrompt"] /\ UNCHANGED quit
  ELSE ui' = u /\ quit' = TRUE

\* Mutant: quits without asking about the review.
QuitUnasked ==
  /\ request_local_quit(ui)
  /\ UNCHANGED <<text, pr, pref, published>>
request_quit ==
  /\ IF remote /\ pr.outcome = None
     THEN ui' = [ui EXCEPT !.mode = "PublishPrompt"] /\ UNCHANGED quit
     ELSE request_local_quit(ui)
  /\ UNCHANGED <<text, pr, pref, published>>

\* save_and_quit: a failed save keeps the prompt open.
save_and_quit ==
  \E saved \in BOOLEAN :
    /\ quit' = saved
    /\ ui' = [ui EXCEPT !.mode = IF saved THEN "Normal" ELSE "SavePrompt"]
    /\ pref' = [pref EXCEPT !.stored = saved]
    /\ UNCHANGED <<text, pr, published>>

Discard ==
  /\ ui' = [ui EXCEPT !.mode = "Normal"] /\ quit' = TRUE
  /\ pref' = [pref EXCEPT !.declined = TRUE]
  /\ UNCHANGED <<text, pr, published>>

DiscardRemoteReview ==
  /\ ui' = [ui EXCEPT !.mode = "Normal"] /\ quit' = TRUE
  /\ pr' = [pr EXCEPT !.outcome = "Discarded"]
  /\ UNCHANGED <<text, pref, published>>

\* confirm_remote_publish: the generated text gives way to an edited one.
BodyToConfirm == IF pr.edited THEN pr.body ELSE default_overall_body(notes)
confirm_remote_publish ==
  /\ pr' = [pr EXCEPT !.body = BodyToConfirm]
  /\ ui' = [ui EXCEPT !.mode = "VerdictPrompt"]
  /\ UNCHANGED <<text, pref, published, quit>>

EditOverallComment ==
  /\ \E t \in Text : /\ pr.body = Typed(t) \/ (pr.body # Typed(t) /\ t # EmptyText)  \* the generated text is some text
                     /\ text' = [text EXCEPT !.buf = t]
  /\ pr' = [pr EXCEPT !.original = pr.body]
  /\ ui' = [ui EXCEPT !.mode = "OverallComment"]
  /\ UNCHANGED <<pref, published, quit>>

SaveOverallComment ==
  /\ pr' = [pr EXCEPT !.body = Typed(text.buf), !.edited = TRUE, !.original = None, !.chosen = Typed(text.buf)]
  /\ text' = [text EXCEPT !.buf = EmptyText]
  /\ ui' = [ui EXCEPT !.mode = "VerdictPrompt"]
  /\ UNCHANGED <<pref, published, quit>>

\* submit_remote_review: refused for one's own pull request, when the head
\* cannot be read or has moved, and when GitHub refuses; the answer to an
\* accepted review may be lost.  A local note always has a line on GitHub here
\* (begin_remote_human_note is the only way to one).
\* Mutant: the request is sent a second time.
PostedTwice(p) == [count |-> p.count + 2, last |-> [body |-> pr.body, chosen |-> pr.chosen]]
WithReview(p) == [count |-> p.count + 1, last |-> [body |-> pr.body, chosen |-> pr.chosen]]
AfterSuccess(p) == [p EXCEPT !.outcome = "Published"]

submit_remote_review(verdict) ==
  \/ /\ env.selfAuthored /\ verdict # "Comment"
     /\ show_remote_message("Verdict") /\ UNCHANGED <<text, pr, pref, published, quit>>
  \/ /\ ~(env.selfAuthored /\ verdict # "Comment")
     /\ \/ /\ show_remote_message("Verdict") /\ UNCHANGED <<pr, published, quit>>
        \/ /\ ~head /\ published.count < MaxLost   \* the answer is lost
           /\ show_remote_message("Verdict")
           /\ published' = WithReview(published) /\ UNCHANGED <<pr, quit>>
        \/ /\ ~head
           /\ published' = WithReview(published)
           /\ pr' = AfterSuccess(pr)
           /\ request_local_quit([ui EXCEPT !.mode = "Normal"])
     /\ UNCHANGED <<text, pref>>

QuitAction(a) ==
  /\ \/ a = "Quit" /\ request_quit
     \/ a \in {"Confirm", "DisableSavePrompt"} /\ ui.mode = "SavePrompt" /\ save_and_quit
     \/ a = "Discard" /\ Discard
     \/ a = "ConfirmPublish" /\ confirm_remote_publish
     \/ a = "DiscardRemoteReview" /\ DiscardRemoteReview
     \/ a = "KeepReviewing" /\ SetMode("Normal") /\ UNCHANGED <<pr, pref, published, quit>>
     \/ a = "EditOverallComment" /\ EditOverallComment
     \/ a = "SaveOverallComment" /\ SaveOverallComment
     \/ a = "ChooseVerdict" /\ \E v \in Verdicts : submit_remote_review(v)
     \/ a = "DismissMessage" /\ SetMode(IF ui.returnTo = "Verdict" THEN "VerdictPrompt" ELSE "Normal")
                             /\ UNCHANGED <<pr, pref, published, quit>>
  /\ UNCHANGED <<pane, notes>>

\* confirm_input in the editors and the chat pane.
ConfirmText ==
  /\ \/ /\ ui.mode \in {"Note", "Ask"}
        /\ notes' = IF ui.mode = "Note" /\ text.buf # EmptyText /\ notes < MaxNotes THEN notes + 1 ELSE notes
        /\ ui' = [ui EXCEPT !.mode = "Normal"] /\ text' = [text EXCEPT !.buf = EmptyText]
     \/ /\ ui.mode = "Chat" /\ text' = [text EXCEPT !.chat = EmptyText]
        /\ UNCHANGED <<ui, notes>>
  /\ UNCHANGED <<pane, pr, pref, published, quit>>

apply_app_action(a) ==
  \/ ScreenAction(a) \/ ReviewAction(a) \/ PrefAction(a) \/ QuitAction(a)
  \/ a = "Cancel" /\ cancel_input
  \/ a = "Confirm" /\ ConfirmText

handle_ui_key ==
  /\ ~quit
  /\ \E a \in map_key_event(ui.mode) : apply_app_action(a)
  /\ UNCHANGED <<env, head>>

\* Outside the application: a push to the pull request, an agent's comment-rm
\* of a note of the reviewer.
Push == remote /\ ~head /\ head' = TRUE /\ UNCHANGED <<env, ui, text, pane, pr, pref, notes, published, quit>>
AgentRemovesNote ==
  /\ notes > 0 /\ notes' = notes - 1 /\ ~quit
  /\ UNCHANGED <<env, ui, text, pane, pr, pref, head, published, quit>>

Next == handle_ui_key \/ Push \/ AgentRemovesNote
Spec == Init /\ [][Next]_vars
-----------------------------------------------------------------------------
(* Properties.                                                             *)

\* Every part of the state has its type.
TypeOK ==
  /\ env \in Settings
  /\ ui \in [screen : Screens, mode : Modes, returnTo : {"Review", "Verdict"}]
  /\ text \in [chat : Text, buf : Text]
  /\ pane \in [chat : BOOLEAN, ticket : BOOLEAN]
  /\ pr \in [outcome : {None, "Published", "Discarded"}, body : Bodies, edited : BOOLEAN,
             original : Bodies \union {None}, chosen : Bodies \union {None}]
  /\ pref \in [active : Themes, selection : Themes \union {None}, view : BOOLEAN,
               theme : Themes, declined : BOOLEAN, stored : BOOLEAN]
  /\ notes \in 0..MaxNotes /\ head \in BOOLEAN /\ quit \in BOOLEAN
  /\ published.count \in Nat
  /\ published.last \in {None} \union [body : Bodies, chosen : Bodies \union {None}]

\* Nothing is left by accident, whatever prompts were opened and dismissed on the
\* way: the process stops only after a pull-request review was published or
\* explicitly discarded, and after changed view preferences were saved, declined,
\* or were not to be asked for; discarding is the one way around that question
\* (request_quit, save_and_quit).
QuitIsDecided ==
  /\ quit /\ remote => pr.outcome # None
  /\ quit /\ AsksToSave => pref.stored \/ pref.declined \/ pr.outcome = "Discarded"

\* GitHub receives one review, and one more only for each whose answer was lost; its
\* text is the one the reviewer last saved, if there is one: the generated text
\* never comes back over it (README, submit_remote_review, confirm_remote_publish).
OneReview ==
  /\ published.count <= MaxLost + (IF pr.outcome = "Published" THEN 1 ELSE 0)
  /\ published.last # None => published.last.chosen \in {None, published.last.body}

=============================================================================
