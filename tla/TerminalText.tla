---------------------------- MODULE TerminalText ----------------------------
(***************************************************************************)
(* Text with terminal escapes: what normalize_patch_text, the pager's      *)
(* sanitize_terminal_text and git's strip_ansi_line leave of it, and how   *)
(* the colours of git diff become the moved marks of the changed lines.    *)
(* A text is a sequence of characters; ESC, BEL, CR, LF and CTL (another   *)
(* control character) are named.                                           *)
(***************************************************************************)
EXTENDS DiffParser

CONSTANT None

\* '@'..'~' among the characters used.
Final(c) == c \in {"[", "]", "\\", "m", "K", "x"}
Control == {"ESC", "BEL", "CR", "CTL"}

\* replace("\r\n", "\n")
Unix(text) ==
  LET keep == SelectSeq([i \in DOMAIN text |-> i],
                        LAMBDA i : ~(text[i] = "CR" /\ i < Len(text) /\ text[i + 1] = "LF"))
  IN  [j \in DOMAIN keep |-> text[keep[j]]]

\* The next state of either filter; an ESC inside an OSC string is where they differ.
\* Mutant: a control sequence ends only with the m of a colour.
EndsWithColour(state, c, again) ==
  CASE state = "Ground" -> IF c = "ESC" THEN "Escape" ELSE "Ground"
    [] state = "Escape" -> CASE c = "[" -> "Csi" [] c = "]" -> "Osc" [] OTHER -> "Ground"
    [] state = "Csi" -> IF c = "m" THEN "Ground" ELSE "Csi"
    [] state = "Osc" -> CASE c = "BEL" -> "Ground" [] c = "ESC" -> "OscEscape" [] OTHER -> "Osc"
    [] OTHER -> CASE c = "\\" -> "Ground" [] c = "ESC" -> again [] OTHER -> "Osc"
Step(state, c, again) ==
  CASE state = "Ground" -> IF c = "ESC" THEN "Escape" ELSE "Ground"
    [] state = "Escape" -> CASE c = "[" -> "Csi" [] c = "]" -> "Osc" [] OTHER -> "Ground"
    [] state = "Csi" -> IF Final(c) THEN "Ground" ELSE "Csi"
    [] state = "Osc" -> CASE c = "BEL" -> "Ground" [] c = "ESC" -> "OscEscape" [] OTHER -> "Osc"
    [] OTHER -> CASE c = "\\" -> "Ground" [] c = "ESC" -> again [] OTHER -> "Osc"

normalize_patch_text(text) ==
  FoldLeft(LAMBDA acc, c :
             [state |-> Step(acc.state, c, "Osc"),
              out |-> IF acc.state = "Ground" /\ c # "ESC" THEN Append(acc.out, c) ELSE acc.out],
           [state |-> "Ground", out |-> <<>>], Unix(text)).out

\* Colours are kept on request, as the parameters they were written with.
Digit(c) == c \in {"1", ";"}
sanitize_terminal_text(text, keepSgr) ==
  FoldLeft(LAMBDA acc, c :
             LET sgr == acc.state = "Csi" /\ c = "m" /\ keepSgr /\ \A i \in DOMAIN acc.csi : Digit(acc.csi[i])
             IN  [state |-> Step(acc.state, c, "OscEscape"),
                  csi |-> CASE acc.state = "Escape" -> <<>>
                            [] acc.state = "Csi" /\ ~Final(c) -> Append(acc.csi, c)
                            [] OTHER -> acc.csi,
                  out |-> CASE acc.state = "Ground" /\ c \notin Control -> Append(acc.out, c)
                            [] sgr -> acc.out \o <<"ESC", "[">> \o acc.csi \o <<"m">>
                            [] OTHER -> acc.out],
           [state |-> "Ground", csi |-> <<>>, out |-> <<>>], Unix(text)).out

\* A line of git's own output holds no other escapes than control sequences.
strip_ansi_line(line) ==
  FoldLeft(LAMBDA acc, c :
             CASE acc.state = "Ground" /\ c = "ESC" -> [acc EXCEPT !.state = "Escape"]
               [] acc.state = "Escape" /\ c = "[" -> [acc EXCEPT !.state = "Csi"]
               [] acc.state = "Escape" /\ c # "[" -> [state |-> "Ground", out |-> acc.out \o <<"ESC", c>>]
               [] acc.state = "Csi" -> [acc EXCEPT !.state = IF Final(c) THEN "Ground" ELSE "Csi"]
               [] OTHER -> [acc EXCEPT !.out = Append(@, c)],
           [state |-> "Ground", out |-> <<>>], line).out

\* looks_like_patch: starts are what the lines of the sanitised text start with.
looks_like_patch(starts) ==
  Range(starts) \cap {"diff --git", "@@"} # {} \/ {"---", "+++"} \subseteq Range(starts)

(***************************************************************************)
(* Moved lines.  sgr is the set of colour parameters of a line: 35 the     *)
(* magenta and 36 the cyan the adapter asks git for, 2 dimmed.             *)
(***************************************************************************)
moved_line_kind(sgr, sign) ==
  CASE sign = "-" /\ 35 \in sgr -> IF 2 \in sgr THEN "OldMovedDimmed" ELSE "OldMoved"
    [] sign = "+" /\ 36 \in sgr -> IF 2 \in sgr THEN "NewMovedDimmed" ELSE "NewMoved"
    [] OTHER -> None

\* parse_git_patch: the marks are taken from the lines that start with a sign and are no
\* header, and dealt out to the changed lines in order.
Signed(line) == line.t \in {"+", "-"}
parse_git_patch(lines, sgr) ==
  LET signed == SelectSeq(lines, Signed)
      mark(l) == IF "c" \in DOMAIN l THEN moved_line_kind(sgr[l.c], l.t) ELSE None
      marks == [i \in DOMAIN signed |-> mark(signed[i])]
      all(files) == Concat([f \in DOMAIN files |-> AllLines(files[f].hunks)])
      changed == SelectSeq(all(parse_unified_diff(lines)), LAMBDA l : l.kind # "Context")
  IN  [i \in DOMAIN changed |-> [line |-> changed[i], moved |-> IF i \in DOMAIN marks THEN marks[i] ELSE None]]

(***************************************************************************)
(* Properties                                                              *)
(***************************************************************************)
\* A piece of terminal output: [chars] shown, a control sequence, or an OSC string.
Written(piece) ==
  CASE piece.t = "plain" -> piece.chars
    [] piece.t = "csi" -> <<"ESC", "[">> \o piece.chars \o <<piece.end>>
    [] OTHER -> <<"ESC", "]">> \o piece.chars \o (IF piece.end = "BEL" THEN <<"BEL">> ELSE <<"ESC", "\\">>)
Shown(pieces) == Concat([i \in DOMAIN pieces |-> IF pieces[i].t = "plain" THEN Unix(pieces[i].chars) ELSE <<>>])

\* Whatever escapes a patch or a page is dressed with, what is left is the text itself: nothing
\* of an escape stays and no character after it is swallowed; the filter of the pager keeps
\* exactly the colours when asked to (normalize_patch_text, sanitize_terminal_text, strip_ansi_line).
EscapesVanish(pieces) ==
  LET text == Concat([i \in DOMAIN pieces |-> Written(pieces[i])])
      visible == SelectSeq(Shown(pieces), LAMBDA c : c \notin Control)
      coloured == Concat([i \in DOMAIN pieces |->
                    CASE pieces[i].t = "plain" -> SelectSeq(Unix(pieces[i].chars), LAMBDA c : c \notin Control)
                      [] pieces[i].t = "csi" /\ pieces[i].end = "m" -> Written(pieces[i])
                      [] OTHER -> <<>>])
  IN  /\ normalize_patch_text(text) = Shown(pieces)
      /\ sanitize_terminal_text(text, FALSE) = visible
      /\ sanitize_terminal_text(text, TRUE) = coloured
      /\ (\A i \in DOMAIN pieces : pieces[i].t # "osc") =>
           Unix(strip_ansi_line(text)) = Shown(pieces)

\* Each changed line carries the mark git coloured it with, over all files of the patch, as
\* long as no changed line begins with the "-- " or "++ " that makes it look like a header.
MovedMarksLand(files, sgr) ==
  \A parsed \in {parse_git_patch(Concat([i \in DOMAIN files |-> Render(files[i])]), sgr)} :
    \A i \in DOMAIN parsed :
      parsed[i].moved = moved_line_kind(sgr[parsed[i].line.content], IF parsed[i].line.kind = "Addition" THEN "+" ELSE "-")
=============================================================================
