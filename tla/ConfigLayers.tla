---------------------------- MODULE ConfigLayers ----------------------------
(***************************************************************************)
(* The configuration: reading and checking a file, layering the user's     *)
(* file, the repository's file and the command line, moving the flat keys  *)
(* of old files into sections, and saving view preferences on quit.        *)
(*                                                                         *)
(* A file is [flat, commands, sections, inline, custom, nested]: the keys  *)
(* at the root, the per-command tables, the setting sections (inline: the  *)
(* ones written as inline tables), and the custom theme at the root and    *)
(* under [theme].  A table is a function from its keys to opaque values;   *)
(* Bad is a value its check refuses.  Comments, layout and a [theme]       *)
(* written as an inline table are left out.                                *)
(***************************************************************************)
EXTENDS Sequences, Functions, SequencesExt, FiniteSetsExt

CONSTANTS None, Bad, Err

COMMAND_SECTIONS == {"diff", "show", "stash_show", "patch", "pager", "difftool"}

\* The keys of the sections, and the field of ResolvedConfig each one sets (apply_sections).
AgentKeys(section, prefix, effort) ==
  {<<section, "provider", prefix \o "_provider">>, <<section, "model", prefix \o "_model">>,
   <<section, "effort", prefix \o effort>>, <<section, "timeout_secs", prefix \o "_timeout_secs">>}
SectionKeys ==
  {<<"general", k, k>> : k \in {"vcs", "watch", "exclude_untracked", "prompt_save_view_preferences"}}
  \cup {<<"view", k, k>> : k \in {"mode", "show_sidebar", "line_numbers", "wrap_lines", "hunk_headers", "agent_notes",
                                 "transparent_background", "color_moved", "copy_decorations"}}
  \cup {<<"theme", "name", "theme">>}
  \cup {<<"review", "message", "review_message">>, <<"review", "tests_last", "tests_last">>,
        <<"review", "test_file_patterns", "test_file_patterns">>}
  \cup {<<"ask", "enabled", "ask_enabled">>} \cup AgentKeys("ask", "ask", "_thinking")
  \cup {<<"map", "enabled", "ai_summaries">>, <<"map", "backend", "map_backend">>, <<"map", "start_on", "start_on_map">>,
        <<"map", "server", "review_map_server">>, <<"map", "token_file", "review_map_token_file">>}
  \cup AgentKeys("map", "map", "_effort")
  \cup {<<"chat", "enabled", "chat_enabled">>, <<"chat", "layout", "chat_layout">>} \cup AgentKeys("chat", "chat", "_effort")
  \cup {<<"linear", "enabled", "linear_enabled">>, <<"linear", "command", "linear_command">>}
Sections == {"general", "view", "theme", "review", "ask", "map", "chat", "linear"}
SETTING_SECTIONS(section) == {k[2] : k \in {k \in SectionKeys : k[1] = section}}
SectionOf(field) == CHOOSE k \in SectionKeys : k[3] = field

\* Where a flat key now lives, in the order the keys are moved.
MOVES ==
  <<<<"mode", "view", "mode">>, <<"show_sidebar", "view", "show_sidebar">>,
    <<"line_numbers", "view", "line_numbers">>, <<"wrap_lines", "view", "wrap_lines">>,
    <<"hunk_headers", "view", "hunk_headers">>, <<"agent_notes", "view", "agent_notes">>,
    <<"transparent_background", "view", "transparent_background">>,
    <<"transparentBackground", "view", "transparent_background">>,
    <<"color_moved", "view", "color_moved">>, <<"copy_decorations", "view", "copy_decorations">>,
    <<"vcs", "general", "vcs">>, <<"watch", "general", "watch">>,
    <<"exclude_untracked", "general", "exclude_untracked">>,
    <<"prompt_save_view_preferences", "general", "prompt_save_view_preferences">>,
    <<"theme", "theme", "name">>, <<"review_message", "review", "message">>,
    <<"tests_last", "review", "tests_last">>, <<"test_file_patterns", "review", "test_file_patterns">>,
    <<"ask_enabled", "ask", "enabled">>, <<"ask_provider", "ask", "provider">>,
    <<"ask_model", "ask", "model">>, <<"ask_thinking", "ask", "effort">>,
    <<"ask_timeout_secs", "ask", "timeout_secs">>, <<"ai_summaries", "map", "enabled">>,
    <<"start_on_map", "map", "start_on">>, <<"review_map_server", "map", "server">>,
    <<"review_map_token_file", "map", "token_file">>>>

\* The flat keys set the field of their own name, the camel-case one excepted.
PREFERENCE_KEYS ==
  {"mode", "vcs", "theme", "show_sidebar", "watch", "exclude_untracked", "line_numbers", "wrap_lines",
   "hunk_headers", "agent_notes", "copy_decorations", "prompt_save_view_preferences",
   "transparent_background", "transparentBackground", "color_moved", "test_file_patterns",
   "review_map_server", "review_map_token_file", "ai_summaries", "start_on_map", "tests_last",
   "ask_enabled", "ask_provider", "ask_model", "ask_thinking", "ask_timeout_secs", "review_message"}
FieldOf(key) == IF key = "transparentBackground" THEN "transparent_background" ELSE key
Fields == {FieldOf(k) : k \in PREFERENCE_KEYS} \cup {k[3] : k \in SectionKeys}
ViewPreferences ==
  {"mode", "theme", "show_sidebar", "line_numbers", "wrap_lines", "hunk_headers", "agent_notes",
   "transparent_background", "prompt_save_view_preferences"}
CommandLineFields ==
  {"mode", "theme", "watch", "exclude_untracked", "line_numbers", "wrap_lines", "hunk_headers",
   "agent_notes", "transparent_background", "start_on_map", "tests_last", "ask_enabled"}

\* Defaults stand for the values of ResolvedConfig::default; patterns are a list.
Default == [f \in Fields |-> CASE f = "test_file_patterns" -> <<>>
                                [] f = "chat_enabled" -> "off"
                                [] OTHER -> "default"]

Get(table, key) == IF key \in DOMAIN table THEN table[key] ELSE None
Or(a, b) == IF a # None THEN a ELSE b

layers(file) == {file.flat} \cup Range(file.commands)

(***************************************************************************)
(* Checks of a file                                                        *)
(***************************************************************************)
validate_keys(file) ==
  /\ \A layer \in layers(file) : DOMAIN layer \subseteq PREFERENCE_KEYS
  /\ \A s \in DOMAIN file.sections : DOMAIN file.sections[s] \subseteq SETTING_SECTIONS(s)

\* A colour that is not one, or a base that is no built-in theme.
validate_custom_theme(theme) ==
  theme # None => /\ theme.base # Bad
                  /\ Bad \notin Range(theme.colors) \cup Range(theme.scopes) \cup Range(theme.syntax)

FlatHolds(file, keys) == \A layer \in layers(file), k \in keys : Get(layer, k) # Bad
validate_test_file_patterns(file) == FlatHolds(file, {"test_file_patterns"})
validate_review_map_config(file) == FlatHolds(file, {"review_map_server", "review_map_token_file"})
validate_ask_config(file) == FlatHolds(file, {"ask_provider", "ask_model", "ask_thinking", "ask_timeout_secs"})
validate_review_message(file) == FlatHolds(file, {"review_message"})

AgentChecks == {"provider", "model", "effort", "timeout_secs"}
SectionChecks ==
  [ask |-> AgentChecks, chat |-> AgentChecks, map |-> AgentChecks \cup {"backend", "server", "token_file"},
   review |-> {"message", "test_file_patterns"}, linear |-> {"command"}]
\* Mutant: the sections that came after the flat keys have no check of their own.
SectionsUnchecked(file) == \A s \in {"ask", "review"} : \A k \in SectionChecks[s] : Get(file.sections[s], k) # Bad
validate_sections(file) ==
  \A s \in DOMAIN SectionChecks : \A k \in SectionChecks[s] : Get(file.sections[s], k) # Bad

\* Deserialising refuses a value that is not of its key's type; a theme is any string.
Checked == {"theme", "test_file_patterns", "review_map_server", "review_map_token_file", "ask_provider",
            "ask_model", "ask_thinking", "ask_timeout_secs", "review_message"}
Deserializes(file) ==
  /\ FlatHolds(file, PREFERENCE_KEYS \ Checked)
  /\ \A s \in DOMAIN file.sections \ {"theme"} :
       \A k \in DOMAIN file.sections[s] :
         (s \in DOMAIN SectionChecks => k \notin SectionChecks[s]) => file.sections[s][k] # Bad

\* legacy_syntax_scopes: the scopes each old syntax role stands for.
MAPPINGS ==
  [default |-> {"source"}, keyword |-> {"keyword"}, string |-> {"string"},
   comment |-> {"comment", "punctuation.definition.comment"}, number |-> {"constant.numeric"},
   function |-> {"entity.name.function", "support.function", "variable.function"},
   property |-> {"variable.other.property", "support.variable.property"},
   type |-> {"entity.name.type", "entity.name.class", "support.type", "support.class"},
   variable |-> {"variable"}, operator |-> {"keyword.operator"}, punctuation |-> {"punctuation"}]
legacy_syntax_scopes(syntax) ==
  [scope \in UNION {MAPPINGS[role] : role \in DOMAIN syntax} |->
     syntax[CHOOSE role \in DOMAIN syntax : scope \in MAPPINGS[role]]]

\* An old role gives way to a scope the theme names itself.
Translated(theme) ==
  IF theme = None THEN None
  ELSE [theme EXCEPT !.scopes = @ @@ legacy_syntax_scopes(theme.syntax), !.syntax = <<>>]

\* A missing file is None; it sets nothing.
read_config(file) ==
  CASE file = None -> None
    [] file # None /\ ~(/\ validate_keys(file)
                        /\ validate_custom_theme(file.custom)
                        /\ validate_custom_theme(file.nested)
                        /\ Deserializes(file)
                        /\ validate_test_file_patterns(file)
                        /\ validate_review_map_config(file)
                        /\ validate_ask_config(file)
                        /\ validate_review_message(file)
                        /\ validate_sections(file)) -> Err
    [] OTHER -> [file EXCEPT !.custom = Translated(@), !.nested = Translated(@)]

(***************************************************************************)
(* Layers                                                                  *)
(***************************************************************************)
apply_layer(resolved, layer) ==
  [f \in Fields |->
     CASE f = "test_file_patterns" -> resolved[f] \o Or(Get(layer, f), <<>>)
       [] f = "transparent_background" -> Or(Or(Get(layer, "transparentBackground"), Get(layer, f)), resolved[f])
       [] OTHER -> Or(Get(layer, f), resolved[f])]

\* The flattened root keeps no theme of its own: the file's theme setting takes it.
Root(file) == Restrict(file.flat, DOMAIN file.flat \ {"theme"})

\* What the sections of a file say of a field.
InSections(file, f) ==
  IF f = "theme" /\ "theme" \in DOMAIN file.flat THEN file.flat.theme
  ELSE LET home == SectionOf(f) IN Get(file.sections[home[1]], home[2])
apply_sections(resolved, file) ==
  [f \in Fields |-> IF f = "test_file_patterns" THEN resolved[f] \o Or(InSections(file, f), <<>>)
                    ELSE Or(InSections(file, f), resolved[f])]

command_layer(file, kind) ==
  file.commands[CASE kind \in {"Diff", "PullRequest"} -> "diff"
                  [] kind = "Show" -> "show"
                  [] kind = "StashShow" -> "stash_show"
                  [] kind = "Patch" -> "patch"
                  [] kind = "Pager" -> "pager"
                  [] kind = "Difftool" -> "difftool"]

merge(base, other) ==
  [base |-> Or(other.base, base.base), label |-> Or(other.label, base.label),
   colors |-> other.colors @@ base.colors, scopes |-> other.scopes @@ base.scopes, syntax |-> base.syntax]

CustomTheme(file) == IF file = None THEN None ELSE Or(file.custom, file.nested)
CustomThemes(user, repo) ==
  LET over == CustomTheme(repo)
      base == CustomTheme(user)
  IN  IF over = None THEN base ELSE IF base = None THEN over ELSE merge(base, over)

UsesLegacySyntax(file) ==
  file # None /\ \E theme \in {file.custom, file.nested} : theme # None /\ DOMAIN theme.syntax # {}
NamesLayout(file) == file # None /\ "layout" \in DOMAIN file.sections.chat
StartupNotices(user, repo, fields) ==
  (IF UsesLegacySyntax(user) \/ UsesLegacySyntax(repo) THEN <<"LEGACY_SYNTAX_NOTICE">> ELSE <<>>)
  \o (IF fields.chat_enabled = "on" /\ fields.chat_layout \in {"default", "full"}
         /\ ~NamesLayout(user) /\ ~NamesLayout(repo)
      THEN <<"CHAT_FULL_SCREEN_NOTICE">> ELSE <<>>)

apply_cli_options(resolved, options) ==
  [f \in Fields |-> IF f \in CommandLineFields THEN Or(Get(options, f), resolved[f]) ELSE resolved[f]]

\* input is [kind, pager, options]: the normalised command line.
InFiles(files) == FoldLeft(LAMBDA r, f : apply_sections(apply_layer(r, Root(f)), f), Default, files)
ForCommand(resolved, files, kind) == FoldLeft(LAMBDA r, f : apply_layer(r, command_layer(f, kind)), resolved, files)
InPager(resolved, files) == FoldLeft(LAMBDA r, f : apply_layer(r, f.commands.pager), resolved, files)
resolve(userFile, repoFile, input) ==
  LET user == read_config(userFile)
      repo == read_config(repoFile)
      files == SelectSeq(<<user, repo>>, LAMBDA f : f # None)
      command == ForCommand(InFiles(files), files, input.kind)
      paged == IF input.kind = "Pager" \/ input.pager THEN InPager(command, files) ELSE command
  IN  IF Err \in {user, repo} THEN Err
      ELSE [fields |-> apply_cli_options(paged, input.options), custom |-> CustomThemes(user, repo),
            notices |-> StartupNotices(userFile, repoFile, command)]

(***************************************************************************)
(* The command line                                                        *)
(***************************************************************************)
\* A pair of flags of which the parser keeps the last.
bool_pair(flags, on, off) == 
  CASE on \in flags -> "on" [] off \in flags /\ on \notin flags -> "off" [] OTHER -> None
FlagPairs ==
  [line_numbers |-> <<"line_numbers", "no_line_numbers">>, wrap_lines |-> <<"wrap", "no_wrap">>,
   hunk_headers |-> <<"hunk_headers", "no_hunk_headers">>, agent_notes |-> <<"agent_notes", "no_agent_notes">>,
   transparent_background |-> <<"transparent_bg", "no_transparent_bg">>,
   start_on_map |-> <<"start_on_map", "no_start_on_map">>, tests_last |-> <<"tests_last", "no_tests_last">>,
   ask_enabled |-> <<"ask", "no_ask">>,
   exclude_untracked |-> <<"exclude_untracked", "no_exclude_untracked">>]
common_options(args) ==
  [f \in CommandLineFields |->
     CASE f \in DOMAIN FlagPairs /\ (f = "exclude_untracked" => args.command = "diff") ->
            bool_pair(args.flags, FlagPairs[f][1], FlagPairs[f][2])
       [] f = "watch" -> IF args.command = "pr" THEN "off"
                         ELSE IF "watch" \in args.flags /\ args.command \in {"diff", "show", "difftool"} THEN "on" ELSE None
       [] f \in {"mode", "theme"} -> Get(args.values, f)
       [] OTHER -> None]

\* normalize: args is [command, targets, staged, path, flags, values]; targets counts the
\* diff's targets, "files" when they are two files on disk.
Kind(args) ==
  CASE args.command = "pr" -> "PullRequest"
    [] args.command = "show" -> "Show"
    [] args.command = "stash show" -> "StashShow"
    [] args.command \in {"patch", "input"} -> "Patch"
    [] args.command = "pager" -> "Pager"
    [] args.command = "difftool" /\ args.path -> "Difftool"
    [] OTHER -> "Diff"
normalize_diff(args) ==
  CASE args.targets \in {"none", "range"} -> "VcsDiff"
    [] args.targets = "files" /\ ~args.pathspecs /\ ~args.staged -> "FilePair"
    [] OTHER -> Err
normalize(args) ==
  IF args.command = "diff" /\ normalize_diff(args) = Err THEN Err
  ELSE [kind |-> Kind(args), pager |-> args.command # "pr" /\ "pager" \in args.flags,
        options |-> common_options(args)]

(***************************************************************************)
(* Moving and saving                                                       *)
(***************************************************************************)
Put(table, key, value) == [k \in DOMAIN table \cup {key} |-> IF k = key THEN value ELSE table[k]]
Without(table, key) == Restrict(table, DOMAIN table \ {key})

\* A key already in its section wins.  An inline table takes no key: the value is dropped.
MoveKey(file, move) ==
  [file EXCEPT !.flat = Without(@, move[1]),
               !.sections[move[2]] = IF move[2] \in file.inline \/ move[3] \in DOMAIN @ THEN @
                                     ELSE Put(@, move[3], file.flat[move[1]])]
move_legacy_keys(file) ==
  LET moved == FoldLeft(MoveKey, file, SelectSeq(MOVES, LAMBDA m : m[1] \in DOMAIN file.flat))
  IN  IF moved.custom = None \/ moved.nested # None THEN moved
      ELSE [moved EXCEPT !.nested = moved.custom, !.custom = None]

\* A key whose section is inline is taken out but is not among the moved ones.
Moved(file) ==
  {i \in DOMAIN MOVES : MOVES[i][1] \in DOMAIN file.flat /\ MOVES[i][2] \notin file.inline} # {}
    \/ (file.custom # None /\ file.nested = None)

\* migrate_user_config: the file and its backup after the start.
migrate_user_config(file) ==
  IF file = None \/ ~Moved(file) THEN [file |-> file, backup |-> None]
  ELSE [file |-> move_legacy_keys(file), backup |-> file]

between(initial, current) ==
  Restrict(current, {p \in ViewPreferences : initial[p] # current[p]})

HomeOf(pref) == CASE pref = "theme" -> <<"theme", "name">>
                  [] pref = "prompt_save_view_preferences" -> <<"general", pref>>
                  [] OTHER -> <<"view", pref>>
set_value(file, pref, value) ==
  LET home == HomeOf(pref)
  IN  IF home[1] \in file.inline THEN file ELSE [file EXCEPT !.sections[home[1]] = Put(@, home[2], value)]

Blank == [flat |-> <<>>, commands |-> [c \in COMMAND_SECTIONS |-> <<>>],
          sections |-> [s \in Sections |-> <<>>], inline |-> {}, custom |-> None, nested |-> None]

save_view_preferences(file, changes) ==
  IF DOMAIN changes = {} THEN file
  ELSE FoldLeft(LAMBDA f, p : set_value(f, p, changes[p]),
                move_legacy_keys(IF file = None THEN Blank ELSE file), SetToSeq(DOMAIN changes))

(***************************************************************************)
(* Properties                                                              *)
(***************************************************************************)
Start(user, repo, input) == resolve(migrate_user_config(user).file, repo, input)

\* The spellings of a field at the root and in the sections of a file.
FlatSpellings(file, f) == {k \in DOMAIN file.flat : FieldOf(k) = f}
InSection(file, f) == LET home == SectionOf(f) IN home[2] \in DOMAIN file.sections[home[1]]
SpelledOnce(file, f) ==
  file # None => \/ FlatSpellings(file, f) = {}
                 \/ /\ Cardinality(FlatSpellings(file, f)) = 1
                    /\ ~InSection(file, f)
                    /\ SectionOf(f)[1] \notin file.inline

\* The layers that come after the user's own settings, from the last one on.
Above(user, repo, input, f) ==
  LET said(file, layer) == IF file = None THEN None
                           ELSE IF f = "transparent_background"
                                THEN Or(Get(layer, "transparentBackground"), Get(layer, f)) ELSE Get(layer, f)
      in(file, c) == IF file = None THEN None ELSE said(file, file.commands[c])
      own(file) == IF file = None THEN None ELSE said(file, command_layer(file, input.kind))
      paged == input.kind = "Pager" \/ input.pager
  IN  <<IF f \in CommandLineFields THEN Get(input.options, f) ELSE None,
        IF paged THEN in(repo, "pager") ELSE None, IF paged THEN in(user, "pager") ELSE None,
        own(repo), own(user),
        IF repo = None THEN None ELSE InSections(repo, f),
        IF repo = None THEN None ELSE said(repo, Root(repo))>>
First(said) == LET some == {i \in DOMAIN said : said[i] # None}
               IN  IF some = {} THEN None ELSE said[Min(some)]

\* Whatever spelling a setting has, in whichever file, per command or on the command line, the
\* last layer that names it decides, and no value its check refuses is ever in force.
LastLayerDecides(user, repo, input) ==
  LET below(f) == IF user = None THEN <<>>
                  ELSE <<InSections(user, f), Or(Get(Root(user), IF f = "transparent_background" THEN "transparentBackground" ELSE f),
                                                 Get(Root(user), f))>>
  IN  \A r \in {resolve(user, repo, input)} \ {Err} :
        \A f \in Fields \ {"test_file_patterns"} :
          /\ r.fields[f] = Or(First(Above(user, repo, input, f) \o below(f)), Default[f])
          /\ r.fields[f] # Bad

\* Moving the flat keys of an old file into sections does not change what the file says, for
\* every setting the file spells once.
MigrationKeepsMeaning(user, repo, input) ==
  \A before \in {resolve(user, repo, input)} \ {Err}, after \in {Start(user, repo, input)} :
    /\ after # Err
    /\ \A f \in Fields : SpelledOnce(user, f) => after.fields[f] = before.fields[f]
    /\ after.custom = before.custom

\* A preference changed in one review and saved on quit is in force in the next one, unless a
\* later layer names it; the preferences that were not changed stay as they were.
SavedIsInForce(user, repo, input, current) ==
  \A file \in {migrate_user_config(user).file} :
  \A before \in {resolve(file, repo, input)} \ {Err} :
  \A initial \in {Restrict(before.fields, ViewPreferences)} :
  \A changes \in {between(initial, current @@ initial)} :
  \A after \in {Start(save_view_preferences(file, changes), repo, input)} :
    /\ after # Err
    /\ \A f \in Fields :
         (file = None \/ SectionOf(f)[1] \notin file.inline) =>
           after.fields[f] = IF f \in DOMAIN changes /\ First(Above(file, repo, input, f)) = None
                             THEN current[f] ELSE before.fields[f]

ConfigIsHonoured(user, repo, args, current) ==
  \A input \in {normalize(args)} \ {Err} :
    /\ LastLayerDecides(user, repo, input)
    /\ MigrationKeepsMeaning(user, repo, input)
    /\ SavedIsInForce(user, repo, input, current)

=============================================================================
