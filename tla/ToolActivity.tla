---------------------------- MODULE ToolActivity ----------------------------
(***************************************************************************)
(* What a phone is told of Codex's tools: tool_activity_from_item and its      *)
(* helpers (bridge-core/src/normalizer.rs).  A tool is told when it starts,   *)
(* when it ends, and by every page of the thread, as a kind, a status and a   *)
(* title with a detail, and a detail must not name a place on the Mac.       *)
(*                                                                         *)
(* A text is a sequence of symbols: "/", ":", "-" (for "_" too), " " (for all  *)
(* white space), "," (for the other separators), "http" (for "https" too) and  *)
(* words.  An optional text is a set of one or none.  The wording of titles    *)
(* and durations is left out, and so are paths of Windows.                  *)
(***************************************************************************)
EXTENDS Naturals, Sequences, FiniteSets

CONSTANTS Items,     \* the tools' items: records with a type, an action and their texts
          MaxChars,  \* the longest detail (80 to 180 characters, by field)
          MaxLabels  \* the most files named in a detail (3)

ASSUME ToolActivityAssumption ==
  /\ MaxChars \in Nat \ {0} /\ MaxLabels \in Nat
  /\ \A item \in Items : /\ item.name \subseteq Seq(STRING) /\ item.path \subseteq Seq(STRING)
                        /\ item.paths \in Seq(Seq(STRING))

VARIABLES tool,  \* the tool: its item, its own status, "none" if its item carries none
          turn,  \* the status of its turn
          heard  \* what the phone is told of it last

toolVars == <<tool, turn, heard>>

(***************************************************************************)
(* Texts.                                                                  *)
(***************************************************************************)
Separators == {" ", ","}

\* The longest stretches of a text without the given symbols, as <<from, to>>.
Stretches(text, without) ==
  {p \in (DOMAIN text) \X (DOMAIN text) :
     /\ p[1] <= p[2] /\ \A i \in p[1] .. p[2] : text[i] \notin without
     /\ p[1] = 1 \/ text[p[1] - 1] \in without
     /\ p[2] = Len(text) \/ text[p[2] + 1] \in without}

Part(text, p) == SubSeq(text, p[1], p[2])

\* split_whitespace, joined by single spaces.
Tidy(text) ==
  LET tidy[i \in 0 .. Len(text)] ==
        IF i = 0 THEN << >>
        ELSE IF text[i] = " " THEN tidy[i - 1]
        ELSE IF tidy[i - 1] # << >> /\ text[i - 1] = " " THEN tidy[i - 1] \o <<" ", text[i]>>
        ELSE Append(tidy[i - 1], text[i])
  IN  tidy[Len(text)]

\* bounded_plain_text
Bounded(text) == IF Len(text) > MaxChars THEN SubSeq(text, 1, MaxChars) \o <<"...">> ELSE text

\* What comes before and after the first ":" of a word, one of the two in contains_absolute_path.
Colons(word) == {i \in DOMAIN word : word[i] = ":"}
SplitAtColon(word, i) == <<SubSeq(word, 1, i - 1), SubSeq(word, i + 1, Len(word))>>
IsAbsolute(path) == path # << >> /\ path[1] = "/"

\* contains_absolute_path
NamesPlace(text) ==
  \E p \in Stretches(text, Separators) :
    LET word == Part(text, p)
    IN  \/ IsAbsolute(word)
        \/ \E i \in Colons(word) :
             /\ \A j \in Colons(word) : i <= j
             /\ SplitAtColon(word, i)[1] # <<"http">> /\ IsAbsolute(SplitAtColon(word, i)[2])

\* bounded_safe_detail
Safe(text) == IF Tidy(text) = << >> \/ NamesPlace(Tidy(text)) THEN {} ELSE {Bounded(Tidy(text))}

\* humanize_identifier
Spaced(text) == [i \in DOMAIN text |-> IF text[i] = "-" THEN " " ELSE text[i]]

\* Mutant of Humanized: the text is checked as it came.
HumanizedLate(text) == {Bounded(Tidy(Spaced(safe))) : safe \in Safe(text)}

Humanized(text) == Safe(Spaced(text))

\* safe_path_label: the last component of a path.
Final(parts) == {p \in parts : \A q \in parts : q[1] <= p[1]}
Label(path) ==
  LET names == {Tidy(Part(path, p)) : p \in Final(Stretches(path, {"/"}))} \ {<< >>}
  IN  IF names = {} THEN <<"workspace">> ELSE CHOOSE name \in {Bounded(n) : n \in names} : TRUE

Labels(paths) == {Label(path) : path \in paths}

\* agent_task_label: the words of the last component that is not blank.
TaskLabel(path) ==
  LET named == {p \in Stretches(path, {"/"}) : Tidy(Part(path, p)) # << >>}
  IN  {Tidy([i \in DOMAIN Part(path, p) |->
               IF Part(path, p)[i] \in {":", "-", ","} THEN " " ELSE Part(path, p)[i]]) :
         p \in Final(named)} \ {<< >>}

Joined(one, between, other) ==
  IF one = {} \/ other = {} THEN one \cup other
  ELSE {a \o between \o b : a \in one, b \in other}

\* changed_file_detail: each label once, and only their number if there are many.
FilesDetail(paths) ==
  LET new == {i \in DOMAIN paths : \A j \in 1 .. i - 1 : Label(paths[j]) # Label(paths[i])}
      joined[i \in 0 .. Len(paths)] ==
        IF i = 0 THEN << >>
        ELSE IF i \notin new THEN joined[i - 1]
        ELSE IF i = 1 THEN Label(paths[i])
        ELSE joined[i - 1] \o <<",", " ">> \o Label(paths[i])
  IN  IF new = {} THEN {}
      ELSE IF Cardinality(new) > MaxLabels THEN {<<"many", " ", "files">>}
      ELSE {joined[Len(paths)]}

(***************************************************************************)
(* The detail of an item: of its optional texts "name" (a name, tool, query,   *)
(* review or prompt) and "path" (a path, server or namespace), or of its        *)
(* "paths" (changes).                                                      *)
(***************************************************************************)
SafeOf(texts) == UNION {Safe(text) : text \in texts}
HumanizedOf(texts) == UNION {Humanized(text) : text \in texts}
NotBlank(texts) == {text \in texts : Tidy(text) # << >>}

\* command_activity: a command of a family Codex does not name has no detail.
CommandDetail(item) ==
  CASE item.action = "read" -> IF SafeOf(item.name) # {} THEN SafeOf(item.name)
                               ELSE Labels(item.path)
    [] item.action = "listFiles" -> Labels(item.path)
    [] item.action = "search" -> Joined(SafeOf(item.name), <<" ", "in", " ">>,
                                        Labels(NotBlank(item.path)))
    [] OTHER -> {}

Detail(item) ==
  CASE item.type = "commandExecution" -> CommandDetail(item)
    [] item.type = "fileChange" -> FilesDetail(item.paths)
    [] item.type \in {"mcpToolCall", "dynamicToolCall"} ->
         Joined(SafeOf(item.path), <<" ", "dot", " ">>, HumanizedOf(NotBlank(item.name)))
    [] item.type \in {"webSearch", "review", "collabAgentToolCall"} -> SafeOf(item.name)
    [] item.type = "imageView" -> Labels(item.path)
    [] item.type = "subAgentActivity" -> UNION {TaskLabel(path) : path \in item.path}
    [] item.type = "other" -> HumanizedOf(item.name)
    [] OTHER -> {}  \* imageGeneration, sleep

\* command_fallback_activity: the first family of commands that the text shows.
Families == <<"test", "build", "git", "search", "read", "list_files">>
Family(shows) ==
  LET of == {i \in DOMAIN Families : Families[i] \in shows}
  IN  IF of = {} THEN "command" ELSE Families[CHOOSE i \in of : \A j \in of : i <= j]

Kind(item) ==
  CASE item.type = "commandExecution" ->
         (IF item.action \in {"read", "listFiles", "search"} THEN item.action
          ELSE Family(item.shows))
    [] OTHER -> item.type

(***************************************************************************)
(* The status: the item's own first, then the notification it came with, then  *)
(* the turn's.                                                             *)
(***************************************************************************)
ToolStatus(own, lifecycle) ==
  CASE own \in {"failed", "declined"} -> own
    [] lifecycle = "started" -> "running"
    [] lifecycle = "completed" \/ own = "completed" -> "completed"
    [] own = "inProgress" -> "running"
    [] turn = "running" -> "running"
    [] turn = "error" -> "failed"
    [] OTHER -> "completed"

\* tool_activity_text
Text(detail) == IF detail = {} THEN <<"title">>
                ELSE <<"title", ":", " ">> \o (CHOOSE text \in detail : TRUE)

\* tool_activity_from_item
Activity(item, own, lifecycle) ==
  [kind |-> Kind(item), status |-> ToolStatus(own, lifecycle), text |-> Text(Detail(item))]

(***************************************************************************)
(* A tool begins and ends in its turn; each notification may be lost, and     *)
(* pages are read at any time.                                              *)
(***************************************************************************)
Nothing == [kind |-> "none", status |-> "none", text |-> << >>]

ToolsInit == /\ \E item \in Items, own \in {"none", "inProgress"} :
                  tool = [pc |-> "none", item |-> item, own |-> own]
             /\ turn = "running" /\ heard = Nothing

Tells(own, lifecycle) == heard' \in {heard, Activity(tool.item, own, lifecycle)}

ToolBegins == /\ tool.pc = "none" /\ turn = "running"
              /\ tool' = [tool EXCEPT !.pc = "at work"]
              /\ Tells(tool.own, "started") /\ UNCHANGED turn

ToolEnds == /\ tool.pc = "at work"
            /\ \E outcome \in {"completed", "failed", "declined"} :
                 LET own == IF tool.own = "none" THEN "none" ELSE outcome
                 IN  /\ tool' = [tool EXCEPT !.pc = "over", !.own = own]
                     /\ Tells(own, "completed")
            /\ UNCHANGED turn

TurnEnds == /\ turn = "running" /\ tool.pc # "at work" /\ turn' \in {"idle", "error"}
            /\ UNCHANGED <<tool, heard>>

\* events_from_turn_with_index, for the tool's item.
ToolListed == /\ tool.pc # "none" /\ heard' = Activity(tool.item, tool.own, "none")
          /\ UNCHANGED <<tool, turn>>

ToolsNext == ToolBegins \/ ToolEnds \/ TurnEnds \/ ToolListed

(***************************************************************************)
(* Properties.                                                             *)
(***************************************************************************)
\* In a text no word, and nothing right after the first ":" of a word other than a web
\* address, begins with "/".
NoPlaceIn(text) ==
  LET Starts(i) == i = 1 \/ text[i - 1] \in Separators
  IN  \A i \in DOMAIN text :
        text[i] = "/" =>
          /\ ~Starts(i)
          /\ text[i - 1] = ":" =>
               \/ i > 2 /\ text[i - 2] = "http" /\ Starts(i - 2)
               \/ \E j \in 1 .. i - 2 : text[j] = ":" /\ \A k \in j .. i - 2 : ~Starts(k + 1)

\* No detail names a place on the Mac, in what a phone is told of a tool, whatever was
\* humanised, cut, labelled and joined (bounded_safe_detail, safe_path_label,
\* contains_absolute_path).
DetailsAreSafe == NoPlaceIn(heard.text)
=============================================================================
