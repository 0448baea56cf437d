----------------------------- MODULE ShellText -----------------------------
(***************************************************************************)
(* What the shell is given to read: lines, scripts, keys and words to be   *)
(* completed.  "kind" says which of them "input" is; an input grows from   *)
(* an empty one.                                                           *)
(***************************************************************************)
EXTENDS LineEditor

CONSTANTS
    LineChars, ScriptChars, NameChars, \* the characters of lines, scripts and names
    Keys,           \* the keys at the prompt
    Listings,       \* what a directory may contain
    Cwd, Path,      \* the two directories in which the prompt completes
    Words,          \* the words to be completed
    ExtraSizes,     \* and the room there is for what is added
    MaxLine, MaxScript, MaxKeys \* bounds: how long an input grows

\* A name and the slash behind it fit in the array of libfoxos they come in,
\* and a directory has a name once.
IsDirectory(dir) ==
    /\ dir \in Seq([name : Seq(NameChars), isDir : BOOLEAN])
    /\ \A i \in DOMAIN dir : Len(dir[i].name) < MAX_DIR_NAME_LENGTH
    /\ \A i, j \in DOMAIN dir : dir[i].name = dir[j].name => i = j
ASSUME TextAssumption ==
    /\ Nul \notin LineChars \cup ScriptChars \cup NameChars /\ "/" \notin NameChars
    /\ \A dir \in Listings \cup {Cwd, Path} : IsDirectory(dir)
    /\ Words \subseteq Seq(NameChars \cup {"/"}) /\ ExtraSizes \subseteq Nat

VARIABLES kind, input
textVars == <<kind, input>>

AddTo(as, chars, n) ==
    /\ kind \in {"start", as} /\ kind' = as
    /\ Len(input) < n /\ \E c \in chars : input' = Append(input, c)
GrowLine == AddTo("line", LineChars, MaxLine)
GrowScript == AddTo("script", ScriptChars, MaxScript)
PressKey == AddTo("keys", Keys, MaxKeys)
ChooseCompletion ==
    /\ kind = "start" /\ kind' = "completion"
    /\ \E command \in Words, cwd, path \in Listings, extra_size \in ExtraSizes :
          input' = <<command, cwd, path, extra_size>>

TextInit == kind = "start" /\ input = <<>>
TextNext == GrowLine \/ GrowScript \/ PressKey \/ ChooseCompletion
TextSpec == TextInit /\ [][TextNext]_textVars

\* argv_tools.c: the scanners take the same characters of a line for quoted, and
\* the same ones for operators.
LineScannersAgree == kind = "line" => ScannersAgree(input)
\* run_script: the lines of a file are what is run, up to one that is too long
\* for the array it is read into (script.c:31).
ScriptRunsItsLines == kind = "script" => RunsItsLines(input)
\* The prompt: what is on the screen is what Enter hands over.
EditorShowsWhatItTakes == kind = "keys" => ShowsWhatItTakes(input, Cwd, Path)
\* tab_complete: what is added is common to all candidates.
TabCompletesCommon ==
    kind = "completion" => CompletesCommon(input[1], input[2], input[3], input[4])
=============================================================================
