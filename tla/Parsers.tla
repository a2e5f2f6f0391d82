------------------------------- MODULE Parsers -------------------------------
(***************************************************************************)
(* inspection/parsers.py and utils/parsing.py: what the one parse of a     *)
(* setup makes of a component's file.  A file is its form, and what it     *)
(* configures where it parses; text the rules search is left out.          *)
(***************************************************************************)
EXTENDS Naturals, Sequences, FiniteSets

(***************************************************************************)
(* gone: removed since discovery; locked: reading raises OSError; plain:   *)
(* no frontmatter; unclosed: its opening --- has no partner; a mapping;    *)
(* another value; a syntax error; badValue: a well-formed value that the   *)
(* loader or the mapper cannot build, such as the date 2024-13-45.         *)
(***************************************************************************)
Forms == {"gone", "locked", "empty", "plain", "unclosed", "mapping", "notMapping",
          "invalid", "badValue"}

CONSTANTS NoText,  \* no command, no prompt
          Blank    \* white space; of a prompt also what is no string
ASSUME ParserConstants == NoText # Blank

(* What a parsed component hands to the rules.                             *)
(* below: errors are placed at <path>/SKILL.md below a path that is gone.  *)
View(errors, raw) ==
    [errors |-> errors, raw |-> raw, below |-> FALSE, hooks |-> <<>>,
     allowed |-> {}, denied |-> {}, prompt |-> NoText, fields |-> FALSE]

NotFound == View({"not found"}, FALSE)
Readable(f) == View({}, f.form # "empty")

(* Mutant of FrontmatterErrors: a block without a closing line is prose. *)
FrontmatterErrorsClosed(form) ==
    CASE form = "notMapping" -> {"not a mapping"}
      [] form = "invalid" -> {"syntax"}
      [] OTHER -> {}

(* parse_frontmatter_rich *)
FrontmatterErrors(form) ==
    CASE form = "unclosed" -> {"no closing"}
      [] form = "notMapping" -> {"not a mapping"}
      [] form = "invalid" -> {"syntax"}
      [] OTHER -> {}

ReadAndParse(f) == View(FrontmatterErrors(f.form), f.form # "empty")

(* A path that is neither a file nor a directory is taken for the          *)
(* directory SKILL.md should be in.                                        *)
ParseSkill(f) ==
    IF f.form = "gone" THEN [NotFound EXCEPT !.below = TRUE] ELSE ReadAndParse(f)

(***************************************************************************)
(* A TOML command: the [command] table overrides the top level, and a      *)
(* prompt comes before a template; the one that is blank is passed over.   *)
(***************************************************************************)
TomlField(f, key) == IF key \in DOMAIN f.table THEN f.table[key]
                     ELSE IF key \in DOMAIN f.top THEN f.top[key] ELSE NoText

ParseToml(f) ==
    IF f.form = "invalid" THEN View({"syntax"}, TRUE)
    ELSE [Readable(f) EXCEPT !.prompt =
            IF f.form # "mapping" THEN NoText
            ELSE IF TomlField(f, "prompt") \notin {NoText, Blank} THEN TomlField(f, "prompt")
            ELSE IF TomlField(f, "template") # Blank THEN TomlField(f, "template")
            ELSE NoText]

ParseCommand(f, toml) ==
    IF f.form = "gone" THEN [NotFound EXCEPT !.below = TRUE]
    ELSE IF toml THEN ParseToml(f) ELSE ReadAndParse(f)

(* MCP and other configuration files are read, not validated. *)
ParseText(f) == IF f.form = "gone" THEN NotFound ELSE Readable(f)

(* The sections of CLAUDE.md are of no consequence to what is modelled. *)
ParseClaudeMd(f) == IF f.form = "gone" THEN NotFound ELSE Readable(f)

-----------------------------------------------------------------------------
(* Hooks.  A handler is a function from the keys it has to commands; an    *)
(* entry is a string, a handler, or a handler with nested ones.            *)

(* Mutant of NormaliseHookEntry: only `command` is a handler's command. *)
NormaliseCommandOnly(h) == IF "command" \in DOMAIN h THEN h["command"] ELSE NoText

(* The keys a handler is known by, in their order. *)
Keys == <<"command", "bash", "powershell", "exec">>
Stands(h, k) == k \in DOMAIN h /\ (k \in {"bash", "powershell"} => h[k] # Blank)

(* _normalise_hook_entry: the command, even a blank one, or what stands in *)
(* for it.                                                                 *)
NormaliseHookEntry(h) ==
    LET present == {i \in 1 .. 4 : Stands(h, Keys[i])}
    IN  IF present = {} THEN NoText
        ELSE h[Keys[CHOOSE i \in present : \A j \in present : i <= j]]

(***************************************************************************)
(* The hooks of one entry.  The entry's other keys are merged into each    *)
(* nested handler: under a mapping's own, but over a string's.             *)
(***************************************************************************)
HooksOf(e) ==
    LET own == IF "command" \in DOMAIN e.handler THEN e.handler["command"] ELSE NoText
        merged(sub) ==
            IF sub.string THEN IF own = NoText THEN sub.handler["command"] ELSE own
            ELSE IF NormaliseHookEntry(sub.handler) = NoText THEN own
            ELSE NormaliseHookEntry(sub.handler)
    IN  IF e.string THEN <<e.handler["command"]>>
        ELSE IF e.nested # <<>> THEN [k \in DOMAIN e.nested |-> merged(e.nested[k])]
        ELSE <<NormaliseHookEntry(e.handler)>>

(* What is no list under an event is passed over. *)
HooksUnder(event) == IF event.list THEN HooksOf(event.entry) ELSE <<>>

(* Every list of entries under an event, one after the other. *)
AllHooks(events) ==
    LET joined[k \in 0 .. Len(events)] ==
            IF k = 0 THEN <<>> ELSE joined[k - 1] \o HooksUnder(events[k])
    IN  joined[Len(events)]

(* What a hooks file that parses has.  A command that is neither a string  *)
(* nor, for exec, a list is left out.                                      *)
IsHandler(h) == DOMAIN h \subseteq {Keys[i] : i \in 1 .. 4} /\ \A k \in DOMAIN h : h[k] # NoText
IsEntry(e) ==
    /\ IsHandler(e.handler)
    /\ e.string => "command" \in DOMAIN e.handler
    /\ Len(e.nested) \in Nat /\ DOMAIN e.nested = 1 .. Len(e.nested)
    /\ \A k \in DOMAIN e.nested :
          /\ IsHandler(e.nested[k].handler)
          /\ e.nested[k].string => "command" \in DOMAIN e.nested[k].handler

ParseHooks(f) ==
    CASE f.form = "gone" -> NotFound
      [] f.form \in {"invalid", "empty"} -> View({"syntax"}, f.form # "empty")
      [] f.form = "mapping" -> [Readable(f) EXCEPT !.hooks = AllHooks(f.events)]
      [] OTHER -> Readable(f)

-----------------------------------------------------------------------------
(***************************************************************************)
(* Agents.  `tools` is a list of allowed tools or, in OpenCode's form, a   *)
(* map from tools to whether they are allowed; `disallowedTools` a list.   *)
(***************************************************************************)
ParseAgent(f) ==
    IF f.form = "gone" THEN NotFound
    ELSE IF f.form # "mapping" THEN ReadAndParse(f)
    ELSE [ReadAndParse(f) EXCEPT
            !.allowed = {t \in DOMAIN f.tools : f.tools[t]},
            !.denied = f.disallowed \cup {t \in DOMAIN f.tools : ~f.tools[t]}]

(* A harness definition; its fields exist if a mapper knows the client. *)
ParseHarness(f, known) ==
    CASE f.form = "gone" -> NotFound
      [] f.form = "invalid" -> View({"syntax"}, TRUE)
      [] f.form \in {"notMapping", "plain"} -> View({"not a mapping"}, TRUE)
      [] OTHER -> [Readable(f) EXCEPT !.fields = known /\ f.form = "mapping"]

-----------------------------------------------------------------------------
(* parse_setup for one component. *)
Parse(c, f) ==
    CASE c.type = "skill" -> ParseSkill(f)
      [] c.type = "command" -> ParseCommand(f, c.toml)
      [] c.type = "claude_md" -> ParseClaudeMd(f)
      [] c.type = "hooks" -> ParseHooks(f)
      [] c.type = "agent" -> ParseAgent(f)
      [] c.type = "harness" -> ParseHarness(f, c.tool = "fullsend")
      [] OTHER -> ParseText(f)

(* What the files of these two types hold where they parse. *)
HoldsWhatItMay(c, f) ==
    /\ c.type = "hooks" /\ f.form = "mapping" =>
         /\ Len(f.events) \in Nat /\ DOMAIN f.events = 1 .. Len(f.events)
         /\ \A k \in DOMAIN f.events : f.events[k].list => IsEntry(f.events[k].entry)
    /\ c.toml /\ f.form = "mapping" =>
         \A t \in {f.top, f.table} :
            DOMAIN t \subseteq {"prompt", "template"} /\ \A k \in DOMAIN t : t[k] # NoText

(* The forms that end the parse with an exception nobody catches. *)
Raises(c, f) ==
    \/ f.form = "locked"
    \/ f.form = "badValue" /\ c.type \in {"skill", "command", "agent", "harness"} /\ ~c.toml
    \/ f.form = "notMapping" /\ c.type = "hooks"
=============================================================================
