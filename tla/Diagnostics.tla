------------------------------ MODULE Diagnostics ------------------------------
(* run_diagnostics of acp/diagnostics.py, and inside it the two scanners it    *)
(* depends on, one loop pass per step: _strip_jsonc_comments over the text of  *)
(* the configuration file, and the loop of inspect_models over the lines of    *)
(* "opencode models --verbose".  json.loads, the file system, OpenCode and the *)
(* commands it starts are outside: their answers are left to chance.           *)
EXTENDS Integers, Sequences

CONSTANT Inputs   \* what there is to read: records [text, listing]

(* A character is "q" (quote), "b" (backslash), "s" (slash), "a" (asterisk),   *)
(* "n" (newline) or "c" (any other).  A listing is a sequence of blocks: a     *)
(* "model" or a "nested" one that holds an object, a "brace" one with an open  *)
(* brace in a string, a line of "noise" or a "blank" line.  The code strips the *)
(* output before it splits it, so a listing neither starts nor ends blank.      *)

Characters == {"q", "b", "s", "a", "n", "c"}
Blocks == {"model", "nested", "brace", "noise", "blank"}

ASSUME InputAssumption == Inputs \subseteq [text : Seq(Characters), listing : Seq(Blocks)]

VARIABLES
    input,      \* the text and the listing
    stage,      \* "binary", "config", "strip", "models", "list", "test", "done"
    i,          \* the index of the loop
    inString,   \* in_string
    out,        \* result of _strip_jsonc_comments
    models,     \* result["models"]: the numbers of the blocks
    issues      \* what is reported, healthy if nothing

reportVars == <<input, stage, i, inString, out, models, issues>>

text == input.text
n == Len(text)

DiagnosticsInit ==
    /\ input \in Inputs
    /\ stage = "binary" /\ i = 1
    /\ inString = FALSE /\ out = <<>>
    /\ models = <<>> /\ issues = {}

(* Variants that no action uses precede the definitions they are variants of. *)

\* What "\\" takes along inside a string.
Escapes(k) == text[k] = "b" /\ k + 1 <= n

\* The index behind a line comment, which keeps its newline, and a block comment.
Least(S) == CHOOSE k \in S : \A j \in S : k <= j
BehindLine(k) == Least({j \in k..n : text[j] = "n"} \cup {n + 1})
BehindBlockAtStar(k) == Least({j + 2 : j \in {j \in k + 1..n - 1 : text[j] = "a" /\ text[j + 1] = "s"}} \cup {n + 1})
BehindBlock(k) == Least({j + 2 : j \in {j \in k + 2..n - 1 : text[j] = "a" /\ text[j + 1] = "s"}} \cup {n + 1})

-----------------------------------------------------------------------------
(* The lines of a listing: [block, kind, braces], braces opened minus closed. *)

Line(b, kind, braces) == [block |-> b, kind |-> kind, braces |-> braces]
Body(b, kind) ==
    CASE kind = "model"  -> <<Line(b, "open", 1), Line(b, "field", 0), Line(b, "close", -1)>>
      [] kind = "nested" -> <<Line(b, "open", 1), Line(b, "field", 1), Line(b, "close", -1),
                              Line(b, "close", -1)>>
      [] kind = "brace"  -> <<Line(b, "open", 1), Line(b, "field", 1), Line(b, "close", -1)>>
Printed(l, b) ==
    IF l[b] \in {"noise", "blank"} THEN <<Line(b, l[b], 0)>>
    ELSE <<Line(b, "header", 0)>> \o Body(b, l[b])

\* The lines of the first b blocks, and of all of them.
LinesTo(l) ==
    LET lines[b \in 0..Len(l)] == IF b = 0 THEN <<>> ELSE lines[b - 1] \o Printed(l, b)
    IN  lines
Lines == LinesTo(input.listing)[Len(input.listing)]

\* brace_count, of the first k lines and between two lines.
BraceCount(lines) ==
    LET count[k \in 0..Len(lines)] == IF k = 0 THEN 0 ELSE count[k - 1] + lines[k].braces
    IN  count
Braces(from, to) == BraceCount(Lines)[to] - BraceCount(Lines)[from - 1]

\* The line "}" that brings brace_count to zero, or the end of the listing.
ObjectEndAtFirstClose(from) ==
    Least({k \in from..Len(Lines) : Lines[k].kind = "close"} \cup {Len(Lines)})
ObjectEnd(from) ==
    Least({k \in from..Len(Lines) : Lines[k].kind = "close" /\ Braces(from, k) = 0}
             \cup {Len(Lines)})

\* json.loads accepts the lines of exactly one object.
IsObjectOf(b, from, to) ==
    /\ input.listing[b] \in {"model", "nested", "brace"}
    /\ SubSeq(Lines, from, to) = Body(b, input.listing[b])

-----------------------------------------------------------------------------
(* run_diagnostics.                                                         *)

InspectBinary ==
    /\ stage = "binary"
    /\ \E found \in BOOLEAN : issues' = IF found THEN issues ELSE issues \cup {"binary"}
    /\ stage' = "config"
    /\ UNCHANGED <<input, i, inString, out, models>>

\* No file, a file that cannot be read, or its text.
InspectConfig ==
    /\ stage = "config"
    /\ \/ issues' = issues \cup {"config"} /\ stage' = "models"
       \/ UNCHANGED issues /\ stage' = "strip"
    /\ UNCHANGED <<input, i, inString, out, models>>

Keep(count) ==
    /\ out' = out \o SubSeq(text, i, i + count - 1)
    /\ i' = i + count

InsideString ==
    /\ i <= n /\ inString
    /\ IF Escapes(i) THEN Keep(2) /\ UNCHANGED inString
                     ELSE Keep(1) /\ inString' = (text[i] # "q")

OutsideString ==
    /\ i <= n /\ ~inString
    /\ IF text[i] = "s" /\ i + 1 <= n /\ text[i + 1] \in {"s", "a"}
       THEN /\ i' = IF text[i + 1] = "s" THEN BehindLine(i) ELSE BehindBlock(i)
            /\ UNCHANGED <<inString, out>>
       ELSE Keep(1) /\ inString' = (text[i] = "q")

StripComments ==
    /\ stage = "strip"
    /\ InsideString \/ OutsideString
    /\ UNCHANGED <<input, stage, models, issues>>

\* json.loads takes the cleaned text or raises JSONDecodeError.
ParseConfig ==
    /\ stage = "strip" /\ i > n
    /\ \E valid \in BOOLEAN : issues' = IF valid THEN issues ELSE issues \cup {"config"}
    /\ stage' = "models"
    /\ UNCHANGED <<input, i, inString, out, models>>

\* No ready runtime ends the report; GET /config or the command may fail.
InspectModels ==
    /\ stage = "models"
    /\ stage' \in {"done", "test", "list"}
    /\ i' = 1
    /\ UNCHANGED <<input, inString, out, models, issues>>

ListModel ==
    /\ stage = "list" /\ i <= Len(Lines)
    /\ IF Lines[i].kind \in {"header", "noise", "field"}
       THEN LET last == ObjectEnd(i + 1) IN
            /\ \/ \E b \in DOMAIN input.listing :
                       IsObjectOf(b, i + 1, last) /\ models' = Append(models, b)
               \/ /\ \A b \in DOMAIN input.listing : ~IsObjectOf(b, i + 1, last)
                  /\ UNCHANGED models
            /\ i' = IF last <= i THEN i + 1 ELSE last + 1
       ELSE i' = i + 1 /\ UNCHANGED models
    /\ UNCHANGED <<input, stage, inString, out, issues>>

EndListing ==
    /\ stage = "list" /\ i > Len(Lines)
    /\ stage' = "test"
    /\ UNCHANGED <<input, i, inString, out, models, issues>>

FunctionalTest ==
    /\ stage = "test"
    /\ \E ok \in BOOLEAN : issues' = IF ok THEN issues ELSE issues \cup {"test"}
    /\ stage' = "done"
    /\ UNCHANGED <<input, i, inString, out, models>>

DiagnosticsNext ==
    \/ InspectBinary \/ InspectConfig \/ StripComments \/ ParseConfig
    \/ InspectModels \/ ListModel \/ EndListing \/ FunctionalTest

DiagnosticsSpec == DiagnosticsInit /\ [][DiagnosticsNext]_reportVars

-----------------------------------------------------------------------------
(* Reference definitions and properties.                                    *)

\* Where a reader of single characters is after one more of them.
Step(mode, ch) ==
    CASE mode = "escape" -> "string"
      [] mode = "string" -> IF ch = "b" THEN "escape" ELSE IF ch = "q" THEN "code" ELSE "string"
      [] mode = "line" -> IF ch = "n" THEN "code" ELSE "line"
      [] mode = "block" -> IF ch = "a" THEN "star" ELSE "block"
      [] mode = "star" -> IF ch = "s" THEN "code" ELSE IF ch = "a" THEN "star" ELSE "block"
      [] mode \in {"code", "slash"} ->
             IF ch = "q" THEN "string"
             ELSE IF ch = "s" THEN (IF mode = "slash" THEN "line" ELSE "slash")
             ELSE IF ch = "a" /\ mode = "slash" THEN "block" ELSE "code"

\* Where that reader is after k characters of t.
After(t) ==
    LET mode[k \in 0..Len(t)] == IF k = 0 THEN "code" ELSE Step(mode[k - 1], t[k])
    IN  mode

InComment(t, k) ==
    \/ After(t)[k - 1] = "line" /\ t[k] # "n"
    \/ After(t)[k - 1] \in {"block", "star"}
    \/ After(t)[k] \in {"line", "block"} /\ After(t)[k - 1] = "slash"
    \/ After(t)[k] = "slash" /\ k < Len(t) /\ After(t)[k + 1] \in {"line", "block"}

\* The first k characters of t without those that are in a comment.
Kept(t) ==
    LET kept[k \in 0..Len(t)] ==
            IF k = 0 THEN <<>>
            ELSE IF InComment(t, k) THEN kept[k - 1] ELSE Append(kept[k - 1], t[k])
    IN  kept

\* The scanner, which looks two characters ahead and skips, removes exactly what
\* a reader of single characters finds to be comment, and touches no string.
CommentsStripped == stage = "strip" /\ i > n => out = Kept(text)[n]

\* Whether the block behind the first b blocks is read from its header on: no
\* object before it is still open, and no noise line has taken it for an object.
Clear(l, b) ==
    /\ \A a \in 1..b : l[a] # "brace"
    /\ \A a \in 1..b : l[a] = "noise" => \E c \in (a + 1)..b : l[c] \in {"model", "nested"}

Listed(l, b) ==
    /\ Clear(l, b - 1)
    /\ l[b] \in {"model", "nested"} \/ (l[b] = "brace" /\ b = Len(l))

\* The listing is read completely and in order, but for the model behind a noise
\* line and a model with an unbalanced brace together with all that follows it.
ListingComplete ==
    stage = "list" /\ i > Len(Lines) =>
        /\ {models[k] : k \in DOMAIN models} =
               {b \in DOMAIN input.listing : Listed(input.listing, b)}
        /\ \A j, k \in DOMAIN models : j < k => models[j] < models[k]
=============================================================================
