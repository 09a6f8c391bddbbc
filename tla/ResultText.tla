----------------------------- MODULE ResultText -----------------------------
(***************************************************************************)
(* How formatSuccessOutput of internal/worker/task_executor.go reads the   *)
(* agent's output: extractCodeChanges, extractChangeSummary and            *)
(* convertMarkdownToSlack. Each is a loop over the same lines and shares   *)
(* nothing with the others, so that one step here is an iteration of all   *)
(* three. A line is what the loops can tell of it, its kind; every state   *)
(* is the end of an output, and what the functions do after their loops is *)
(* an operator on it. extractModifiedFiles, which goes through the words   *)
(* of the lines, is left out.                                              *)
(***************************************************************************)
EXTENDS Naturals, Sequences, FiniteSets, Functions

CONSTANTS
    MaxCode,      \* maxDiffLines of extractCodeChanges (150)
    MaxSummary,   \* maxDiffLines of extractChangeSummary (20)
    MaxLines      \* bound: lines of an output

ASSUME CapAssumption == {MaxCode, MaxSummary} \subseteq Nat \ {0}
ASSUME LinesAssumption == MaxLines \in Nat

\* The kinds of lines, by what they begin with once trimmed: ``` without and
\* with a language; "diff --git", "---" or "+++"; "@@"; "+"; "-"; "- ";
\* "index" or "\"; nothing; "#"; "Summary:"; anything else. A context line of
\* a diff begins with a blank, which is trimmed: no test for it succeeds
\* (task_executor.go:496).
Fence  == {"fence", "langFence"}
Minus  == {"del", "item"}
Change == {"add"} \cup Minus
Kind == Fence \cup Change
          \cup {"header", "hunk", "index", "blank", "heading", "summary", "text", "context"}

VARIABLES
    lines,                 \* the output so far
    inDiff, inCodeBlock, codeBlockLines, diffCount,
    shown,                 \* codeChanges: the numbers of the lines written,
                           \* 0 for an empty line
    sumInDiff, sumCount, summary,        \* extractChangeSummary
    slackBlock, slack      \* convertMarkdownToSlack: what became of each line

codeVars == <<inDiff, inCodeBlock, codeBlockLines, diffCount, shown>>
textVars == <<lines, codeVars, sumInDiff, sumCount, summary, slackBlock, slack>>

TextInit ==
    /\ lines = <<>>
    /\ inDiff = FALSE /\ inCodeBlock = FALSE
    /\ codeBlockLines = 0 /\ diffCount = 0 /\ shown = <<>>
    /\ sumInDiff = FALSE /\ sumCount = 0 /\ summary = <<>>
    /\ slackBlock = FALSE /\ slack = <<>>

lineNumber == Len(lines) + 1     \* the line that is read

-----------------------------------------------------------------------------
(* extractCodeChanges *)

\* A fence toggles the block; an opening one is written only when it names a
\* language, a closing one always.
CodeFence(k) ==
    /\ k \in Fence
    /\ inCodeBlock' = ~inCodeBlock
    /\ codeBlockLines' = IF inCodeBlock THEN codeBlockLines ELSE 0
    /\ shown' = IF inCodeBlock \/ k = "langFence" THEN Append(shown, lineNumber) ELSE shown
    /\ UNCHANGED <<inDiff, diffCount>>

\* A line in a block: the limit counts the lines of this block only.
CodeInBlock(k) ==
    /\ k \notin Fence /\ inCodeBlock
    /\ IF codeBlockLines < MaxCode
         THEN /\ shown' = Append(shown, lineNumber)
              /\ codeBlockLines' = codeBlockLines + 1
              /\ diffCount' = diffCount + 1
         ELSE UNCHANGED <<shown, codeBlockLines, diffCount>>
    /\ UNCHANGED <<inDiff, inCodeBlock>>

CodeHeader(k) ==
    /\ k \in {"header", "hunk"} /\ ~inCodeBlock
    /\ inDiff' = TRUE
    /\ UNCHANGED <<inCodeBlock, codeBlockLines, diffCount, shown>>

\* An added or deleted line of a diff.
CodeChange(k) ==
    /\ k \in Change /\ ~inCodeBlock /\ inDiff
    /\ IF diffCount < MaxCode
         THEN shown' = Append(shown, lineNumber) /\ diffCount' = diffCount + 1
         ELSE UNCHANGED <<shown, diffCount>>
    /\ UNCHANGED <<inDiff, inCodeBlock, codeBlockLines>>

\* Variant: nothing ends a diff.
EndsDiffNever(k) == FALSE

\* What is none of a diff's lines ends it.
EndsDiff(k) == k \notin Change \cup {"blank", "index", "header", "hunk"}

\* Any other line: an empty one of a diff may be written as a separator.
CodeOther(k) ==
    /\ k \notin Fence \cup {"header", "hunk"} /\ ~inCodeBlock
    /\ ~(k \in Change /\ inDiff)
    /\ shown' = IF inDiff /\ k = "blank" /\ diffCount > 0 /\ diffCount < MaxCode
                  THEN Append(shown, 0) ELSE shown
    /\ inDiff' = (inDiff /\ ~EndsDiff(k))
    /\ UNCHANGED <<inCodeBlock, codeBlockLines, diffCount>>

ScanCode(k) ==
    CodeFence(k) \/ CodeInBlock(k) \/ CodeHeader(k) \/ CodeChange(k) \/ CodeOther(k)

\* Variant: the limit must be exceeded.
CodeMarkerLate == diffCount > MaxCode

\* "... there are more changes": after the loop.
CodeMarker == diffCount >= MaxCode

\* The section is left out when only white space was written.
HasCode == CodeMarker \/ \E i \in Range(shown) \ {0} : lines[i] # "blank"

-----------------------------------------------------------------------------
(* extractChangeSummary: it does not look at fences, and its diff never ends. *)

SummaryHeader(k) ==
    /\ k = "header"
    /\ sumInDiff' = TRUE
    /\ UNCHANGED <<sumCount, summary>>

SummaryChange(k) ==
    /\ k \in Change /\ sumInDiff /\ sumCount < MaxSummary
    /\ summary' = Append(summary, lineNumber)
    /\ sumCount' = sumCount + 1
    /\ UNCHANGED sumInDiff

\* A "Summary:" or "Changes:" line is copied and does not count.
SummaryTitle(k) ==
    /\ k = "summary"
    /\ summary' = Append(summary, lineNumber)
    /\ UNCHANGED <<sumInDiff, sumCount>>

SummaryOther(k) ==
    /\ k \notin {"header", "summary"}
    /\ k \in Change => ~sumInDiff \/ sumCount >= MaxSummary
    /\ UNCHANGED <<sumInDiff, sumCount, summary>>

ScanSummary(k) == SummaryHeader(k) \/ SummaryChange(k) \/ SummaryTitle(k) \/ SummaryOther(k)

\* Variant: the limit must be exceeded.
SummaryMarkerLate == sumCount > MaxSummary

SummaryMarker == sumCount >= MaxSummary

-----------------------------------------------------------------------------
(* convertMarkdownToSlack *)

\* inCodeBlock = !inCodeBlock
Toggled(k) == ~slackBlock

\* Titles and list items get Slack's form, any other line its bold text and
\* links.
Converted(k) ==
    CASE k = "heading" -> "title" [] k = "item" -> "bullet" [] OTHER -> "inline"

SlackFence(k) ==
    /\ k \in Fence
    /\ slackBlock' = Toggled(k)
    /\ slack' = Append(slack, "verbatim")

\* Variant: titles are looked for before blocks.
SlackLineTitleFirst(k) ==
    /\ k \notin Fence
    /\ slack' = Append(slack, IF slackBlock /\ k # "heading" THEN "verbatim" ELSE Converted(k))
    /\ UNCHANGED slackBlock

SlackLine(k) ==
    /\ k \notin Fence
    /\ slack' = Append(slack, IF slackBlock THEN "verbatim" ELSE Converted(k))
    /\ UNCHANGED slackBlock

ScanSlack(k) == SlackFence(k) \/ SlackLine(k)

\* A block left open is closed after the loop.
ClosingFences == IF slackBlock THEN 1 ELSE 0

-----------------------------------------------------------------------------

\* One line of the output.
Line(k) ==
    /\ Len(lines) < MaxLines
    /\ lines' = Append(lines, k)
    /\ ScanCode(k) /\ ScanSummary(k) /\ ScanSlack(k)

TextNext == \E k \in Kind : Line(k)

TextSpec == TextInit /\ [][TextNext]_textVars

-----------------------------------------------------------------------------
(* Reference definitions: the same questions put to the whole output. *)

Fences == {i \in DOMAIN lines : lines[i] \in Fence}
InBlock(i) == i \notin Fences /\ Cardinality({j \in Fences : j < i}) % 2 = 1

\* Line i belongs to a diff: a header before it, outside of blocks, and only
\* lines of a diff and blocks between them.
InDiff(i) ==
    \E h \in 1 .. i - 1 :
        /\ lines[h] \in {"header", "hunk"} /\ ~InBlock(h)
        /\ \A j \in h + 1 .. i - 1 :
             \/ InBlock(j)
             \/ lines[j] \in Fence \cup Change \cup {"blank", "index", "header", "hunk"}

\* What extractCodeChanges is to find.
CodeLines ==
    {i \in DOMAIN lines : InBlock(i) \/ (lines[i] \in Change /\ InDiff(i))}

\* What extractChangeSummary is to find.
SummaryLines ==
    {i \in DOMAIN lines : lines[i] \in Change /\ \E h \in 1 .. i - 1 : lines[h] = "header"}

-----------------------------------------------------------------------------
(* Properties. *)

\* The section "changed code" shows lines of blocks and diffs and their
\* fences, in the order of the output and none of them twice: the flags of
\* blocks and diffs never run on into the prose that follows
\* (task_executor.go:439-535).
OnlyCodeIsShown ==
    /\ Range(shown) \ {0} \subseteq CodeLines \cup Fences
    /\ \A i, j \in DOMAIN shown : i < j /\ shown[j] # 0 => shown[i] < shown[j]

\* A line of code that its limits left out is announced: two counters, one of
\* them reset at every block, decide over one marker (task_executor.go:538).
\* The section is left out (line 544) only if there is no code but empty lines.
NothingCutSilently ==
    /\ CodeLines \subseteq Range(shown) \/ CodeMarker
    /\ HasCode \/ \A i \in CodeLines : lines[i] = "blank"

\* The summary holds every change after a header, or says that there are more
\* (task_executor.go:552-590); a line in it that is no such change is one the
\* code takes for a summary wherever it stands.
SummaryTellsAll ==
    /\ SummaryLines \subseteq Range(summary) \/ SummaryMarker
    /\ Range(summary) \subseteq SummaryLines \cup {i \in DOMAIN lines : lines[i] = "summary"}

\* Slack's forms are given to no line within a fenced block, whatever it looks
\* like and however many blocks came before, and every block of the converted
\* output is closed, also one whose end the agent did not write
\* (task_executor.go:615-627, 685). The changes of a diff that is not fenced
\* are code to extractCodeChanges, but prose here: lines 633-671 rewrite them.
FencedCodeIsVerbatim ==
    /\ \A i \in DOMAIN lines :
         slack[i] = IF InBlock(i) \/ i \in Fences THEN "verbatim" ELSE Converted(lines[i])
    /\ (Cardinality(Fences) + ClosingFences) % 2 = 0

-----------------------------------------------------------------------------
(* What the comments say, and the code does not do. *)

\* task_executor.go:479-481: the changes of a diff are shown, and a line that
\* begins with a blank is context.
ChangesAreKept ==
    \A i \in DOMAIN lines :
        /\ ~CodeMarker /\ lines[i] \in Change /\ Fences = {}
        /\ \E h \in 1 .. i - 1 :
             lines[h] = "hunk" /\ \A j \in h + 1 .. i - 1 : lines[j] \in Change \cup {"context"}
        => i \in Range(shown)
=============================================================================
