---------------------------- MODULE SplitMessage ----------------------------
(***************************************************************************)
(* splitMessage, one iteration of its loop per step. A message is its     *)
(* length and the positions of its line breaks; a page is the piece of the *)
(* message it holds and what is added to it.                               *)
(***************************************************************************)
EXTENDS Integers, Sequences, FiniteSetsExt

CONSTANTS
    Size,         \* maxSlackMessageSize, 40000
    Window,       \* how far back a line break is looked for, 1000
    maxMessages,  \* pages at most, 5
    MaxLength     \* bound: length of a message

ASSUME SizeAssumption ==
    /\ Size \in Nat \ {0} /\ Window \in 2 .. Size
    /\ maxMessages \in Nat \ {0}
    /\ MaxLength \in Nat

VARIABLES
    length, newlines,          \* the message
    offset,                    \* remaining = message[offset:]
    messages,                  \* the pages
    pc                         \* "split", "warn", "number" or "done"

message == <<length, newlines>>
vars == <<message, offset, messages, pc>>

Init ==
    /\ length \in 0 .. MaxLength
    /\ newlines \in SUBSET (0 .. length - 1)
    /\ offset = 0 /\ messages = <<>> /\ pc = "split"

Remaining == length - offset

\* A page before anything is added to it.
Piece(from, to) == [from |-> from, to |-> to, omitted |-> 0, numbered |-> FALSE]

-----------------------------------------------------------------------------

\* Variant: any line break will do.
ChunkAnyNewline ==
    LET breaks == {p \in newlines : offset <= p /\ p < offset + Size}
    IN  IF breaks # {} THEN Max(breaks) - offset + 1 ELSE Size

\* chunkSize: up to the last line break of the chunk, unless there is none
\* in its last part.
ChunkSize ==
    LET breaks == {p \in newlines : offset <= p /\ p < offset + Size}
        lastNewline == IF breaks = {} THEN -1 ELSE Max(breaks) - offset
    IN  IF lastNewline > Size - Window THEN lastNewline + 1 ELSE Size

\* A message that fits is sent as it is.
Whole ==
    /\ pc = "split" /\ messages = <<>> /\ length <= Size
    /\ messages' = <<Piece(0, length)>>
    /\ pc' = "done"
    /\ UNCHANGED <<message, offset>>

InLoop == pc = "split" /\ length > Size /\ Remaining > 0 /\ Len(messages) < maxMessages

\* The rest fits on a page: break, which leaves `remaining` as it is.
LastPage ==
    /\ InLoop /\ Remaining <= Size
    /\ messages' = Append(messages, Piece(offset, length))
    /\ pc' = "warn"
    /\ UNCHANGED <<message, offset>>

\* Variant: the line break at the cut is skipped.
CutAndSkip ==
    /\ InLoop /\ Remaining > Size
    /\ messages' = Append(messages, Piece(offset, offset + ChunkSize))
    /\ offset' = offset + ChunkSize + 1
    /\ UNCHANGED <<message, pc>>

\* A page is cut off and the loop goes on.
Cut ==
    /\ InLoop /\ Remaining > Size
    /\ messages' = Append(messages, Piece(offset, offset + ChunkSize))
    /\ offset' = offset + ChunkSize
    /\ UNCHANGED <<message, pc>>

LoopEnds ==
    /\ pc = "split" /\ length > Size
    /\ Remaining = 0 \/ Len(messages) >= maxMessages
    /\ pc' = "warn"
    /\ UNCHANGED <<message, offset, messages>>

\* Variant: a full set of pages is taken for the whole message.
WarnUnlessFull ==
    /\ pc = "warn"
    /\ messages' = IF Remaining > 0 /\ Len(messages) < maxMessages
                     THEN [messages EXCEPT ![Len(messages)].omitted = Remaining]
                     ELSE messages
    /\ pc' = "number"
    /\ UNCHANGED <<message, offset>>

\* "... %d characters were left out", on the last page.
Warn ==
    /\ pc = "warn"
    /\ messages' = IF Remaining > 0
                     THEN [messages EXCEPT ![Len(messages)].omitted = Remaining]
                     ELSE messages
    /\ pc' = "number"
    /\ UNCHANGED <<message, offset>>

\* "page %d/%d" on each page of several.
Number ==
    /\ pc = "number"
    /\ messages' = IF Len(messages) > 1
                     THEN [i \in DOMAIN messages |-> [messages[i] EXCEPT !.numbered = TRUE]]
                     ELSE messages
    /\ pc' = "done"
    /\ UNCHANGED <<message, offset>>

Next == Whole \/ LastPage \/ Cut \/ LoopEnds \/ Warn \/ Number

Spec == Init /\ [][Next]_vars

-----------------------------------------------------------------------------
(* Properties. *)

Last == messages[Len(messages)]

\* The pages follow each other without a gap or an overlap from the first
\* character on, and none of them is empty (but that of an empty message).
PagesAreContiguous ==
    \A i \in 1 .. Len(messages) :
        /\ messages[i].from = IF i = 1 THEN 0 ELSE messages[i - 1].to
        /\ messages[i].from < messages[i].to \/ length = 0
        /\ messages[i].to <= length

\* A message is cut off only when it is longer than a full page behind nearly
\* full ones, since looking for a line break costs little room (line 764), and
\* what is cut off is announced to the character.
NothingDroppedSilently ==
    pc = "done" /\ Last.to < length =>
        /\ length > (maxMessages - 1) * (Size - Window + 2) + Size
        /\ Last.omitted = length - Last.to

-----------------------------------------------------------------------------
(* What the comments say, and the code does not do. *)

\* task_executor.go:773: the warning appears when something was cut off.
WarningIsTrue == pc = "done" => Last.omitted = length - Last.to
=============================================================================
