--------------------------- MODULE MessageProofs ---------------------------
(***************************************************************************)
(* Proofs about what is sent to Slack. SplitMessage: for messages of any   *)
(* length with any line breaks, and any size and number of pages.          *)
(* ResultText: for outputs of any lines, however many, and any limits.     *)
(***************************************************************************)
EXTENDS SplitMessage, ResultText, SequenceTheorems, FiniteSetTheorems,
        WellFoundedInduction, TLAPS

-----------------------------------------------------------------------------
(* The cut. *)

\* A set of integers with a lower and an upper bound has a largest element.
LEMMA MaxOfInterval ==
    ASSUME NEW lo \in Int, NEW hi \in Int, NEW S \in SUBSET (lo .. hi), S # {}
    PROVE  Max(S) \in S
  <1> DEFINE T == {hi - x : x \in S}
             less == OpToRel(<, Nat)
  <1>1. T \subseteq Nat /\ T # {}
    <2>1. \A x \in S : hi - x \in Nat
      OBVIOUS
    <2>2. PICK x \in S : TRUE
      OBVIOUS
    <2>3. hi - x \in T
      BY <2>2
    <2> QED BY <2>1, <2>3
  <1>2. IsWellFoundedOn(less, Nat)
    BY NatLessThanWellFounded
  <1>3. \A a, b \in Nat : a < b => <<a, b>> \in less
    BY DEF OpToRel
  <1> HIDE DEF T, less
  <1>4. PICK m \in T : \A y \in T : <<y, m>> \notin less
    BY <1>1, <1>2, WFMin
  <1>5. \A y \in T : m <= y
    <2> SUFFICES ASSUME NEW y \in T PROVE m <= y
      OBVIOUS
    <2>1. m \in Nat /\ y \in Nat
      BY <1>1, <1>4
    <2>2. ~(y < m)
      BY <1>3, <1>4, <2>1
    <2> QED BY <2>1, <2>2
  <1>6. PICK x \in S : m = hi - x
    BY <1>4 DEF T
  <1>7. \A y \in S : x >= y
    <2> SUFFICES ASSUME NEW y \in S PROVE x >= y
      OBVIOUS
    <2>1. m <= hi - y
      BY <1>5 DEF T
    <2> QED BY <1>6, <2>1
  <1> QED BY <1>7 DEF Max

\* A page is neither empty nor larger than Size, and not much smaller.
LEMMA ChunkSizes ==
    ASSUME length \in Nat, newlines \in SUBSET (0 .. length - 1), offset \in Nat
    PROVE  ChunkSize \in Size - Window + 2 .. Size
  <1> DEFINE breaks == {p \in newlines : offset <= p /\ p < offset + Size}
             lastNewline == IF breaks = {} THEN -1 ELSE Max(breaks) - offset
  <1>1. Size \in Nat \ {0} /\ Window \in 2 .. Size
    BY SizeAssumption
  <1>2. breaks \in SUBSET (offset .. offset + Size - 1)
    <2> SUFFICES ASSUME NEW p \in breaks PROVE p \in offset .. offset + Size - 1
      OBVIOUS
    <2>1. p \in Int /\ offset <= p /\ p < offset + Size
      OBVIOUS
    <2> QED BY <1>1, <2>1
  <1>3. lastNewline \in -1 .. Size - 1
    <2>1. CASE breaks = {}
      BY <1>1, <2>1
    <2>2. CASE breaks # {}
      <3>1. Max(breaks) \in breaks
        <4> HIDE DEF breaks
        <4>1. offset + Size - 1 \in Int /\ offset \in Int
          BY <1>1
        <4> QED BY <1>2, <2>2, <4>1, MaxOfInterval
      <3> QED BY <1>1, <1>2, <2>2, <3>1
    <2> QED BY <2>1, <2>2
  <1>4. ChunkSize = IF lastNewline > Size - Window THEN lastNewline + 1 ELSE Size
    BY DEF ChunkSize
  <1> HIDE DEF lastNewline
  <1> QED BY <1>1, <1>3, <1>4

-----------------------------------------------------------------------------
(* The inductive invariant, part by part. *)

PageType == [from : Nat, to : Nat, omitted : Nat, numbered : BOOLEAN]

\* The least a page takes that is cut off.
Least == Size - Window + 2

Typing ==
    /\ length \in Nat /\ newlines \in SUBSET (0 .. length - 1)
    /\ offset \in 0 .. length
    /\ messages \in Seq(PageType)
    /\ pc \in {"split", "warn", "number", "done"}

\* The loop stands where the last page ends; before it there is nothing.
OffsetInv ==
    /\ Len(messages) <= maxMessages
    /\ pc = "split" => offset = IF messages = <<>> THEN 0 ELSE Last.to
    /\ pc # "split" => messages # <<>>

\* The pages before any page were nearly full, and behind a page that was cut
\* off more than a full one was left.
RoomInv ==
    /\ \A i \in 1 .. Len(messages) : messages[i].from >= (i - 1) * Least
    /\ pc = "split" => offset >= Len(messages) * Least
    /\ messages # <<>> /\ Last.to < length =>
         /\ offset = Last.to /\ length - Last.from > Size
         /\ pc # "split" => Len(messages) = maxMessages
         /\ pc \in {"number", "done"} => Last.omitted = length - Last.to

IInv == Typing /\ OffsetInv /\ RoomInv /\ PagesAreContiguous

-----------------------------------------------------------------------------

\* No page yet.
LEMMA Initially == Init => IInv
  <1> SUFFICES ASSUME Init PROVE IInv
    OBVIOUS
  <1>1. <<>> \in Seq(PageType) /\ Len(<<>>) = 0
    BY EmptySeq
  <1>2. length \in Nat /\ maxMessages \in Nat \ {0} /\ Least \in Nat
    BY SizeAssumption DEF Init, Least
  <1>3. Typing /\ OffsetInv /\ PagesAreContiguous
    BY <1>1, <1>2 DEF Init, Typing, OffsetInv, PagesAreContiguous
  <1>4. RoomInv
    BY <1>1, <1>2 DEF Init, RoomInv
  <1> QED BY <1>3, <1>4 DEF IInv

\* A page added to the others.
LEMMA AddPage ==
    ASSUME NEW s \in Seq(PageType), NEW from \in Nat, NEW to \in Nat
    PROVE  LET new == Append(s, Piece(from, to))
           IN  /\ new \in Seq(PageType) /\ new # <<>>
               /\ Len(s) \in Nat /\ Len(new) = Len(s) + 1
               /\ \A i \in 1 .. Len(s) : new[i] = s[i]
               /\ new[Len(s) + 1].from = from /\ new[Len(s) + 1].to = to
  <1>1. Piece(from, to) \in PageType /\ Piece(from, to).from = from /\ Piece(from, to).to = to
    BY DEF Piece, PageType
  <1> QED BY <1>1, AppendProperties, LenProperties

\* The steps that cut a page off or take the rest.
LEMMA LoopStep ==
    ASSUME IInv, NEW to \in offset + 1 .. length, InLoop,
           messages' = Append(messages, Piece(offset, to)),
           UNCHANGED message
    PROVE  /\ messages' \in Seq(PageType) /\ messages' # <<>>
           /\ Len(messages') = Len(messages) + 1 /\ Len(messages') <= maxMessages
           /\ messages'[Len(messages')].from = offset /\ messages'[Len(messages')].to = to
           /\ PagesAreContiguous'
           /\ \A i \in 1 .. Len(messages') : messages'[i].from >= (i - 1) * Least
  <1>0. /\ length \in Nat /\ offset \in Nat /\ to \in Nat /\ to > offset /\ to <= length
        /\ messages \in Seq(PageType) /\ Len(messages) \in Nat
        /\ maxMessages \in Nat /\ Len(messages) < maxMessages /\ pc = "split"
    BY SizeAssumption, LenProperties DEF IInv, Typing, InLoop
  <1>1. /\ messages' \in Seq(PageType) /\ messages' # <<>>
        /\ Len(messages') = Len(messages) + 1
        /\ \A i \in 1 .. Len(messages) : messages'[i] = messages[i]
        /\ messages'[Len(messages) + 1].from = offset /\ messages'[Len(messages) + 1].to = to
    BY <1>0, AddPage
  <1>2. PagesAreContiguous'
    <2> SUFFICES ASSUME NEW i \in 1 .. Len(messages')
                 PROVE  /\ messages'[i].from = IF i = 1 THEN 0 ELSE messages'[i - 1].to
                        /\ messages'[i].from < messages'[i].to
                        /\ messages'[i].to <= length
      BY DEF PagesAreContiguous, message
    <2>1. CASE i \in 1 .. Len(messages)
      <3>1. messages'[i] = messages[i] /\ (i # 1 => messages'[i - 1] = messages[i - 1])
        BY <1>0, <1>1, <2>1
      <3>2. /\ messages[i].from = IF i = 1 THEN 0 ELSE messages[i - 1].to
            /\ messages[i].from < messages[i].to \/ length = 0
            /\ messages[i].to <= length
        BY <2>1 DEF IInv, PagesAreContiguous
      <3> QED BY <1>0, <3>1, <3>2
    <2>2. CASE i = Len(messages) + 1
      <3>1. CASE messages = <<>>
        <4>1. Len(messages) = 0 /\ offset = 0
          BY <1>0, <3>1, EmptySeq DEF IInv, OffsetInv
        <4> QED BY <1>0, <1>1, <2>2, <4>1
      <3>2. CASE messages # <<>>
        <4>1. Len(messages) # 0 /\ offset = messages[Len(messages)].to
          BY <1>0, <3>2, EmptySeq DEF IInv, OffsetInv, Last
        <4>2. i # 1 /\ i - 1 \in 1 .. Len(messages) /\ i - 1 = Len(messages)
          BY <1>0, <2>2, <4>1
        <4>3. messages'[i - 1] = messages[Len(messages)]
          BY <1>1, <4>2
        <4> QED BY <1>0, <1>1, <2>2, <4>1, <4>2, <4>3
      <3> QED BY <3>1, <3>2
    <2> QED BY <1>0, <1>1, <2>1, <2>2
  <1>3. ASSUME NEW i \in 1 .. Len(messages')
        PROVE  messages'[i].from >= (i - 1) * Least
    <2>1. CASE i \in 1 .. Len(messages)
      BY <1>1, <2>1 DEF IInv, RoomInv
    <2>2. CASE i = Len(messages) + 1
      <3>1. offset >= Len(messages) * Least /\ i - 1 = Len(messages)
        BY <1>0, <2>2 DEF IInv, RoomInv
      <3> QED BY <1>1, <2>2, <3>1
    <2> QED BY <1>0, <1>1, <2>1, <2>2
  <1>4. messages'[Len(messages')].from = offset /\ messages'[Len(messages')].to = to
    BY <1>1
  <1>5. Len(messages') <= maxMessages
    BY <1>0, <1>1
  <1> QED BY <1>1, <1>2, <1>3, <1>4, <1>5

\* The steps that only add to pages keep where they are cut.
LEMMA MarkStep ==
    ASSUME IInv, UNCHANGED <<message, offset>>,
           messages' \in Seq(PageType), Len(messages') = Len(messages),
           \A i \in 1 .. Len(messages) :
               messages'[i].from = messages[i].from /\ messages'[i].to = messages[i].to
    PROVE  /\ PagesAreContiguous'
           /\ messages # <<>> => messages' # <<>>
           /\ messages # <<>> => Last'.from = Last.from /\ Last'.to = Last.to
           /\ \A i \in 1 .. Len(messages') : messages'[i].from >= (i - 1) * Least
  <1>0. messages \in Seq(PageType) /\ Len(messages) \in Nat
    BY LenProperties DEF IInv, Typing
  <1>1. PagesAreContiguous'
    <2> SUFFICES ASSUME NEW i \in 1 .. Len(messages')
                 PROVE  /\ messages'[i].from = IF i = 1 THEN 0 ELSE messages'[i - 1].to
                        /\ messages'[i].from < messages'[i].to \/ length = 0
                        /\ messages'[i].to <= length
      BY DEF PagesAreContiguous, message
    <2>1. i \in 1 .. Len(messages) /\ (i # 1 => i - 1 \in 1 .. Len(messages))
      BY <1>0
    <2> QED BY <2>1 DEF IInv, PagesAreContiguous
  <1>2. messages # <<>> => Len(messages) \in 1 .. Len(messages)
    BY <1>0, EmptySeq
  <1>3. messages # <<>> => messages' # <<>>
    BY <1>0, <1>2, EmptySeq
  <1>4. messages # <<>> => Last'.from = Last.from /\ Last'.to = Last.to
    BY <1>2 DEF Last
  <1> QED BY <1>1, <1>3, <1>4 DEF IInv, RoomInv

\* Every step of the split.
LEMMA Inductive == IInv /\ [Next]_vars => IInv'
  <1> SUFFICES ASSUME IInv, [Next]_vars PROVE IInv'
    OBVIOUS
  <1>0. /\ length \in Nat /\ newlines \in SUBSET (0 .. length - 1)
        /\ offset \in Nat /\ offset <= length
        /\ messages \in Seq(PageType) /\ Len(messages) \in Nat
        /\ Size \in Nat \ {0} /\ maxMessages \in Nat \ {0} /\ Least \in Nat \ {0}
        /\ Least <= Size
    BY SizeAssumption, LenProperties DEF IInv, Typing, Least
  <1>1. CASE Whole
    <2>1. /\ messages = <<>> /\ messages' = <<Piece(0, length)>> /\ pc' = "done"
          /\ UNCHANGED <<message, offset>>
      BY <1>1 DEF Whole
    <2>2. Piece(0, length) \in PageType /\ Piece(0, length).from = 0 /\ Piece(0, length).to = length
      BY <1>0 DEF Piece, PageType
    <2>3. /\ messages' \in Seq(PageType) /\ Len(messages') = 1 /\ messages'[1] = Piece(0, length)
          /\ messages' # <<>>
      BY <2>1, <2>2
    <2>4. UNCHANGED <<length, newlines, offset>>
      BY <2>1 DEF message
    <2>5. Typing' /\ OffsetInv'
      BY <1>0, <2>1, <2>3, <2>4 DEF Typing, OffsetInv, IInv
    <2>6. PagesAreContiguous'
      BY <1>0, <2>2, <2>3, <2>4 DEF PagesAreContiguous
    <2>7. Last'.to = length' /\ (1 - 1) * Least = 0
      BY <1>0, <2>2, <2>3, <2>4 DEF Last
    <2>8. \A i \in 1 .. Len(messages') : messages'[i].from >= (i - 1) * Least
      <3>1. \A i \in 1 .. Len(messages') : i = 1
        BY <2>3
      <3> QED BY <1>0, <2>2, <2>3, <2>7, <3>1
    <2>9. RoomInv'
      <3>1. ~(Last'.to < length')
        BY <1>0, <2>4, <2>7
      <3>2. Least' = Least
        BY DEF Least
      <3> QED BY <2>1, <2>8, <3>1, <3>2 DEF RoomInv
    <2> QED BY <2>5, <2>6, <2>9 DEF IInv
  <1>2. CASE LastPage
    <2>1. /\ InLoop /\ messages' = Append(messages, Piece(offset, length)) /\ pc' = "warn"
          /\ UNCHANGED <<message, offset>>
      BY <1>2 DEF LastPage
    <2>2. length \in offset + 1 .. length /\ UNCHANGED <<length, newlines, offset>>
      BY <1>0, <2>1 DEF InLoop, Remaining, message
    <2>3. /\ messages' \in Seq(PageType) /\ messages' # <<>> /\ Len(messages') <= maxMessages
          /\ messages'[Len(messages')].to = length /\ PagesAreContiguous'
          /\ \A i \in 1 .. Len(messages') : messages'[i].from >= (i - 1) * Least
      BY <2>1, <2>2, LoopStep
    <2>4. Typing' /\ OffsetInv'
      BY <1>0, <2>1, <2>2, <2>3 DEF Typing, OffsetInv
    <2>5. Last'.to = length'
      BY <2>2, <2>3 DEF Last
    <2>6. RoomInv'
      <3>1. ~(Last'.to < length')
        BY <1>0, <2>2, <2>5
      <3>2. Least' = Least
        BY DEF Least
      <3> QED BY <2>1, <2>3, <3>1, <3>2 DEF RoomInv
    <2> QED BY <2>3, <2>4, <2>6 DEF IInv
  <1>3. CASE Cut
    <2>1. /\ InLoop /\ Remaining > Size
          /\ messages' = Append(messages, Piece(offset, offset + ChunkSize))
          /\ offset' = offset + ChunkSize /\ pc' = "split" /\ UNCHANGED <<message>>
      BY <1>3 DEF Cut, InLoop
    <2>2. ChunkSize \in Least .. Size
      BY <1>0, ChunkSizes DEF Least
    <2> HIDE DEF ChunkSize
    <2>3. /\ offset + ChunkSize \in offset + 1 .. length /\ UNCHANGED <<length, newlines>>
          /\ length - offset > Size
      BY <1>0, <2>1, <2>2 DEF Remaining, message
    <2>4. /\ messages' \in Seq(PageType) /\ messages' # <<>>
          /\ Len(messages') = Len(messages) + 1 /\ Len(messages') <= maxMessages
          /\ messages'[Len(messages')].from = offset
          /\ messages'[Len(messages')].to = offset + ChunkSize
          /\ PagesAreContiguous'
          /\ \A i \in 1 .. Len(messages') : messages'[i].from >= (i - 1) * Least
      BY <2>1, <2>3, LoopStep
    <2>5. Last'.from = offset /\ Last'.to = offset'
      BY <2>1, <2>4 DEF Last
    <2>6. Typing' /\ OffsetInv'
      BY <1>0, <2>1, <2>3, <2>4, <2>5 DEF Typing, OffsetInv
    <2>7. offset' >= Len(messages') * Least
      <3>1. offset >= Len(messages) * Least
        BY <2>1 DEF IInv, RoomInv, InLoop
      <3>2. (Len(messages) + 1) * Least = Len(messages) * Least + Least
        BY <1>0
      <3>3. Len(messages) * Least \in Nat
        BY <1>0
      <3> QED BY <1>0, <2>1, <2>2, <2>4, <3>1, <3>2, <3>3
    <2>8. RoomInv'
      <3>1. Least' = Least
        BY DEF Least
      <3> QED BY <2>1, <2>3, <2>4, <2>5, <2>7, <3>1 DEF RoomInv
    <2> QED BY <2>4, <2>6, <2>8 DEF IInv
  <1>4. CASE LoopEnds
    <2>1. /\ pc = "split" /\ length > Size /\ pc' = "warn"
          /\ UNCHANGED <<length, newlines, offset, messages>>
          /\ Remaining = 0 \/ Len(messages) >= maxMessages
      BY <1>4 DEF LoopEnds, message
    <2>2. messages # <<>>
      <3> SUFFICES ASSUME messages = <<>> PROVE FALSE
        OBVIOUS
      <3>1. offset = 0 /\ Len(messages) = 0
        BY <2>1, EmptySeq DEF IInv, OffsetInv
      <3> QED BY <1>0, <2>1, <3>1 DEF Remaining
    <2>3. Last' = Last /\ Least' = Least /\ (PagesAreContiguous' <=> PagesAreContiguous)
      BY <2>1 DEF Last, Least, PagesAreContiguous
    <2>4. Typing' /\ OffsetInv' /\ offset = Last.to
      BY <2>1, <2>2, <2>3 DEF IInv, Typing, OffsetInv
    <2>5. Last.to < length => Len(messages) = maxMessages
      BY <1>0, <2>1, <2>4 DEF Remaining, IInv, OffsetInv
    <2>6. RoomInv'
      BY <2>1, <2>2, <2>3, <2>5 DEF IInv, RoomInv
    <2> QED BY <2>3, <2>4, <2>6 DEF IInv
  <1>5. CASE Warn
    <2>1. /\ pc = "warn" /\ pc' = "number" /\ UNCHANGED <<message, length, newlines, offset>>
          /\ messages # <<>>
      BY <1>5 DEF Warn, message, IInv, OffsetInv
    <2>2. Len(messages) \in 1 .. Len(messages) /\ Last \in PageType
      BY <1>0, <2>1, EmptySeq, ElementOfSeq DEF Last
    <2> DEFINE warned == [Last EXCEPT !.omitted = Remaining]
    <2>3. messages' = messages \/ messages' = [messages EXCEPT ![Len(messages)] = warned]
      BY <1>5 DEF Warn, Last
    <2>4. warned \in PageType /\ warned.from = Last.from /\ warned.to = Last.to
          /\ warned.omitted = Remaining
      <3>1. Remaining \in Nat
        BY <1>0 DEF Remaining
      <3> HIDE DEF Remaining
      <3> QED BY <2>2, <3>1 DEF PageType
    <2> HIDE DEF warned
    <2>5. /\ messages' \in Seq(PageType) /\ Len(messages') = Len(messages)
          /\ \A i \in 1 .. Len(messages) :
               messages'[i].from = messages[i].from /\ messages'[i].to = messages[i].to
      BY <1>0, <2>2, <2>3, <2>4, ExceptSeq DEF Last
    <2>6. /\ PagesAreContiguous' /\ messages' # <<>>
          /\ Last'.from = Last.from /\ Last'.to = Last.to
          /\ \A i \in 1 .. Len(messages') : messages'[i].from >= (i - 1) * Least
      BY <2>1, <2>5, MarkStep
    <2>7. Last.to < length => Last'.omitted = length - Last'.to
      <3> SUFFICES ASSUME Last.to < length PROVE Last'.omitted = length - Last'.to
        OBVIOUS
      <3>1. offset = Last.to /\ Remaining > 0 /\ Remaining = length - Last.to
        BY <1>0, <2>1 DEF IInv, RoomInv, Remaining
      <3>2. messages' = [messages EXCEPT ![Len(messages)] = warned]
        BY <1>5, <3>1 DEF Warn, Last, warned
      <3>3. Last' = warned
        <4>1. messages'[Len(messages)] = warned
          BY <1>0, <2>2, <2>4, <3>2, ExceptSeq
        <4> QED BY <2>5, <4>1 DEF Last
      <3> QED BY <2>4, <3>1, <3>3
    <2>8. Typing' /\ OffsetInv'
      BY <2>1, <2>5, <2>6 DEF IInv, Typing, OffsetInv
    <2>9. RoomInv'
      <3>1. Least' = Least
        BY DEF Least
      <3> QED BY <2>1, <2>5, <2>6, <2>7, <3>1 DEF IInv, RoomInv
    <2> QED BY <2>6, <2>8, <2>9 DEF IInv
  <1>6. CASE Number
    <2>1. /\ pc = "number" /\ pc' = "done" /\ UNCHANGED <<message, length, newlines, offset>>
          /\ messages # <<>>
      BY <1>6 DEF Number, message, IInv, OffsetInv
    <2> DEFINE numbered(m) == [m EXCEPT !.numbered = TRUE]
    <2>2. \A m \in PageType : /\ numbered(m) \in PageType
                              /\ numbered(m).from = m.from /\ numbered(m).to = m.to
                              /\ numbered(m).omitted = m.omitted
      BY DEF PageType
    <2>3. DOMAIN messages = 1 .. Len(messages) /\ \A i \in 1 .. Len(messages) : messages[i] \in PageType
      BY <1>0, LenProperties, ElementOfSeq
    <2>4. messages' = messages \/ messages' = [i \in 1 .. Len(messages) |-> numbered(messages[i])]
      BY <1>6, <2>3 DEF Number
    <2> HIDE DEF numbered
    <2>5. /\ messages' \in Seq(PageType) /\ Len(messages') = Len(messages)
          /\ \A i \in 1 .. Len(messages) :
               /\ messages'[i].from = messages[i].from /\ messages'[i].to = messages[i].to
               /\ messages'[i].omitted = messages[i].omitted
      BY <1>0, <2>2, <2>3, <2>4, IsASeq
    <2>6. /\ PagesAreContiguous' /\ messages' # <<>>
          /\ Last'.from = Last.from /\ Last'.to = Last.to
          /\ \A i \in 1 .. Len(messages') : messages'[i].from >= (i - 1) * Least
      BY <2>1, <2>5, MarkStep
    <2>7. Last'.omitted = Last.omitted
      <3>1. Len(messages) \in 1 .. Len(messages)
        BY <1>0, <2>1, EmptySeq
      <3> QED BY <2>5, <3>1 DEF Last
    <2>8. Typing' /\ OffsetInv'
      BY <2>1, <2>5, <2>6 DEF IInv, Typing, OffsetInv
    <2>9. RoomInv'
      <3>1. Least' = Least
        BY DEF Least
      <3> QED BY <2>1, <2>5, <2>6, <2>7, <3>1 DEF IInv, RoomInv
    <2> QED BY <2>6, <2>8, <2>9 DEF IInv
  <1>7. CASE UNCHANGED vars
    BY <1>7 DEF vars, message, IInv, Typing, OffsetInv, RoomInv, PagesAreContiguous, Last
  <1> QED BY <1>1, <1>2, <1>3, <1>4, <1>5, <1>6, <1>7 DEF Next

-----------------------------------------------------------------------------

\* The invariant holds in every reachable state.
THEOREM Invariance == Spec => []IInv
  <1> QED BY Initially, Inductive, PTL DEF Spec

\* The pages of any message follow each other without gap or overlap.
THEOREM PagesFollow == Spec => []PagesAreContiguous
  <1>1. IInv => PagesAreContiguous
    BY DEF IInv
  <1> QED BY <1>1, Invariance, PTL

\* A message of any length is cut off only behind nearly full pages, and what
\* is cut off is announced to the character.
THEOREM CutsAreAnnounced == Spec => []NothingDroppedSilently
  <1>1. IInv => NothingDroppedSilently
    <2> SUFFICES ASSUME IInv, pc = "done", Last.to < length
                 PROVE  /\ length > (maxMessages - 1) * (Size - Window + 2) + Size
                        /\ Last.omitted = length - Last.to
      BY DEF NothingDroppedSilently
    <2>1. /\ messages # <<>> /\ messages \in Seq(PageType) /\ length \in Nat
          /\ Size \in Nat /\ Least \in Nat /\ maxMessages \in Nat \ {0}
      BY SizeAssumption DEF IInv, Typing, OffsetInv, Least
    <2>2. Len(messages) = maxMessages /\ length - Last.from > Size /\ Last.omitted = length - Last.to
      BY <2>1 DEF IInv, RoomInv
    <2>3. maxMessages \in 1 .. Len(messages)
      BY <2>1, <2>2
    <2>4. Last.from >= (maxMessages - 1) * Least /\ Last.from \in Nat
      <3>1. messages[maxMessages].from >= (maxMessages - 1) * Least
        BY <2>3 DEF IInv, RoomInv
      <3>2. Last = messages[maxMessages] /\ Last \in PageType
        BY <2>1, <2>2, <2>3, ElementOfSeq DEF Last
      <3> QED BY <3>1, <3>2 DEF PageType
    <2>5. (maxMessages - 1) * Least \in Int
      BY <2>1
    <2>6. length > (maxMessages - 1) * Least + Size
      BY <2>1, <2>2, <2>4, <2>5
    <2> QED BY <2>2, <2>6 DEF Least
  <1> QED BY <1>1, Invariance, PTL
-----------------------------------------------------------------------------
(* How the agent's output is read: the inductive invariant, part by part. *)

TextTyping ==
    /\ lines \in Seq(Kind)
    /\ inDiff \in BOOLEAN /\ inCodeBlock \in BOOLEAN
    /\ codeBlockLines \in Nat /\ diffCount \in Nat /\ shown \in Seq(Nat)
    /\ sumInDiff \in BOOLEAN /\ sumCount \in Nat /\ summary \in Seq(Nat)
    /\ slackBlock \in BOOLEAN /\ slack \in Seq({"verbatim", "title", "bullet", "inline"})

\* The flags of the loops are what the lines read so far make of the next one.
FlagsInv ==
    /\ inCodeBlock <=> Cardinality(Fences) % 2 = 1
    /\ slackBlock <=> inCodeBlock
    /\ inDiff <=> InDiff(lineNumber)
    /\ sumInDiff <=> \E h \in DOMAIN lines : lines[h] = "header"

\* The limit of a block is never reached before that of the whole output.
ShownInv ==
    /\ codeBlockLines <= diffCount
    /\ CodeLines \subseteq Range(shown) \/ CodeMarker
    /\ \A i \in DOMAIN shown : shown[i] < lineNumber
    /\ OnlyCodeIsShown

\* There are as many converted lines as lines.
SlackInv ==
    /\ Len(slack) = Len(lines)
    /\ \A i \in DOMAIN lines :
         slack[i] = IF InBlock(i) \/ i \in Fences THEN "verbatim" ELSE Converted(lines[i])

TextInv == TextTyping /\ FlagsInv /\ ShownInv /\ SummaryTellsAll /\ SlackInv

-----------------------------------------------------------------------------
(* What one more line does to the operators on the output. *)

\* The line that is read, by its number.
Grows(k, n) ==
    /\ lines \in Seq(Kind) /\ k \in Kind /\ n \in Nat /\ n = lineNumber
    /\ lines' = Append(lines, k)

\* The earlier lines stay.
LEMMA LinesGrow ==
    ASSUME NEW k, NEW n, Grows(k, n)
    PROVE  /\ lines' \in Seq(Kind) /\ Len(lines) \in Nat
           /\ n = Len(lines) + 1 /\ n = Len(lines') /\ n \in Nat \ {0} /\ lineNumber' = n + 1
           /\ DOMAIN lines = 1 .. n - 1 /\ DOMAIN lines' = 1 .. n
           /\ \A i \in 1 .. n - 1 : lines'[i] = lines[i] /\ lines[i] \in Kind
           /\ lines'[n] = k
  BY AppendProperties, LenProperties, ElementOfSeq DEF Grows, lineNumber

\* Two fences more or less leave a block as it is, one does not.
LEMMA Parity == ASSUME NEW c \in Nat PROVE (c + 1) % 2 = 1 <=> ~(c % 2 = 1)
  OBVIOUS

\* What lies behind a line does not put it in a block.
LEMMA FencesGrow ==
    ASSUME NEW k, NEW n, Grows(k, n)
    PROVE  /\ Fences \subseteq 1 .. n - 1 /\ IsFiniteSet(Fences) /\ Cardinality(Fences) \in Nat
           /\ Fences' = IF k \in Fence THEN Fences \cup {n} ELSE Fences
           /\ Cardinality(Fences') = IF k \in Fence THEN Cardinality(Fences) + 1
                                                    ELSE Cardinality(Fences)
           /\ \A i \in 1 .. n - 1 : InBlock(i)' <=> InBlock(i)
           /\ InBlock(n)' <=> k \notin Fence /\ Cardinality(Fences) % 2 = 1
  <1>1. /\ n \in Nat \ {0} /\ DOMAIN lines = 1 .. n - 1 /\ DOMAIN lines' = 1 .. n
        /\ \A i \in 1 .. n - 1 : lines'[i] = lines[i]
        /\ lines'[n] = k
    BY LinesGrow
  <1>2. Fences \subseteq 1 .. n - 1 /\ n \notin Fences
    BY <1>1 DEF Fences
  <1>3. IsFiniteSet(Fences) /\ Cardinality(Fences) \in Nat
    <2>1. IsFiniteSet(1 .. n - 1)
      BY <1>1, FS_Interval
    <2> QED BY <1>2, <2>1, FS_Subset, FS_CardinalityType
  <1>4. Fences' = IF k \in Fence THEN Fences \cup {n} ELSE Fences
    <2>1. \A i \in 1 .. n : i \in 1 .. n - 1 \/ i = n
      BY <1>1
    <2>2. Fences' = {i \in 1 .. n : lines'[i] \in Fence}
      BY <1>1 DEF Fences
    <2>3. Fences = {i \in 1 .. n - 1 : lines[i] \in Fence}
      BY <1>1 DEF Fences
    <2> QED BY <1>1, <2>1, <2>2, <2>3
  <1>5. Cardinality(Fences') = IF k \in Fence THEN Cardinality(Fences) + 1
                                              ELSE Cardinality(Fences)
    BY <1>2, <1>3, <1>4, FS_AddElement
  <1>6. \A i \in 1 .. n - 1 : InBlock(i)' <=> InBlock(i)
    <2> SUFFICES ASSUME NEW i \in 1 .. n - 1 PROVE InBlock(i)' <=> InBlock(i)
      OBVIOUS
    <2>1. {j \in Fences' : j < i} = {j \in Fences : j < i}
      BY <1>1, <1>4
    <2>2. i \in Fences' <=> i \in Fences
      BY <1>1, <1>4
    <2> QED BY <2>1, <2>2 DEF InBlock
  <1>7. InBlock(n)' <=> k \notin Fence /\ Cardinality(Fences) % 2 = 1
    <2>1. {j \in Fences' : j < n} = Fences
      <3>1. \A j \in Fences : j < n
        BY <1>1, <1>2
      <3>2. ~(n < n)
        BY <1>1
      <3> QED BY <1>4, <3>1, <3>2
    <2>2. n \in Fences' <=> k \in Fence
      BY <1>2, <1>4
    <2> QED BY <2>1, <2>2 DEF InBlock
  <1> QED BY <1>2, <1>3, <1>4, <1>5, <1>6, <1>7

DiffLine == Fence \cup Change \cup {"blank", "index", "header", "hunk"}

\* A diff goes on over the lines of a diff and over blocks.
LEMMA DiffGrows ==
    ASSUME NEW k, NEW n, Grows(k, n)
    PROVE  /\ \A i \in 1 .. n : InDiff(i)' <=> InDiff(i)
           /\ InDiff(n + 1)' <=> \/ k \in {"header", "hunk"} /\ ~InBlock(n)'
                                 \/ InDiff(n) /\ (InBlock(n)' \/ k \in DiffLine)
  <1>1. /\ n \in Nat \ {0}
        /\ \A i \in 1 .. n - 1 : lines'[i] = lines[i]
        /\ lines'[n] = k
    BY LinesGrow
  <1>2. \A i \in 1 .. n - 1 : InBlock(i)' <=> InBlock(i)
    BY FencesGrow
  <1> DEFINE begins(h) == lines[h] \in {"header", "hunk"} /\ ~InBlock(h)
             goesOn(j) == InBlock(j) \/ lines[j] \in DiffLine
  <1>3. \A i : /\ InDiff(i) <=> \E h \in 1 .. i - 1 : begins(h) /\ \A j \in h + 1 .. i - 1 : goesOn(j)
               /\ InDiff(i)' <=> \E h \in 1 .. i - 1 : begins(h)' /\ \A j \in h + 1 .. i - 1 : goesOn(j)'
    BY DEF InDiff, DiffLine
  <1>4. \A i \in 1 .. n - 1 : (begins(i)' <=> begins(i)) /\ (goesOn(i)' <=> goesOn(i))
    BY <1>1, <1>2
  <1>5. /\ begins(n)' <=> k \in {"header", "hunk"} /\ ~InBlock(n)'
        /\ goesOn(n)' <=> InBlock(n)' \/ k \in DiffLine
    BY <1>1
  <1> HIDE DEF begins, goesOn
  <1>6. \A i \in 1 .. n : InDiff(i)' <=> InDiff(i)
    BY <1>1, <1>3, <1>4
  <1>7. InDiff(n + 1)' <=> begins(n)' \/ (InDiff(n) /\ goesOn(n)')
    <2>1. \A j : j \in 1 .. n + 1 - 1 <=> j \in 1 .. n - 1 \/ j = n
      BY <1>1
    <2>2. \A h \in 1 .. n - 1 : \A j : j \in h + 1 .. n + 1 - 1 <=> j \in h + 1 .. n - 1 \/ j = n
      BY <1>1
    <2>3. \A j : j \notin n + 1 .. n + 1 - 1
      BY <1>1
    <2>4. \A h \in 1 .. n - 1 : \A j \in h + 1 .. n - 1 : j \in 1 .. n - 1
      BY <1>1
    <2> QED BY <1>3, <1>4, <2>1, <2>2, <2>3, <2>4
  <1> QED BY <1>5, <1>6, <1>7

\* The line that is read belongs to the code or does not; the others keep
\* what they are.
LEMMA CodeGrows ==
    ASSUME NEW k, NEW n, Grows(k, n)
    PROVE  CodeLines' = IF InBlock(n)' \/ (k \in Change /\ InDiff(n))
                          THEN CodeLines \cup {n} ELSE CodeLines
  <1>1. /\ n \in Nat \ {0} /\ DOMAIN lines = 1 .. n - 1 /\ DOMAIN lines' = 1 .. n
        /\ \A i \in 1 .. n - 1 : lines'[i] = lines[i]
        /\ lines'[n] = k
    BY LinesGrow
  <1>2. /\ \A i \in 1 .. n - 1 : InBlock(i)' <=> InBlock(i)
        /\ \A i \in 1 .. n : InDiff(i)' <=> InDiff(i)
    BY FencesGrow, DiffGrows
  <1> DEFINE code(i) == InBlock(i) \/ (lines[i] \in Change /\ InDiff(i))
  <1>3. \A i : /\ i \in CodeLines <=> i \in 1 .. n - 1 /\ code(i)
               /\ i \in CodeLines' <=> i \in 1 .. n /\ code(i)'
    BY <1>1 DEF CodeLines
  <1>4. /\ \A i \in 1 .. n - 1 : code(i)' <=> code(i)
        /\ code(n)' <=> InBlock(n)' \/ (k \in Change /\ InDiff(n))
    <2>1. \A i \in 1 .. n - 1 : i \in 1 .. n
      BY <1>1
    <2>2. n \in 1 .. n
      BY <1>1
    <2> QED BY <1>1, <1>2, <2>1, <2>2
  <1> HIDE DEF code
  <1>5. \A i \in 1 .. n : i \in 1 .. n - 1 \/ i = n
    BY <1>1
  <1>6. n \in 1 .. n /\ \A i \in 1 .. n - 1 : i \in 1 .. n
    BY <1>1
  <1>7. ASSUME NEW i PROVE i \in CodeLines' <=> i \in CodeLines \/ (i = n /\ code(n)')
    BY <1>3, <1>4, <1>5, <1>6
  <1> QED BY <1>4, <1>7

\* A change counts for the summary if a header came before it.
LEMMA SummaryGrows ==
    ASSUME NEW k, NEW n, Grows(k, n)
    PROVE  /\ SummaryLines' = IF k \in Change /\ \E h \in DOMAIN lines : lines[h] = "header"
                                THEN SummaryLines \cup {n} ELSE SummaryLines
           /\ (\E h \in DOMAIN lines' : lines'[h] = "header")
                <=> k = "header" \/ \E h \in DOMAIN lines : lines[h] = "header"
  <1>1. /\ n \in Nat \ {0} /\ DOMAIN lines = 1 .. n - 1 /\ DOMAIN lines' = 1 .. n
        /\ \A i \in 1 .. n - 1 : lines'[i] = lines[i]
        /\ lines'[n] = k
    BY LinesGrow
  <1>2. /\ \A i \in 1 .. n : i \in 1 .. n - 1 \/ i = n
        /\ n \in 1 .. n /\ \A i \in 1 .. n - 1 : i \in 1 .. n
    BY <1>1
  <1> DEFINE counts(i) == lines[i] \in Change /\ \E h \in 1 .. i - 1 : lines[h] = "header"
  <1>3. \A i : /\ i \in SummaryLines <=> i \in 1 .. n - 1 /\ counts(i)
               /\ i \in SummaryLines' <=> i \in 1 .. n /\ counts(i)'
    BY <1>1 DEF SummaryLines
  <1>4. \A i \in 1 .. n : \A h \in 1 .. i - 1 : h \in 1 .. n - 1
    BY <1>1
  <1>5. /\ \A i \in 1 .. n - 1 : counts(i)' <=> counts(i)
        /\ counts(n)' <=> k \in Change /\ \E h \in DOMAIN lines : lines[h] = "header"
    BY <1>1, <1>2, <1>4
  <1> HIDE DEF counts
  <1>6. ASSUME NEW i PROVE i \in SummaryLines' <=> i \in SummaryLines \/ (i = n /\ counts(n)')
    BY <1>2, <1>3, <1>5
  <1>7. SummaryLines' = IF counts(n)' THEN SummaryLines \cup {n} ELSE SummaryLines
    BY <1>6
  <1> QED BY <1>1, <1>2, <1>5, <1>7
-----------------------------------------------------------------------------
(* Sequences that grow by an element. *)

\* The elements of a longer sequence.
LEMMA AppendRange ==
    ASSUME NEW S, NEW s \in Seq(S), NEW e \in S
    PROVE  /\ Append(s, e) \in Seq(S) /\ Len(s) \in Nat /\ Len(Append(s, e)) = Len(s) + 1
           /\ DOMAIN s = 1 .. Len(s) /\ DOMAIN Append(s, e) = 1 .. Len(s) + 1
           /\ \A i \in 1 .. Len(s) : Append(s, e)[i] = s[i]
           /\ Append(s, e)[Len(s) + 1] = e
           /\ Range(Append(s, e)) = Range(s) \cup {e}
  <1> DEFINE t == Append(s, e)
  <1>1. /\ t \in Seq(S) /\ Len(s) \in Nat /\ Len(t) = Len(s) + 1
        /\ DOMAIN s = 1 .. Len(s) /\ DOMAIN t = 1 .. Len(s) + 1
        /\ \A i \in 1 .. Len(s) : t[i] = s[i]
        /\ t[Len(s) + 1] = e
    BY AppendProperties, LenProperties
  <1> HIDE DEF t
  <1>2. \A i : i \in DOMAIN t <=> i \in DOMAIN s \/ i = Len(s) + 1
    BY <1>1
  <1>3. Range(t) = Range(s) \cup {e}
    <2>1. ASSUME NEW x PROVE x \in Range(t) <=> x \in Range(s) \/ x = e
      <3>1. x \in Range(t) <=> \E i \in DOMAIN t : t[i] = x
        BY DEF Range
      <3>2. x \in Range(s) <=> \E i \in DOMAIN s : s[i] = x
        BY DEF Range
      <3> QED BY <1>1, <1>2, <3>1, <3>2
    <2> QED BY <2>1
  <1> QED BY <1>1, <1>3 DEF t

\* Numbers written in order stay in order when the number of the line that is
\* read, or 0, is written behind them.
LEMMA OrderKept ==
    ASSUME NEW s \in Seq(Nat), NEW n \in Nat \ {0}, NEW e \in {0, n},
           \A i \in DOMAIN s : s[i] < n,
           \A i, j \in DOMAIN s : i < j /\ s[j] # 0 => s[i] < s[j]
    PROVE  LET t == Append(s, e)
           IN  /\ \A i \in DOMAIN t : t[i] < n + 1
               /\ \A i, j \in DOMAIN t : i < j /\ t[j] # 0 => t[i] < t[j]
  <1> DEFINE t == Append(s, e)
  <1>1. /\ Len(s) \in Nat /\ DOMAIN s = 1 .. Len(s) /\ DOMAIN t = 1 .. Len(s) + 1
        /\ \A i \in 1 .. Len(s) : t[i] = s[i]
        /\ t[Len(s) + 1] = e
    BY AppendRange
  <1>2. \A i \in 1 .. Len(s) : s[i] \in Nat
    BY <1>1, ElementOfSeq
  <1> HIDE DEF t
  <1>3. \A i \in 1 .. Len(s) + 1 : i \in 1 .. Len(s) \/ i = Len(s) + 1
    BY <1>1
  <1>4. \A i \in DOMAIN t : t[i] < n + 1
    BY <1>1, <1>2, <1>3
  <1>5. ASSUME NEW i \in DOMAIN t, NEW j \in DOMAIN t, i < j, t[j] # 0 PROVE t[i] < t[j]
    <2>1. i \in 1 .. Len(s)
      BY <1>1, <1>5
    <2>2. CASE j \in 1 .. Len(s)
      BY <1>1, <1>5, <2>1, <2>2
    <2>3. CASE j = Len(s) + 1
      BY <1>1, <1>5, <2>1, <2>3
    <2> QED BY <1>1, <1>3, <2>2, <2>3
  <1> QED BY <1>4, <1>5 DEF t

-----------------------------------------------------------------------------
(* extractCodeChanges *)

\* What an iteration does to the flags, the counters and the lines written.
LEMMA CodeEffect ==
    ASSUME TextTyping, codeBlockLines <= diffCount, NEW k \in Kind, NEW n, n = lineNumber,
           ScanCode(k)
    PROVE  /\ inCodeBlock' \in BOOLEAN /\ inDiff' \in BOOLEAN
           /\ codeBlockLines' \in Nat /\ diffCount' \in Nat
           /\ inCodeBlock' <=> IF k \in Fence THEN ~inCodeBlock ELSE inCodeBlock
           /\ inDiff' <=> \/ k \in {"header", "hunk"} /\ ~inCodeBlock
                          \/ inDiff /\ ((k \notin Fence /\ inCodeBlock) \/ k \in DiffLine)
           /\ codeBlockLines' <= diffCount' /\ diffCount <= diffCount'
           /\ \/ shown' = shown
              \/ shown' = Append(shown, 0)
              \/ /\ shown' = Append(shown, n)
                 /\ k \in Fence \/ inCodeBlock \/ (k \in Change /\ inDiff)
           /\ (k \notin Fence /\ inCodeBlock) \/ (~inCodeBlock /\ k \in Change /\ inDiff) =>
                shown' = Append(shown, n) \/ diffCount' >= MaxCode
  <1>1. /\ inCodeBlock \in BOOLEAN /\ inDiff \in BOOLEAN
        /\ codeBlockLines \in Nat /\ diffCount \in Nat /\ MaxCode \in Nat \ {0}
    BY CapAssumption DEF TextTyping
  <1>2. CASE CodeFence(k)
    <2>1. k \in Fence /\ k \notin Change /\ k \notin {"header", "hunk"} /\ k \in DiffLine
      BY <1>2 DEF CodeFence, Fence, Minus, Change, DiffLine
    <2>2. /\ inCodeBlock' <=> ~inCodeBlock
          /\ inCodeBlock' \in BOOLEAN /\ inDiff' = inDiff /\ diffCount' = diffCount
          /\ codeBlockLines' = codeBlockLines \/ codeBlockLines' = 0
          /\ shown' = shown \/ shown' = Append(shown, n)
      BY <1>1, <1>2 DEF CodeFence
    <2>3. codeBlockLines' \in Nat /\ codeBlockLines' <= diffCount' /\ diffCount <= diffCount'
      BY <1>1, <2>2
    <2> QED BY <1>1, <2>1, <2>2, <2>3
  <1>3. CASE CodeInBlock(k)
    BY <1>1, <1>3 DEF CodeInBlock, Fence
  <1>4. CASE CodeHeader(k)
    BY <1>1, <1>4 DEF CodeHeader, Fence, Minus, Change
  <1>5. CASE CodeChange(k)
    BY <1>1, <1>5 DEF CodeChange, Fence, Minus, Change, DiffLine
  <1>6. CASE CodeOther(k)
    <2>1. k \notin Fence \cup {"header", "hunk"} /\ ~inCodeBlock /\ ~(k \in Change /\ inDiff)
      BY <1>6 DEF CodeOther
    <2>2. ~EndsDiff(k) <=> k \in DiffLine
      BY <2>1 DEF EndsDiff, DiffLine
    <2>3. /\ inDiff' = (inDiff /\ ~EndsDiff(k))
          /\ UNCHANGED <<inCodeBlock, codeBlockLines, diffCount>>
          /\ shown' = shown \/ shown' = Append(shown, 0)
      BY <1>6 DEF CodeOther
    <2> QED BY <1>1, <2>1, <2>2, <2>3
  <1> QED BY <1>2, <1>3, <1>4, <1>5, <1>6 DEF ScanCode

\* A line of code is written, or the limit of the whole output is reached.
LEMMA CodeStep ==
    ASSUME TextInv, NEW k, NEW n, Grows(k, n), ScanCode(k)
    PROVE  /\ inCodeBlock' \in BOOLEAN /\ inDiff' \in BOOLEAN
           /\ codeBlockLines' \in Nat /\ diffCount' \in Nat /\ shown' \in Seq(Nat)
           /\ inCodeBlock' <=> IF k \in Fence THEN ~inCodeBlock ELSE inCodeBlock
           /\ inCodeBlock' <=> Cardinality(Fences') % 2 = 1
           /\ inDiff' <=> InDiff(n + 1)'
           /\ ShownInv'
  <1>1. /\ TextTyping /\ codeBlockLines <= diffCount /\ n = lineNumber /\ k \in Kind
        /\ shown \in Seq(Nat) /\ diffCount \in Nat /\ MaxCode \in Nat
        /\ inCodeBlock <=> Cardinality(Fences) % 2 = 1
        /\ inDiff <=> InDiff(n)
        /\ CodeLines \subseteq Range(shown) \/ diffCount >= MaxCode
        /\ \A i \in DOMAIN shown : shown[i] < n
        /\ Range(shown) \ {0} \subseteq CodeLines \cup Fences
        /\ \A i, j \in DOMAIN shown : i < j /\ shown[j] # 0 => shown[i] < shown[j]
    BY CapAssumption DEF TextInv, TextTyping, FlagsInv, ShownInv, OnlyCodeIsShown, CodeMarker, Grows
  <1>2. n \in Nat \ {0} /\ lineNumber' = n + 1
    BY LinesGrow
  <1>3. /\ Cardinality(Fences) \in Nat
        /\ Fences' = IF k \in Fence THEN Fences \cup {n} ELSE Fences
        /\ Cardinality(Fences') = IF k \in Fence THEN Cardinality(Fences) + 1 ELSE Cardinality(Fences)
        /\ InBlock(n)' <=> k \notin Fence /\ inCodeBlock
    BY <1>1, FencesGrow
  <1>4. InDiff(n + 1)' <=> \/ k \in {"header", "hunk"} /\ ~InBlock(n)'
                           \/ inDiff /\ (InBlock(n)' \/ k \in DiffLine)
    BY <1>1, DiffGrows
  <1>5. CodeLines' = IF InBlock(n)' \/ (k \in Change /\ inDiff) THEN CodeLines \cup {n} ELSE CodeLines
    BY <1>1, CodeGrows
  <1>6. /\ inCodeBlock' \in BOOLEAN /\ inDiff' \in BOOLEAN
        /\ codeBlockLines' \in Nat /\ diffCount' \in Nat
        /\ inCodeBlock' <=> IF k \in Fence THEN ~inCodeBlock ELSE inCodeBlock
        /\ inDiff' <=> \/ k \in {"header", "hunk"} /\ ~inCodeBlock
                       \/ inDiff /\ ((k \notin Fence /\ inCodeBlock) \/ k \in DiffLine)
        /\ codeBlockLines' <= diffCount' /\ diffCount <= diffCount'
        /\ \/ shown' = shown
           \/ shown' = Append(shown, 0)
           \/ /\ shown' = Append(shown, n)
              /\ k \in Fence \/ inCodeBlock \/ (k \in Change /\ inDiff)
        /\ (k \notin Fence /\ inCodeBlock) \/ (~inCodeBlock /\ k \in Change /\ inDiff) =>
             shown' = Append(shown, n) \/ diffCount' >= MaxCode
    BY <1>1, CodeEffect
  <1>7. inCodeBlock' <=> Cardinality(Fences') % 2 = 1
    BY <1>1, <1>3, <1>6, Parity
  <1>8. inDiff' <=> InDiff(n + 1)'
    BY <1>3, <1>4, <1>6 DEF Fence
  <1>9. \A e \in {0, n} :
          /\ Append(shown, e) \in Seq(Nat) /\ Range(Append(shown, e)) = Range(shown) \cup {e}
          /\ \A i \in DOMAIN Append(shown, e) : Append(shown, e)[i] < n + 1
          /\ \A i, j \in DOMAIN Append(shown, e) :
               i < j /\ Append(shown, e)[j] # 0 => Append(shown, e)[i] < Append(shown, e)[j]
    <2> SUFFICES ASSUME NEW e \in {0, n}
                 PROVE  /\ Append(shown, e) \in Seq(Nat)
                        /\ Range(Append(shown, e)) = Range(shown) \cup {e}
                        /\ \A i \in DOMAIN Append(shown, e) : Append(shown, e)[i] < n + 1
                        /\ \A i, j \in DOMAIN Append(shown, e) :
                             i < j /\ Append(shown, e)[j] # 0 =>
                               Append(shown, e)[i] < Append(shown, e)[j]
      OBVIOUS
    <2>1. shown \in Seq(Nat) /\ e \in Nat
      BY <1>1, <1>2
    <2>2. /\ Append(shown, e) \in Seq(Nat)
          /\ Range(Append(shown, e)) = Range(shown) \cup {e}
      BY <2>1, AppendRange
    <2>3. /\ \A i \in DOMAIN Append(shown, e) : Append(shown, e)[i] < n + 1
          /\ \A i, j \in DOMAIN Append(shown, e) :
               i < j /\ Append(shown, e)[j] # 0 => Append(shown, e)[i] < Append(shown, e)[j]
      BY <1>1, <1>2, <2>1, OrderKept
    <2> QED BY <2>2, <2>3
  <1>10. \A i \in DOMAIN shown : shown[i] < n + 1
    <2>1. \A i \in DOMAIN shown : shown[i] \in Nat
      BY <1>1, LenProperties, ElementOfSeq
    <2> QED BY <1>1, <1>2, <2>1
  <1>11. /\ shown' \in Seq(Nat)
         /\ \A i \in DOMAIN shown' : shown'[i] < n + 1
         /\ \A i, j \in DOMAIN shown' : i < j /\ shown'[j] # 0 => shown'[i] < shown'[j]
         /\ Range(shown) \subseteq Range(shown')
    BY <1>1, <1>6, <1>9, <1>10
  <1>12. Range(shown') \ {0} \subseteq CodeLines' \cup Fences'
    <2>1. CodeLines \cup Fences \subseteq CodeLines' \cup Fences'
      BY <1>3, <1>5
    <2>2. CASE shown' = shown \/ shown' = Append(shown, 0)
      BY <1>1, <1>9, <2>1, <2>2
    <2>3. CASE shown' = Append(shown, n) /\ (k \in Fence \/ inCodeBlock \/ (k \in Change /\ inDiff))
      <3>1. n \in CodeLines' \cup Fences'
        BY <1>3, <1>5, <2>3
      <3>2. Range(shown') = Range(shown) \cup {n}
        BY <1>9, <2>3
      <3> QED BY <1>1, <2>1, <3>1, <3>2
    <2> QED BY <1>6, <2>2, <2>3
  <1>13. CodeLines' \subseteq Range(shown') \/ diffCount' >= MaxCode
    <2>1. CASE diffCount' >= MaxCode
      BY <2>1
    <2>2. CASE ~(diffCount' >= MaxCode)
      <3>1. CodeLines \subseteq Range(shown')
        <4>1. ~(diffCount >= MaxCode)
          BY <1>1, <1>6, <2>2
        <4> QED BY <1>1, <1>11, <4>1
      <3>2. CASE InBlock(n)' \/ (k \in Change /\ inDiff)
        <4>1. k \in Change => k \notin Fence
          BY DEF Change, Minus, Fence
        <4>2. shown' = Append(shown, n)
          BY <1>3, <1>6, <2>2, <3>2, <4>1
        <4>3. n \in Range(shown')
          BY <1>9, <4>2
        <4> QED BY <1>5, <3>1, <3>2, <4>3
      <3>3. CASE ~(InBlock(n)' \/ (k \in Change /\ inDiff))
        BY <1>5, <3>1, <3>3
      <3> QED BY <3>2, <3>3
    <2> QED BY <2>1, <2>2
  <1>14. ShownInv'
    BY <1>2, <1>6, <1>11, <1>12, <1>13 DEF ShownInv, OnlyCodeIsShown, CodeMarker
  <1> QED BY <1>6, <1>7, <1>8, <1>11, <1>14

-----------------------------------------------------------------------------
(* extractChangeSummary *)

\* A change behind a header is copied, or the limit is reached.
LEMMA SummaryStep ==
    ASSUME TextInv, NEW k, NEW n, Grows(k, n), ScanSummary(k)
    PROVE  /\ sumInDiff' \in BOOLEAN /\ sumCount' \in Nat /\ summary' \in Seq(Nat)
           /\ sumInDiff' <=> \E h \in DOMAIN lines' : lines'[h] = "header"
           /\ SummaryTellsAll'
  <1>1. /\ sumInDiff \in BOOLEAN /\ sumCount \in Nat /\ summary \in Seq(Nat) /\ MaxSummary \in Nat
        /\ sumInDiff <=> \E h \in DOMAIN lines : lines[h] = "header"
        /\ SummaryLines \subseteq Range(summary) \/ sumCount >= MaxSummary
        /\ Range(summary) \subseteq SummaryLines \cup {i \in DOMAIN lines : lines[i] = "summary"}
    BY CapAssumption DEF TextInv, TextTyping, FlagsInv, SummaryTellsAll, SummaryMarker
  <1>2. /\ n \in Nat \ {0} /\ n = lineNumber /\ lines'[n] = k
        /\ DOMAIN lines = 1 .. n - 1 /\ \A i \in 1 .. n - 1 : lines'[i] = lines[i]
    BY LinesGrow DEF Grows
  <1>3. /\ SummaryLines' = IF k \in Change /\ sumInDiff THEN SummaryLines \cup {n} ELSE SummaryLines
        /\ (\E h \in DOMAIN lines' : lines'[h] = "header") <=> k = "header" \/ sumInDiff
    BY <1>1, SummaryGrows
  <1>4. Append(summary, n) \in Seq(Nat) /\ Range(Append(summary, n)) = Range(summary) \cup {n}
    BY <1>1, <1>2, AppendRange
  <1>5. k \in Change => k \notin {"header", "summary"}
    BY DEF Change, Minus
  <1>6. /\ sumInDiff' \in BOOLEAN /\ sumCount' \in Nat /\ sumCount <= sumCount'
        /\ sumInDiff' <=> k = "header" \/ sumInDiff
        /\ \/ summary' = summary
           \/ summary' = Append(summary, n) /\ (k = "summary" \/ (k \in Change /\ sumInDiff))
        /\ k \in Change /\ sumInDiff => summary' = Append(summary, n) \/ sumCount' >= MaxSummary
    <2>1. CASE SummaryHeader(k)
      BY <1>1, <1>5, <2>1 DEF SummaryHeader
    <2>2. CASE SummaryChange(k)
      BY <1>1, <1>2, <1>5, <2>2 DEF SummaryChange
    <2>3. CASE SummaryTitle(k)
      BY <1>1, <1>2, <1>5, <2>3 DEF SummaryTitle
    <2>4. CASE SummaryOther(k)
      BY <1>1, <1>5, <2>4 DEF SummaryOther
    <2> QED BY <2>1, <2>2, <2>3, <2>4 DEF ScanSummary
  <1>7. summary' \in Seq(Nat) /\ Range(summary) \subseteq Range(summary')
    BY <1>1, <1>4, <1>6
  <1>8. SummaryLines' \subseteq Range(summary') \/ sumCount' >= MaxSummary
    <2> SUFFICES ASSUME ~(sumCount' >= MaxSummary) PROVE SummaryLines' \subseteq Range(summary')
      OBVIOUS
    <2>1. ~(sumCount >= MaxSummary)
      BY <1>1, <1>6
    <2>2. SummaryLines \subseteq Range(summary')
      BY <1>1, <1>7, <2>1
    <2>3. k \in Change /\ sumInDiff => n \in Range(summary')
      BY <1>4, <1>6
    <2> QED BY <1>3, <2>2, <2>3
  <1>9. Range(summary') \subseteq SummaryLines' \cup {i \in DOMAIN lines' : lines'[i] = "summary"}
    <2>1. n \in DOMAIN lines' /\ DOMAIN lines \subseteq DOMAIN lines'
      BY <1>2, LinesGrow
    <2>2. ASSUME NEW i \in Range(summary)
          PROVE  i \in SummaryLines' \/ (i \in DOMAIN lines' /\ lines'[i] = "summary")
      BY <1>1, <1>2, <1>3, <2>1
    <2>3. k = "summary" \/ (k \in Change /\ sumInDiff) =>
            n \in SummaryLines' \/ (n \in DOMAIN lines' /\ lines'[n] = "summary")
      BY <1>2, <1>3, <2>1
    <2> QED BY <1>4, <1>6, <2>2, <2>3
  <1>10. SummaryTellsAll'
    BY <1>8, <1>9 DEF SummaryTellsAll, SummaryMarker
  <1> QED BY <1>3, <1>6, <1>7, <1>10
-----------------------------------------------------------------------------
(* convertMarkdownToSlack *)

\* A line is converted by what it is, and its own block decides.
LEMMA SlackStep ==
    ASSUME TextInv, NEW k, NEW n, Grows(k, n), ScanSlack(k)
    PROVE  /\ slackBlock' \in BOOLEAN /\ slack' \in Seq({"verbatim", "title", "bullet", "inline"})
           /\ slackBlock' <=> IF k \in Fence THEN ~slackBlock ELSE slackBlock
           /\ SlackInv'
  <1> DEFINE Form == {"verbatim", "title", "bullet", "inline"}
             form(i) == IF InBlock(i) \/ i \in Fences THEN "verbatim" ELSE Converted(lines[i])
             new == IF k \in Fence \/ slackBlock THEN "verbatim" ELSE Converted(k)
  <1>1. /\ slackBlock \in BOOLEAN /\ slack \in Seq(Form) /\ Len(slack) = Len(lines)
        /\ slackBlock <=> Cardinality(Fences) % 2 = 1
        /\ \A i \in DOMAIN lines : slack[i] = form(i)
    BY DEF TextInv, TextTyping, FlagsInv, SlackInv
  <1>2. /\ n \in Nat \ {0} /\ n = Len(lines) + 1 /\ n = Len(lines') /\ lines'[n] = k
        /\ DOMAIN lines = 1 .. n - 1 /\ DOMAIN lines' = 1 .. n
        /\ \A i \in 1 .. n - 1 : lines'[i] = lines[i]
    BY LinesGrow
  <1>3. /\ Fences \subseteq 1 .. n - 1
        /\ Fences' = IF k \in Fence THEN Fences \cup {n} ELSE Fences
        /\ \A i \in 1 .. n - 1 : InBlock(i)' <=> InBlock(i)
        /\ InBlock(n)' <=> k \notin Fence /\ slackBlock
    BY <1>1, FencesGrow
  <1>4. /\ slackBlock' \in BOOLEAN
        /\ slackBlock' <=> IF k \in Fence THEN ~slackBlock ELSE slackBlock
        /\ slack' = Append(slack, new)
    <2>1. CASE SlackFence(k)
      BY <1>1, <2>1 DEF SlackFence, Toggled
    <2>2. CASE SlackLine(k)
      BY <1>1, <2>2 DEF SlackLine
    <2> QED BY <2>1, <2>2 DEF ScanSlack
  <1>5. new \in Form
    BY DEF Converted
  <1>6. (\A i \in 1 .. n - 1 : form(i)' = form(i)) /\ form(n)' = new
    <2>1. \A i \in 1 .. n - 1 : i \in Fences' <=> i \in Fences
      BY <1>2, <1>3
    <2>2. n \in Fences' <=> k \in Fence
      BY <1>2, <1>3
    <2>3. \A i \in 1 .. n - 1 : form(i)' = form(i)
      BY <1>2, <1>3, <2>1 DEF Converted
    <2>4. form(n)' = new
      BY <1>2, <1>3, <2>2 DEF Converted
    <2> QED BY <2>3, <2>4
  <1> HIDE DEF Form, form, new
  <1>7. /\ slack' \in Seq(Form) /\ Len(slack') = n
        /\ \A i \in 1 .. n - 1 : slack'[i] = slack[i]
        /\ slack'[n] = new
    BY <1>1, <1>2, <1>4, <1>5, AppendRange
  <1>8. \A i \in 1 .. n : slack'[i] = form(i)'
    <2>1. \A i \in 1 .. n : i \in 1 .. n - 1 \/ i = n
      BY <1>2
    <2> QED BY <1>1, <1>2, <1>6, <1>7, <2>1
  <1>9. SlackInv'
    BY <1>2, <1>7, <1>8 DEF SlackInv, form
  <1> QED BY <1>4, <1>7, <1>9 DEF Form

-----------------------------------------------------------------------------
(* All three loops. *)

\* Before the first line.
LEMMA TextInitially == TextInit => TextInv
  <1> SUFFICES ASSUME TextInit PROVE TextInv
    OBVIOUS
  <1>1. /\ lines = <<>> /\ shown = <<>> /\ summary = <<>> /\ slack = <<>>
        /\ inDiff = FALSE /\ inCodeBlock = FALSE /\ sumInDiff = FALSE /\ slackBlock = FALSE
        /\ codeBlockLines = 0 /\ diffCount = 0 /\ sumCount = 0
    BY DEF TextInit
  <1>2. Len(<<>>) = 0 /\ DOMAIN <<>> = {} /\ Range(<<>>) = {} /\ \A S : <<>> \in Seq(S)
    BY EmptySeq DEF Range
  <1>3. Fences = {} /\ CodeLines = {} /\ SummaryLines = {} /\ lineNumber = 1
    BY <1>1, <1>2 DEF Fences, CodeLines, SummaryLines, lineNumber
  <1>4. TextTyping
    BY <1>1, <1>2 DEF TextTyping
  <1>5. FlagsInv
    <2>1. ~(Cardinality(Fences) % 2 = 1)
      BY <1>3, FS_EmptySet
    <2>2. ~InDiff(lineNumber)
      BY <1>3 DEF InDiff
    <2> QED BY <1>1, <1>2, <2>1, <2>2 DEF FlagsInv
  <1>6. ShownInv /\ SummaryTellsAll
    BY <1>1, <1>2, <1>3 DEF ShownInv, OnlyCodeIsShown, SummaryTellsAll
  <1>7. SlackInv
    BY <1>1, <1>2 DEF SlackInv
  <1> QED BY <1>4, <1>5, <1>6, <1>7 DEF TextInv

\* A line is read by all of them.
LEMMA TextInductive == TextInv /\ [TextNext]_textVars => TextInv'
  <1> SUFFICES ASSUME TextInv, [TextNext]_textVars PROVE TextInv'
    OBVIOUS
  <1>1. ASSUME NEW k \in Kind, Line(k) PROVE TextInv'
    <2>1. lines \in Seq(Kind) /\ lineNumber \in Nat
      BY LenProperties DEF TextInv, TextTyping, lineNumber
    <2>2. PICK n \in Nat : n = lineNumber
      BY <2>1
    <2>3. Grows(k, n) /\ ScanCode(k) /\ ScanSummary(k) /\ ScanSlack(k)
      BY <1>1, <2>1, <2>2 DEF Line, Grows
    <2>4. /\ inCodeBlock' \in BOOLEAN /\ inDiff' \in BOOLEAN
          /\ codeBlockLines' \in Nat /\ diffCount' \in Nat /\ shown' \in Seq(Nat)
          /\ inCodeBlock' <=> IF k \in Fence THEN ~inCodeBlock ELSE inCodeBlock
          /\ inCodeBlock' <=> Cardinality(Fences') % 2 = 1
          /\ inDiff' <=> InDiff(n + 1)'
          /\ ShownInv'
      BY <2>3, CodeStep
    <2>5. /\ sumInDiff' \in BOOLEAN /\ sumCount' \in Nat /\ summary' \in Seq(Nat)
          /\ sumInDiff' <=> \E h \in DOMAIN lines' : lines'[h] = "header"
          /\ SummaryTellsAll'
      BY <2>3, SummaryStep
    <2>6. /\ slackBlock' \in BOOLEAN /\ slack' \in Seq({"verbatim", "title", "bullet", "inline"})
          /\ slackBlock' <=> IF k \in Fence THEN ~slackBlock ELSE slackBlock
          /\ SlackInv'
      BY <2>3, SlackStep
    <2>7. lines' \in Seq(Kind) /\ lineNumber' = n + 1
      BY <2>3, LinesGrow
    <2>8. TextTyping'
      BY <2>4, <2>5, <2>6, <2>7 DEF TextTyping
    <2>9. slackBlock' <=> inCodeBlock'
      BY <2>4, <2>6 DEF TextInv, FlagsInv
    <2>10. FlagsInv'
      BY <2>4, <2>5, <2>7, <2>9 DEF FlagsInv
    <2> QED BY <2>4, <2>5, <2>6, <2>8, <2>10 DEF TextInv
  <1>2. CASE UNCHANGED textVars
    <2>1. /\ UNCHANGED <<lines, inDiff, inCodeBlock, codeBlockLines, diffCount, shown>>
          /\ UNCHANGED <<sumInDiff, sumCount, summary, slackBlock, slack>>
      BY <1>2 DEF textVars, codeVars
    <2>2. Fences' = Fences /\ lineNumber' = lineNumber
      BY <2>1 DEF Fences, lineNumber
    <2>3. \A i : InBlock(i)' <=> InBlock(i)
      BY <2>2 DEF InBlock
    <2>4. \A i : InDiff(i)' <=> InDiff(i)
      BY <2>1, <2>3 DEF InDiff
    <2>5. CodeLines' = CodeLines /\ SummaryLines' = SummaryLines
      BY <2>1, <2>3, <2>4 DEF CodeLines, SummaryLines
    <2>6. TextTyping'
      BY <2>1 DEF TextInv, TextTyping
    <2>7. FlagsInv'
      BY <2>1, <2>2, <2>4 DEF TextInv, FlagsInv
    <2>8. ShownInv' /\ SummaryTellsAll'
      BY <2>1, <2>2, <2>5 DEF TextInv, ShownInv, OnlyCodeIsShown, CodeMarker, SummaryTellsAll, SummaryMarker
    <2>9. SlackInv'
      BY <2>1, <2>2, <2>3 DEF TextInv, SlackInv, Converted
    <2> QED BY <2>6, <2>7, <2>8, <2>9 DEF TextInv
  <1> QED BY <1>1, <1>2 DEF TextNext

\* The invariant holds after every line of every output.
THEOREM TextInvariance == TextSpec => []TextInv
  <1> QED BY TextInitially, TextInductive, PTL DEF TextSpec

\* In any output, however long, the section of changed code holds lines of
\* blocks and diffs only, in order and once.
THEOREM OnlyCode == TextSpec => []OnlyCodeIsShown
  <1>1. TextInv => OnlyCodeIsShown
    BY DEF TextInv, ShownInv
  <1> QED BY <1>1, TextInvariance, PTL

\* Whatever the limit is, a line of code that is not shown is announced, and
\* the section is left out only if it would be blank.
THEOREM CutCodeIsAnnounced == TextSpec => []NothingCutSilently
  <1>1. TextInv => NothingCutSilently
    <2> SUFFICES ASSUME TextInv PROVE NothingCutSilently
      OBVIOUS
    <2>1. CodeLines \subseteq Range(shown) \/ CodeMarker
      BY DEF TextInv, ShownInv
    <2>2. ASSUME NEW i \in CodeLines, ~HasCode PROVE lines[i] = "blank"
      <3>1. ~CodeMarker /\ \A j \in Range(shown) \ {0} : lines[j] = "blank"
        BY <2>2 DEF HasCode
      <3>2. i # 0
        <4>1. DOMAIN lines = 1 .. Len(lines) /\ Len(lines) \in Nat
          BY LenProperties DEF TextInv, TextTyping
        <4> QED BY <4>1 DEF CodeLines
      <3> QED BY <2>1, <3>1, <3>2
    <2> QED BY <2>1, <2>2 DEF NothingCutSilently
  <1> QED BY <1>1, TextInvariance, PTL

\* The summary of any output holds every change after a header or says that
\* there are more, and nothing else.
THEOREM SummaryIsComplete == TextSpec => []SummaryTellsAll
  <1>1. TextInv => SummaryTellsAll
    BY DEF TextInv
  <1> QED BY <1>1, TextInvariance, PTL

\* No line of a fenced block is reformatted, every line outside of one is, and
\* no block is left open, however the fences lie.
THEOREM FencedCodeStaysVerbatim == TextSpec => []FencedCodeIsVerbatim
  <1>1. TextInv => FencedCodeIsVerbatim
    <2> SUFFICES ASSUME TextInv PROVE FencedCodeIsVerbatim
      OBVIOUS
    <2>1. slackBlock <=> Cardinality(Fences) % 2 = 1
      BY DEF TextInv, FlagsInv
    <2>2. Cardinality(Fences) \in Nat
      <3>1. Fences \subseteq 1 .. Len(lines) /\ Len(lines) \in Nat
        BY LenProperties DEF TextInv, TextTyping, Fences
      <3>2. IsFiniteSet(1 .. Len(lines))
        BY <3>1, FS_Interval
      <3> QED BY <3>1, <3>2, FS_Subset, FS_CardinalityType
    <2>3. (Cardinality(Fences) + ClosingFences) % 2 = 0
      <3> DEFINE c == Cardinality(Fences)
      <3>1. c \in Nat
        BY <2>2
      <3> HIDE DEF c
      <3>2. c % 2 = 1 => (c + 1) % 2 = 0
        BY <3>1
      <3>3. c % 2 # 1 => (c + 0) % 2 = 0
        BY <3>1
      <3> QED BY <2>1, <3>2, <3>3 DEF ClosingFences, c
    <2> QED BY <2>3 DEF FencedCodeIsVerbatim, TextInv, SlackInv
  <1> QED BY <1>1, TextInvariance, PTL
=============================================================================
