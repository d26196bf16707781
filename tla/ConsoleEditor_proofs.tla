------------------------ MODULE ConsoleEditor_proofs ------------------------
(***************************************************************************)
(* Proofs about ConsoleEditor, for every set of characters and threads and *)
(* every limit.  An edit begins under a test of the line and the cursor    *)
(* (EditFits), and nothing but the edit changes them before it ends: the   *)
(* other thread that does rewrites the line only for a console thread that *)
(* waits for it (Asked).                                                   *)
(***************************************************************************)
EXTENDS ConsoleEditor, SequenceTheorems, TLAPS

\* Where the threads are while they hold the mutexes.
Held ==
  /\ output = "console" <=> at \in LockedEdits
  /\ output = "main" <=> main \in {"log", "input log"}
  /\ commands = "main" <=> main \in {"input", "input to log", "input log"}
  /\ autoComplete = "main" <=> main \in {"rewrite", "print"}

\* The console thread waits for the answer of an autocompletion.
Asked == awaiting \/ autoComplete = "main" => at = "await"

\* What was tested before an edit, a push or a drain still holds.
EditFits ==
  /\ at \in {"backspace", "left"} => cursorCol > 0
  /\ at \in {"right", "delete"} => cursorCol < Len(buffer)
  /\ at = "char" => Len(buffer) < MaxLine
  /\ at \in {"up", "down", "log", "push"} => history # <<>>
  /\ commands = "main" => queue # <<>>

IInv == TypeOK /\ Held /\ Asked /\ EditFits

-----------------------------------------------------------------------------
(* Lines.                                                                   *)

LEMMA LinesAre ==
  ASSUME NEW s
  PROVE  s \in Lines <=> s \in Seq(Chars) /\ Len(s) <= MaxLine
  <1>0. MaxLine \in Nat
    BY EditorConstants
  <1>1. ASSUME s \in Lines
        PROVE  s \in Seq(Chars) /\ Len(s) <= MaxLine
    <2>1. PICK n \in 0..MaxLine : s \in [1..n -> Chars]
      BY <1>1 DEF Lines
    <2>2. s \in Seq(Chars)
      <3>1. n \in Nat /\ s = [i \in 1..n |-> s[i]] /\ \A i \in 1..n : s[i] \in Chars
        BY <1>0, <2>1
      <3>2. [i \in 1..n |-> s[i]] \in Seq(Chars)
        BY <3>1, IsASeq
      <3> QED
        BY <3>1, <3>2
    <2>3. Len(s) = n
      BY <1>0, <2>1, <2>2, LenProperties
    <2> QED
      BY <1>0, <2>1, <2>2, <2>3
  <1>2. ASSUME s \in Seq(Chars), Len(s) <= MaxLine
        PROVE  s \in Lines
    <2>1. Len(s) \in 0..MaxLine /\ s \in [1..Len(s) -> Chars]
      BY <1>0, <1>2, LenProperties
    <2> QED
      BY <2>1 DEF Lines
  <1> QED
    BY <1>1, <1>2

\* The parts of the line before and behind a column.
LEMMA Parts ==
  ASSUME buffer \in Lines, NEW col \in 0..Len(buffer)
  PROVE  /\ Before(col) \in Seq(Chars) /\ Len(Before(col)) = col
         /\ From(col) \in Seq(Chars) /\ Len(From(col)) = Len(buffer) - col
         /\ Len(buffer) \in Nat /\ Len(buffer) <= MaxLine
  <1>1. buffer \in Seq(Chars) /\ Len(buffer) <= MaxLine /\ Len(buffer) \in Nat
    BY LinesAre, LenProperties
  <1>2. \A i \in 1..Len(buffer) : buffer[i] \in Chars
    BY <1>1
  <1>3. /\ SubSeq(buffer, 1, col) \in Seq(Chars)
        /\ Len(SubSeq(buffer, 1, col)) = IF 1 <= col THEN col - 1 + 1 ELSE 0
    <2>1. \A i \in 1..col : buffer[i] \in Chars
      BY <1>1, <1>2
    <2>2. 1 \in Int /\ col \in Int
      BY <1>1
    <2> QED
      BY <2>1, <2>2, SubSeqProperties
  <1>4. /\ SubSeq(buffer, col + 1, Len(buffer)) \in Seq(Chars)
        /\ Len(SubSeq(buffer, col + 1, Len(buffer))) =
             IF col + 1 <= Len(buffer) THEN Len(buffer) - (col + 1) + 1 ELSE 0
    <2>1. \A i \in (col + 1)..Len(buffer) : buffer[i] \in Chars
      BY <1>1, <1>2
    <2>2. col + 1 \in Int /\ Len(buffer) \in Int
      BY <1>1
    <2> QED
      BY <2>1, <2>2, SubSeqProperties
  <1>5. Len(Before(col)) = col
    BY <1>1, <1>3 DEF Before
  <1>6. Len(From(col)) = Len(buffer) - col
    BY <1>1, <1>4 DEF From
  <1> QED
    BY <1>1, <1>3, <1>4, <1>5, <1>6 DEF Before, From

LEMMA Joined ==
  ASSUME NEW s \in Seq(Chars), NEW t \in Seq(Chars), Len(s) + Len(t) <= MaxLine
  PROVE  s \o t \in Lines /\ Len(s \o t) = Len(s) + Len(t)
  BY ConcatProperties, LinesAre

\* A character more, and one less.
LEMMA Inserted ==
  ASSUME buffer \in Lines, cursorCol \in 0..Len(buffer), Len(buffer) < MaxLine,
         NEW c \in Chars
  PROVE  LET line == Before(cursorCol) \o <<c>> \o From(cursorCol)
         IN  line \in Lines /\ Len(line) = Len(buffer) + 1
  <1>1. /\ Before(cursorCol) \in Seq(Chars) /\ Len(Before(cursorCol)) = cursorCol
        /\ From(cursorCol) \in Seq(Chars) /\ Len(From(cursorCol)) = Len(buffer) - cursorCol
        /\ Len(buffer) \in Nat /\ MaxLine \in Nat
    BY Parts, EditorConstants
  <1>2. <<c>> \in Seq(Chars) /\ Len(<<c>>) = 1
    OBVIOUS
  <1> DEFINE head == Before(cursorCol) \o <<c>>
  <1>3. head \in Seq(Chars) /\ Len(head) = cursorCol + 1
    BY <1>1, <1>2, ConcatProperties
  <1> HIDE DEF head
  <1>4. cursorCol + 1 + (Len(buffer) - cursorCol) = Len(buffer) + 1
    BY <1>1
  <1>5. /\ head \o From(cursorCol) \in Lines
        /\ Len(head \o From(cursorCol)) = Len(buffer) + 1
    <2>1. Len(head) + Len(From(cursorCol)) = Len(buffer) + 1
      BY <1>1, <1>3, <1>4
    <2>2. Len(head) + Len(From(cursorCol)) <= MaxLine
      BY <1>1, <2>1
    <2> QED
      BY <1>1, <1>3, <2>1, <2>2, Joined
  <1> QED
    BY <1>5 DEF head

LEMMA Removed ==
  ASSUME buffer \in Lines, NEW col \in 0..(Len(buffer) - 1)
  PROVE  LET line == Before(col) \o From(col + 1)
         IN  line \in Lines /\ Len(line) = Len(buffer) - 1
  <1>1. Len(buffer) \in Nat /\ Len(buffer) <= MaxLine /\ MaxLine \in Nat
    BY LinesAre, LenProperties, EditorConstants
  <1>2. col \in 0..Len(buffer) /\ col + 1 \in 0..Len(buffer)
    BY <1>1
  <1>3. /\ Before(col) \in Seq(Chars) /\ Len(Before(col)) = col
        /\ From(col + 1) \in Seq(Chars) /\ Len(From(col + 1)) = Len(buffer) - (col + 1)
    BY <1>2, Parts
  <1>4. col + (Len(buffer) - (col + 1)) = Len(buffer) - 1 /\ Len(buffer) - 1 <= MaxLine
    BY <1>1
  <1> QED
    BY <1>3, <1>4, Joined

LEMMA NoLine == <<>> \in Lines /\ Len(<<>>) = 0
  <1>1. <<>> \in Seq(Chars) /\ Len(<<>>) = 0 /\ MaxLine \in Nat
    BY EmptySeq, EditorConstants
  <1>2. <<>> \in Seq(Chars) /\ Len(<<>>) <= MaxLine
    BY <1>1
  <1>3. <<>> \in Lines
    BY <1>2, LinesAre
  <1> QED
    BY <1>1, <1>3

-----------------------------------------------------------------------------
(* Types.                                                                   *)

\* The history after a line was entered: not empty, and within its limit.
LEMMA EnterHistory ==
  ASSUME TypeOK, Enter
  PROVE  history' \in Seq(Lines) /\ Len(history') <= HistoryLimit /\ history' # <<>>
  <1> DEFINE longer == IF history # <<>> /\ history[1] = buffer THEN history
                                                              ELSE <<buffer>> \o history
  <1>1. HistoryLimit \in Nat \ {0} /\ history \in Seq(Lines) /\ buffer \in Lines
    BY EditorConstants DEF TypeOK
  <1>2. longer \in Seq(Lines) /\ Len(longer) \in Nat \ {0}
    <2>1. CASE history # <<>> /\ history[1] = buffer
      BY <1>1, <2>1, EmptySeq
    <2>2. CASE ~(history # <<>> /\ history[1] = buffer)
      <3>1. <<buffer>> \in Seq(Lines) /\ Len(<<buffer>>) = 1 /\ Len(history) \in Nat
        BY <1>1, LenProperties
      <3>2. /\ <<buffer>> \o history \in Seq(Lines)
            /\ Len(<<buffer>> \o history) = 1 + Len(history)
        BY <1>1, <3>1, ConcatProperties
      <3> QED
        BY <2>2, <3>1, <3>2
    <2> QED
      BY <2>1, <2>2
  <1>3. history' = IF Len(longer) > HistoryLimit THEN SubSeq(longer, 1, HistoryLimit)
                                                 ELSE longer
    BY DEF Enter
  <1> HIDE DEF longer
  <1>4. CASE Len(longer) > HistoryLimit
    <2>1. \A i \in 1..HistoryLimit : longer[i] \in Lines
      BY <1>1, <1>2, <1>4, ElementOfSeq
    <2>2. 1 \in Int /\ HistoryLimit \in Int
      BY <1>1
    <2>3. /\ SubSeq(longer, 1, HistoryLimit) \in Seq(Lines)
          /\ Len(SubSeq(longer, 1, HistoryLimit)) =
               IF 1 <= HistoryLimit THEN HistoryLimit - 1 + 1 ELSE 0
      BY <2>1, <2>2, SubSeqProperties
    <2>4. Len(history') = HistoryLimit
      BY <1>1, <1>3, <1>4, <2>3
    <2> QED
      BY <1>1, <1>3, <1>4, <2>3, <2>4, EmptySeq
  <1>5. CASE ~(Len(longer) > HistoryLimit)
    BY <1>1, <1>2, <1>3, <1>5, EmptySeq
  <1> QED
    BY <1>4, <1>5

\* An edit leaves the cursor in the line and the position in the history.
LEMMA EditKeeps ==
  ASSUME TypeOK, EditFits, Insert \/ Backspace \/ StepUp \/ StepDown \/ MoveCursor
  PROVE  /\ buffer' \in Lines /\ cursorCol' \in 0..Len(buffer')
         /\ historyPos' \in -1..(Len(history) - 1)
  <1>1. /\ buffer \in Lines /\ cursorCol \in 0..Len(buffer) /\ draft \in Lines
        /\ history \in Seq(Lines) /\ historyPos \in -1..(Len(history) - 1)
        /\ Len(history) \in Nat
    BY LenProperties DEF TypeOK
  <1>2. \A line \in Lines : Len(line) \in Nat
    BY LinesAre, LenProperties
  <1>3. CASE Insert
    <2>1. PICK c \in Chars : buffer' = Before(cursorCol) \o <<c>> \o From(cursorCol)
      BY <1>3 DEF Insert
    <2>2. Len(buffer) < MaxLine
      BY <1>3 DEF Insert, EditFits
    <2>3. buffer' \in Lines /\ Len(buffer') = Len(buffer) + 1
      BY <1>1, <2>1, <2>2, Inserted
    <2> QED
      BY <1>1, <1>2, <1>3, <2>3 DEF Insert
  <1>4. CASE Backspace
    <2>1. cursorCol - 1 \in 0..(Len(buffer) - 1) /\ cursorCol - 1 + 1 = cursorCol
      BY <1>1, <1>2, <1>4 DEF Backspace, EditFits
    <2>2. /\ Before(cursorCol - 1) \o From(cursorCol - 1 + 1) \in Lines
          /\ Len(Before(cursorCol - 1) \o From(cursorCol - 1 + 1)) = Len(buffer) - 1
      BY <1>1, <2>1, Removed
    <2>3. buffer' \in Lines /\ Len(buffer') = Len(buffer) - 1
      BY <1>4, <2>1, <2>2 DEF Backspace
    <2> QED
      BY <1>1, <1>2, <1>4, <2>1, <2>3 DEF Backspace
  <1>5. CASE StepUp
    <2>1. Len(history) > 0
      BY <1>1, <1>5, EmptySeq DEF StepUp, EditFits
    <2>2. historyPos' \in -1..(Len(history) - 1) /\ historyPos' + 1 \in 1..Len(history)
      BY <1>1, <1>5, <2>1 DEF StepUp
    <2>3. history[historyPos' + 1] \in Lines
      BY <1>1, <2>2, ElementOfSeq
    <2> QED
      BY <1>2, <1>5, <2>2, <2>3 DEF StepUp, ShowLine
  <1>6. CASE StepDown
    <2>1. historyPos' \in -1..(Len(history) - 1)
      BY <1>1, <1>6 DEF StepDown
    <2>2. ASSUME historyPos' >= 0
          PROVE  history[historyPos' + 1] \in Lines
      <3>1. \A p \in -1..(Len(history) - 1) : p >= 0 => p + 1 \in 1..Len(history)
        BY <1>1
      <3>2. historyPos' + 1 \in 1..Len(history)
        BY <2>1, <2>2, <3>1
      <3> QED
        BY <1>1, <3>2, ElementOfSeq
    <2>3. buffer' \in Lines /\ cursorCol' = Len(buffer')
      BY <1>1, <1>6, <2>2 DEF StepDown, ShowLine
    <2> QED
      BY <1>2, <2>1, <2>3
  <1>7. CASE MoveCursor
    <2>1. Len(buffer) \in Nat /\ buffer' = buffer /\ historyPos' = historyPos
      BY <1>1, <1>2, <1>7 DEF MoveCursor
    <2>2. cursorCol' \in 0..Len(buffer)
      BY <1>1, <1>7, <2>1 DEF MoveCursor, EditFits
    <2> QED
      BY <1>1, <2>1, <2>2
  <1> QED
    BY <1>3, <1>4, <1>5, <1>6, <1>7

LEMMA TypeStep ==
  ASSUME IInv, [Next]_vars
  PROVE  TypeOK'
  <1> USE DEF IInv, editVars, locks, ConsolePlaces, MainPlaces, LockedEdits, UnlockedEdits
  <1>1. CASE LoopTests \/ PrintDeletion \/ PushLogs \/ Await \/ IgnoreKey \/ Ask
    BY <1>1 DEF LoopTests, PrintDeletion, PushLogs, Await, IgnoreKey, Ask, TypeOK
  <1>2. CASE EndEdit
    <2>1. /\ buffer' \in Lines /\ cursorCol' \in 0..Len(buffer')
          /\ historyPos' \in -1..(Len(history) - 1)
      BY <1>2, EditKeeps DEF EndEdit
    <2> QED
      BY <1>2, <2>1 DEF EndEdit, TypeOK
  <1>3. CASE Delete
    <2>1. Len(buffer) \in Nat
      BY LinesAre, LenProperties DEF TypeOK
    <2>2. cursorCol \in 0..(Len(buffer) - 1)
      <3>1. cursorCol \in 0..Len(buffer) /\ cursorCol < Len(buffer)
        BY <1>3 DEF Delete, EditFits, TypeOK
      <3> QED
        BY <2>1, <3>1
    <2>3. buffer' \in Lines /\ Len(buffer') = Len(buffer) - 1
      BY <1>3, <2>2, Removed DEF Delete, TypeOK
    <2>4. cursorCol' \in 0..Len(buffer')
      BY <1>3, <2>2, <2>3 DEF Delete
    <2> QED
      BY <1>3, <2>3, <2>4 DEF Delete, TypeOK
  <1>4. CASE Enter
    <2>1. history' \in Seq(Lines) /\ Len(history') <= HistoryLimit /\ history' # <<>>
      BY <1>4, EnterHistory
    <2>2. Len(history') \in Nat /\ historyPos' = -1
      BY <1>4, <2>1, LenProperties DEF Enter
    <2>3. historyPos' \in -1..(Len(history') - 1)
      BY <2>2
    <2>4. buffer' \in Lines /\ cursorCol' \in 0..Len(buffer')
      BY <1>4, NoLine DEF Enter
    <2> QED
      BY <1>4, <2>1, <2>3, <2>4 DEF Enter, TypeOK
  <1>5. CASE Push
    <2>1. history # <<>>
      BY <1>5 DEF Push, EditFits
    <2>2. 1 \in 1..Len(history)
      <3>1. Len(history) \in Nat \ {0}
        BY <2>1, EmptySeq DEF TypeOK
      <3> QED
        BY <3>1
    <2>3. history[1] \in Lines
      BY <2>2, ElementOfSeq DEF TypeOK
    <2>4. queue' \in Seq(Lines)
      BY <1>5, <2>3, AppendProperties DEF Push, TypeOK
    <2> QED
      BY <1>5, <2>4 DEF Push, TypeOK
  <1>6. ASSUME NEW key \in LockedEdits, BeginEdit(key)
        PROVE  TypeOK'
    BY <1>6 DEF BeginEdit, SaveDraft, TypeOK
  <1>7. ASSUME NEW key \in UnlockedEdits, BeginUnlocked(key)
        PROVE  TypeOK'
    BY <1>7 DEF BeginUnlocked, TypeOK
  <1>8. CASE MainLogs \/ MainLocks \/ MainLogged \/ DrainBegins \/ AnswerBegins
               \/ AnswerPrints
    BY <1>8 DEF MainLogs, MainLocks, MainLogged, DrainBegins, AnswerBegins, AnswerPrints,
       TypeOK
  <1>9. CASE InputReturns
    <2>1. queue # <<>>
      BY <1>9 DEF InputReturns, Held, EditFits
    <2>2. queue' \in Seq(Lines)
      BY <1>9, <2>1, HeadTailProperties DEF InputReturns, TypeOK
    <2> QED
      BY <1>9, <2>2 DEF InputReturns, TypeOK
  <1>10. CASE Rewrite
    <2>1. PICK line \in Lines : buffer' = line /\ cursorCol' = Len(line)
      BY <1>10 DEF Rewrite, ShowLine
    <2>2. Len(line) \in 0..Len(line)
      BY <2>1, LinesAre, LenProperties
    <2> QED
      BY <1>10, <2>1, <2>2 DEF Rewrite, TypeOK
  <1>11. ASSUME NEW t \in Loggers, LoggerLogs(t) \/ LoggerLogged(t)
         PROVE  TypeOK'
    BY <1>11 DEF LoggerLogs, LoggerLogged, TypeOK
  <1>12. CASE Interrupt \/ UNCHANGED vars
    <2>1. TypeOK /\ UNCHANGED <<editVars, queue, awaiting, locks, at, main>>
      BY <1>12 DEF Interrupt, vars
    <2>2. shouldExit' \in BOOLEAN
      BY <1>12 DEF Interrupt, vars, TypeOK
    <2> HIDE DEF LockedEdits, UnlockedEdits, ConsolePlaces, MainPlaces, IInv
    <2> QED
      BY <2>1, <2>2 DEF TypeOK
  <1> QED
    BY <1>1, <1>2, <1>3, <1>4, <1>5, <1>6, <1>7, <1>8, <1>9, <1>10, <1>11, <1>12
       DEF Next, ConsoleGoesOn, ConsoleReads, MainGoesOn, MainTicks

-----------------------------------------------------------------------------
(* The mutexes and the edit under way.                                      *)

LEMMA HeldStep ==
  ASSUME IInv, [Next]_vars
  PROVE  Held'
  <1> USE DEF Held, editVars, locks, LockedEdits
  <1>0. Loggers \cap {"nobody", "console", "main"} = {} /\ Held
    BY EditorConstants DEF IInv
  <1>1. CASE LoopTests \/ PrintDeletion \/ PushLogs \/ Await \/ IgnoreKey \/ Ask
    BY <1>0, <1>1 DEF LoopTests, PrintDeletion, PushLogs, Await, IgnoreKey, Ask
  <1>2. CASE EndEdit
    <2>1. at \in LockedEdits
      BY <1>2 DEF EndEdit, Insert, Backspace, StepUp, StepDown, MoveCursor
    <2> QED
      BY <1>0, <1>2, <2>1 DEF EndEdit
  <1>3. CASE Delete \/ Enter \/ Push
    BY <1>0, <1>3 DEF Delete, Enter, Push
  <1>4. ASSUME NEW key \in LockedEdits, BeginEdit(key)
        PROVE  Held'
    BY <1>0, <1>4 DEF BeginEdit
  <1>5. ASSUME NEW key \in UnlockedEdits, BeginUnlocked(key)
        PROVE  Held'
    BY <1>0, <1>5 DEF BeginUnlocked, UnlockedEdits
  <1>6. CASE MainLogs \/ MainLocks \/ MainLogged
    BY <1>0, <1>6 DEF MainLogs, MainLocks, MainLogged
  <1>7. CASE DrainBegins \/ InputReturns
    BY <1>0, <1>7 DEF DrainBegins, InputReturns
  <1>8. CASE AnswerBegins \/ Rewrite \/ AnswerPrints
    BY <1>0, <1>8 DEF AnswerBegins, Rewrite, AnswerPrints
  <1>9. ASSUME NEW t \in Loggers, LoggerLogs(t) \/ LoggerLogged(t)
        PROVE  Held'
    BY <1>0, <1>9 DEF LoggerLogs, LoggerLogged
  <1>10. CASE Interrupt \/ UNCHANGED vars
    BY <1>0, <1>10 DEF Interrupt, vars
  <1> QED
    BY <1>1, <1>2, <1>3, <1>4, <1>5, <1>6, <1>7, <1>8, <1>9, <1>10
       DEF Next, ConsoleGoesOn, ConsoleReads, MainGoesOn, MainTicks

LEMMA AskedStep ==
  ASSUME IInv, [Next]_vars
  PROVE  Asked'
  <1> USE DEF Asked, editVars, locks
  <1>0. Asked
    BY DEF IInv
  <1>1. CASE at # "await"
    <2>1. ~awaiting /\ autoComplete # "main"
      BY <1>0, <1>1
    <2>2. CASE Ask
      BY <1>1, <2>1, <2>2 DEF Ask
    <2>3. CASE ~Ask
      <3>1. awaiting' = awaiting /\ autoComplete' \in {"nobody", autoComplete}
        BY <2>1, <2>3 DEF Next, ConsoleGoesOn, ConsoleReads, MainGoesOn, MainTicks, LoopTests,
           PrintDeletion, PushLogs, Await, IgnoreKey, EndEdit, Delete, Enter, Push, BeginEdit,
           BeginUnlocked, MainLogs, MainLocks, MainLogged, DrainBegins, InputReturns,
           AnswerBegins, Rewrite, AnswerPrints, LoggerLogs, LoggerLogged, Interrupt, vars
      <3> QED
        BY <2>1, <3>1
    <2> QED
      BY <2>2, <2>3
  <1>2. CASE at = "await"
    <2>1. CASE Await
      <3>1. autoComplete' # "main" /\ ~awaiting'
        BY <2>1 DEF Await
      <3> QED
        BY <3>1
    <2>2. CASE ~Await
      <3>1. at' = at
        BY <1>2, <2>2 DEF Next, ConsoleGoesOn, ConsoleReads, MainGoesOn, MainTicks, LoopTests,
           PrintDeletion, PushLogs, Ask, IgnoreKey, EndEdit, Insert, Backspace, StepUp, StepDown,
           MoveCursor, Delete, Enter, Push, BeginEdit, BeginUnlocked, MainLogs, MainLocks,
           MainLogged, DrainBegins, InputReturns, AnswerBegins, Rewrite, AnswerPrints,
           LoggerLogs, LoggerLogged, Interrupt, vars
      <3> QED
        BY <1>2, <3>1
    <2> QED
      BY <2>1, <2>2
  <1> QED
    BY <1>1, <1>2

LEMMA FitsStep ==
  ASSUME IInv, [Next]_vars
  PROVE  EditFits'
  <1> USE DEF EditFits, editVars, locks
  <1>0. EditFits /\ queue \in Seq(Lines)
    BY DEF IInv, TypeOK
  <1>1. CASE LoopTests \/ PrintDeletion \/ PushLogs \/ Await \/ IgnoreKey \/ Ask
    BY <1>0, <1>1 DEF LoopTests, PrintDeletion, PushLogs, Await, IgnoreKey, Ask
  <1>2. CASE EndEdit \/ Delete
    BY <1>0, <1>2 DEF EndEdit, Delete
  <1>3. CASE Enter
    <2>1. history' # <<>>
      BY <1>3, EnterHistory DEF IInv
    <2> QED
      BY <1>0, <1>3, <2>1 DEF Enter
  <1>4. CASE Push
    <2>1. history[1] \in Lines
      <3>1. history # <<>> /\ history \in Seq(Lines)
        BY <1>0, <1>4 DEF Push, IInv, TypeOK
      <3> QED
        BY <3>1, EmptySeq, ElementOfSeq
    <2>2. queue' # <<>>
      BY <1>0, <1>4, <2>1, AppendProperties DEF Push
    <2> QED
      BY <1>0, <1>4, <2>2 DEF Push
  <1>5. ASSUME NEW key \in LockedEdits, BeginEdit(key)
        PROVE  EditFits'
    BY <1>0, <1>5 DEF BeginEdit, Applies, LockedEdits
  <1>6. ASSUME NEW key \in UnlockedEdits, BeginUnlocked(key)
        PROVE  EditFits'
    BY <1>0, <1>6 DEF BeginUnlocked, Applies, UnlockedEdits
  <1>7. CASE MainLogs \/ MainLocks \/ MainLogged \/ DrainBegins \/ AnswerBegins
               \/ AnswerPrints
    BY <1>0, <1>7 DEF MainLogs, MainLocks, MainLogged, DrainBegins, AnswerBegins, AnswerPrints
  <1>8. CASE InputReturns
    <2>1. commands' = "main" => Len(queue) > 1
      BY <1>8 DEF InputReturns
    <2>2. Len(queue) > 1 => Tail(queue) # <<>>
      <3> SUFFICES ASSUME Len(queue) > 1
                   PROVE  Tail(queue) # <<>>
        OBVIOUS
      <3>1. queue # <<>>
        BY EmptySeq
      <3>2. Tail(queue) \in Seq(Lines) /\ Len(Tail(queue)) = Len(queue) - 1
        BY <1>0, <3>1, HeadTailProperties
      <3>3. Len(queue) - 1 # 0
        <4>1. Len(queue) \in Nat
          BY <1>0, LenProperties
        <4>2. \A n \in Nat : n > 1 => n - 1 # 0
          OBVIOUS
        <4> QED
          BY <4>1, <4>2
      <3>4. ASSUME NEW t \in Seq(Lines), Len(t) # 0
            PROVE  t # <<>>
        BY <3>4, EmptySeq
      <3> QED
        BY <3>2, <3>3, <3>4
    <2> QED
      BY <1>0, <1>8, <2>1, <2>2 DEF InputReturns
  <1>9. CASE Rewrite
    <2>1. at = "await"
      BY <1>9 DEF Rewrite, IInv, Held, Asked
    <2> QED
      BY <1>0, <1>9, <2>1 DEF Rewrite
  <1>10. ASSUME NEW t \in Loggers, LoggerLogs(t) \/ LoggerLogged(t)
         PROVE  EditFits'
    BY <1>0, <1>10 DEF LoggerLogs, LoggerLogged
  <1>11. CASE Interrupt \/ UNCHANGED vars
    BY <1>0, <1>11 DEF Interrupt, vars
  <1> QED
    BY <1>1, <1>2, <1>3, <1>4, <1>5, <1>6, <1>7, <1>8, <1>9, <1>10, <1>11
       DEF Next, ConsoleGoesOn, ConsoleReads, MainGoesOn, MainTicks

LEMMA InitInv == Init => IInv
  <1> SUFFICES ASSUME Init
               PROVE  IInv
    OBVIOUS
  <1>1. <<>> \in Seq(Lines) /\ Len(<<>>) = 0 /\ <<>> \in Lines /\ HistoryLimit \in Nat
    BY EmptySeq, NoLine, EditorConstants
  <1>2. Len(buffer) = 0 /\ Len(history) = 0
    BY <1>1 DEF Init
  <1>3. /\ cursorCol \in 0..Len(buffer) /\ historyPos \in -1..(Len(history) - 1)
        /\ Len(history) <= HistoryLimit
        /\ buffer \in Lines /\ draft \in Lines /\ history \in Seq(Lines) /\ queue \in Seq(Lines)
    BY <1>1, <1>2 DEF Init
  <1>4. at \in ConsolePlaces /\ main \in MainPlaces
    BY DEF Init, ConsolePlaces, MainPlaces
  <1>5. TypeOK
    <2>1. /\ awaiting \in BOOLEAN /\ shouldExit \in BOOLEAN
          /\ output = "nobody" /\ autoComplete = "nobody" /\ commands = "nobody"
      BY DEF Init
    <2> QED
      BY <1>3, <1>4, <2>1 DEF TypeOK
  <1>6. Held /\ Asked /\ EditFits
    BY DEF Init, Held, Asked, EditFits, LockedEdits
  <1> QED
    BY <1>5, <1>6 DEF IInv

LEMMA StepInv == IInv /\ [Next]_vars => IInv'
  BY TypeStep, HeldStep, AskedStep, FitsStep DEF IInv

LEMMA Invariant == Spec => []IInv
  BY InitInv, StepInv, PTL DEF Spec

\* For lines, histories and queues of every length: whatever the three threads do
\* between two steps of an edit, the cursor stays in the line and the position in
\* the history, and no step reads a character, a line or a command that is not
\* there.
THEOREM CursorInLine == Spec => []TypeOK
  <1>1. IInv => TypeOK
    BY DEF IInv
  <1> QED
    BY <1>1, Invariant, PTL

\* For any number of threads that log: no redraw of the line meets an edit under
\* way, except the three that change the line without outputMutex.
THEOREM RedrawsAreGuarded == Spec => []RacesAreKnown
  <1>1. IInv => RacesAreKnown
    BY EditorConstants DEF IInv, Held, RacesAreKnown, Redrawing
  <1> QED
    BY <1>1, Invariant, PTL

=============================================================================
