---------------------------- MODULE ConsoleEditor ----------------------------
(***************************************************************************)
(* The line editor of the server's terminal (console.cpp).  The console    *)
(* thread edits the buffer key by key; the main thread rewrites it when it *)
(* answers an autocompletion; whatever thread logs a line redraws it.      *)
(*                                                                         *)
(* The mutexes are taken and given back in steps of their own, so that an  *)
(* edit can be under way while others run.  A line is the characters it is *)
(* made of, a key is what its escape sequence stands for, and what only    *)
(* goes to the terminal is left out.  What the main thread does with a     *)
(* command or a completion is in HookDispatch.                             *)
(***************************************************************************)
EXTENDS Integers, Sequences

CONSTANTS
  Chars,         \* characters that are typed
  Loggers,       \* threads besides the main thread that call log
  HistoryLimit,  \* historyLimit (512)
  MaxLine,       \* bound: length of a line
  MaxQueue       \* bound: pending commands

ASSUME EditorConstants ==
  /\ HistoryLimit \in Nat \ {0} /\ MaxLine \in Nat /\ MaxQueue \in Nat
  /\ Loggers \cap {"nobody", "console", "main"} = {}

VARIABLES
  buffer, cursorCol,
  history, historyPos, draft,
  queue,         \* commandQueue
  awaiting,      \* awaitingAutoComplete
  shouldExit,
  output, autoComplete, commands,  \* the holders of the three mutexes
  at,            \* where the console thread is: a key is an edit under way
  main           \* where the main thread is

editVars == <<buffer, cursorCol, history, historyPos, draft>>
locks    == <<output, autoComplete, commands>>
vars     == <<editVars, queue, awaiting, shouldExit, locks, at, main>>

Lines == UNION {[1..n -> Chars] : n \in 0..MaxLine}

LockedEdits   == {"char", "backspace", "up", "down", "right", "left", "home", "end"}
UnlockedEdits == {"enter", "delete"}

ConsolePlaces == LockedEdits \cup UnlockedEdits \cup
  {"loop", "read", "print", "log", "push", "ask", "await", "ended"}
MainPlaces == {"tick", "to log", "log", "input", "input to log", "input log",
               "rewrite", "print"}

Init ==
  /\ buffer = <<>> /\ cursorCol = 0
  /\ history = <<>> /\ historyPos = -1
  /\ draft = <<>>
  /\ queue = <<>>
  /\ awaiting = FALSE /\ shouldExit = FALSE
  /\ output = "nobody" /\ autoComplete = "nobody" /\ commands = "nobody"
  /\ at = "loop" /\ main = "tick"

-----------------------------------------------------------------------------
(* The console thread.                                                      *)

LoopTests ==
  /\ at = "loop"
  /\ at' = IF shouldExit THEN "ended" ELSE "read"
  /\ UNCHANGED <<editVars, queue, awaiting, shouldExit, locks, main>>

\* Keys that do nothing here and now, and reads that end without a key.
IgnoreKey ==
  /\ at = "read"
  /\ at' = "loop"
  /\ UNCHANGED <<editVars, queue, awaiting, shouldExit, locks, main>>

Applies(key) ==
  CASE key = "char"                   -> Len(buffer) < MaxLine
    [] key \in {"backspace", "left"}  -> cursorCol > 0
    [] key \in {"right", "delete"}    -> cursorCol < Len(buffer)
    [] key \in {"up", "down"}         -> history # <<>>
    [] key = "enter"                  -> buffer # <<>> /\ Len(queue) < MaxQueue
    [] OTHER                          -> TRUE

\* The first step up saves the line, before outputMutex is taken.
SaveDraft(key) ==
  draft' = IF key = "up" /\ historyPos = -1 THEN buffer ELSE draft

\* Faulty: characters are inserted without outputMutex.
BeginEditUnlocked(key) ==
  /\ at = "read" /\ Applies(key)
  /\ at' = key
  /\ output' = output
  /\ SaveDraft(key)
  /\ UNCHANGED <<buffer, cursorCol, history, historyPos, queue, awaiting, shouldExit,
                 autoComplete, commands, main>>

BeginEdit(key) ==
  /\ at = "read" /\ Applies(key)
  /\ at' = key
  /\ output = "nobody" /\ output' = "console"
  /\ SaveDraft(key)
  /\ UNCHANGED <<buffer, cursorCol, history, historyPos, queue, awaiting, shouldExit,
                 autoComplete, commands, main>>

\* The line that stepping up or down ends at.
ShowLine(line) == buffer' = line /\ cursorCol' = Len(line)

Before(col) == SubSeq(buffer, 1, col)
From(col)   == SubSeq(buffer, col + 1, Len(buffer))

Insert ==
  /\ at = "char"
  /\ \E c \in Chars : buffer' = Before(cursorCol) \o <<c>> \o From(cursorCol)
  /\ cursorCol' = cursorCol + 1
  /\ UNCHANGED historyPos

Backspace ==
  /\ at = "backspace"
  /\ buffer' = Before(cursorCol - 1) \o From(cursorCol)
  /\ cursorCol' = cursorCol - 1
  /\ UNCHANGED historyPos

StepUp ==
  /\ at = "up"
  /\ historyPos' = IF historyPos + 1 > Len(history) - 1 THEN Len(history) - 1
                                                        ELSE historyPos + 1
  /\ ShowLine(history[historyPos' + 1])

StepDown ==
  /\ at = "down"
  /\ historyPos' = IF historyPos - 1 < -1 THEN -1 ELSE historyPos - 1
  /\ ShowLine(IF historyPos' >= 0 THEN history[historyPos' + 1] ELSE draft)

MoveCursor ==
  /\ at \in {"left", "right", "home", "end"}
  /\ cursorCol' = CASE at = "left"  -> cursorCol - 1
                    [] at = "right" -> cursorCol + 1
                    [] at = "home"  -> 0
                    [] at = "end"   -> Len(buffer)
  /\ UNCHANGED <<buffer, historyPos>>

EndEdit ==
  /\ Insert \/ Backspace \/ StepUp \/ StepDown \/ MoveCursor
  /\ at' = "loop"
  /\ output' = "nobody"
  /\ UNCHANGED <<history, draft, queue, awaiting, shouldExit, autoComplete,
                 commands, main>>

\* Enter and delete change the buffer without outputMutex.
BeginUnlocked(key) ==
  /\ at = "read" /\ Applies(key)
  /\ at' = key
  /\ UNCHANGED <<editVars, queue, awaiting, shouldExit, locks, main>>

Delete ==
  /\ at = "delete"
  /\ buffer' = Before(cursorCol) \o From(cursorCol + 1)
  /\ at' = "print"
  /\ UNCHANGED <<cursorCol, history, historyPos, draft, queue, awaiting,
                 shouldExit, locks, main>>

\* Under outputMutex for a moment.
PrintDeletion ==
  /\ at = "print" /\ output = "nobody"
  /\ at' = "loop"
  /\ UNCHANGED <<editVars, queue, awaiting, shouldExit, locks, main>>

\* The line goes to the front of the history unless it is there: it is pushed
\* to the queue from there.
Enter ==
  /\ at = "enter"
  /\ LET longer == IF history # <<>> /\ history[1] = buffer THEN history
                                                            ELSE <<buffer>> \o history
     IN  history' = IF Len(longer) > HistoryLimit THEN SubSeq(longer, 1, HistoryLimit)
                                                  ELSE longer
  /\ buffer' = <<>> /\ cursorCol' = 0 /\ historyPos' = -1
  /\ at' = "log"
  /\ UNCHANGED <<draft, queue, awaiting, shouldExit, locks, main>>

\* Faulty: pushCommand keeps outputMutex.
PushLogsKeeping ==
  /\ at = "log" /\ output = "nobody"
  /\ output' = "console"
  /\ at' = "push"
  /\ UNCHANGED <<editVars, queue, awaiting, shouldExit, autoComplete, commands, main>>

\* pushCommand logs first: outputMutex is free again when it ...
PushLogs ==
  /\ at = "log" /\ output = "nobody"
  /\ at' = "push"
  /\ UNCHANGED <<editVars, queue, awaiting, shouldExit, locks, main>>

\* ... takes commandQueueMutex.
Push ==
  /\ at = "push" /\ commands = "nobody"
  /\ queue' = Append(queue, history[1])
  /\ output' = IF output = "console" THEN "nobody" ELSE output
  /\ at' = "loop"
  /\ UNCHANGED <<editVars, awaiting, shouldExit, autoComplete, commands, main>>

\* Tab.
Ask ==
  /\ at = "read" /\ autoComplete = "nobody"
  /\ awaiting' = TRUE
  /\ at' = "await"
  /\ UNCHANGED <<editVars, queue, shouldExit, locks, main>>

\* Polls until it is answered.
Await ==
  /\ at = "await" /\ autoComplete = "nobody" /\ ~awaiting
  /\ at' = "loop"
  /\ UNCHANGED <<editVars, queue, awaiting, shouldExit, locks, main>>

-----------------------------------------------------------------------------
(* The main thread and others.                                              *)

\* log by the main thread, outside or inside a ConsoleInput handler: it comes
\* to the call, ...
MainLogs ==
  /\ main \in {"tick", "input"}
  /\ main' = IF main = "tick" THEN "to log" ELSE "input to log"
  /\ UNCHANGED <<editVars, queue, awaiting, shouldExit, locks, at>>

\* ... gets outputMutex ...
MainLocks ==
  /\ main \in {"to log", "input to log"} /\ output = "nobody"
  /\ output' = "main"
  /\ main' = IF main = "to log" THEN "log" ELSE "input log"
  /\ UNCHANGED <<editVars, queue, awaiting, shouldExit, autoComplete, commands, at>>

\* ... and gives it back.
MainLogged ==
  /\ main \in {"log", "input log"}
  /\ output' = "nobody"
  /\ main' = IF main = "log" THEN "tick" ELSE "input"
  /\ UNCHANGED <<editVars, queue, awaiting, shouldExit, autoComplete, commands, at>>

\* The tick's drain of the queue holds commandQueueMutex over the handlers.
DrainBegins ==
  /\ main = "tick" /\ commands = "nobody" /\ queue # <<>>
  /\ commands' = "main"
  /\ main' = "input"
  /\ UNCHANGED <<editVars, queue, awaiting, shouldExit, output, autoComplete, at>>

InputReturns ==
  /\ main = "input"
  /\ queue' = Tail(queue)
  /\ IF Len(queue) > 1 THEN UNCHANGED <<commands, main>>
                       ELSE commands' = "nobody" /\ main' = "tick"
  /\ UNCHANGED <<editVars, awaiting, shouldExit, output, autoComplete, at>>

\* respondToAutoComplete takes autoCompleteMutex ...
AnswerBegins ==
  /\ main = "tick" /\ autoComplete = "nobody" /\ awaiting
  /\ autoComplete' = "main"
  /\ awaiting' = FALSE
  /\ main' = "rewrite"
  /\ UNCHANGED <<editVars, queue, shouldExit, output, commands, at>>

\* Faulty: the cursor stays where it was.
RewriteKeepsCursor ==
  /\ main = "rewrite"
  /\ buffer' \in Lines
  /\ main' = "print"
  /\ UNCHANGED <<cursorCol, history, historyPos, draft, queue, awaiting,
                 shouldExit, locks, at>>

\* ... rewrites the line without outputMutex ...
Rewrite ==
  /\ main = "rewrite"
  /\ \E line \in Lines : ShowLine(line)
  /\ main' = "print"
  /\ UNCHANGED <<history, historyPos, draft, queue, awaiting, shouldExit, locks,
                 at>>

\* ... and takes it, while it holds the other, to print.
AnswerPrints ==
  /\ main = "print" /\ output = "nobody"
  /\ autoComplete' = "nobody"
  /\ main' = "tick"
  /\ UNCHANGED <<editVars, queue, awaiting, shouldExit, output, commands, at>>

\* print of a worker's script.
LoggerLogs(t) ==
  /\ output = "nobody" /\ output' = t
  /\ UNCHANGED <<editVars, queue, awaiting, shouldExit, autoComplete, commands, at, main>>

LoggerLogged(t) ==
  /\ output = t /\ output' = "nobody"
  /\ UNCHANGED <<editVars, queue, awaiting, shouldExit, autoComplete, commands, at, main>>

\* SIGINT.
Interrupt ==
  /\ shouldExit' = TRUE
  /\ UNCHANGED <<editVars, queue, awaiting, locks, at, main>>

-----------------------------------------------------------------------------
\* What the console thread does without a key.
ConsoleGoesOn ==
  LoopTests \/ EndEdit \/ Delete \/ PrintDeletion \/ Enter \/ PushLogs \/ Push \/ Await

ConsoleReads ==
  \/ IgnoreKey \/ Ask
  \/ \E key \in LockedEdits : BeginEdit(key)
  \/ \E key \in UnlockedEdits : BeginUnlocked(key)

MainGoesOn == MainLocks \/ MainLogged \/ InputReturns \/ Rewrite \/ AnswerPrints

MainTicks == MainLogs \/ DrainBegins \/ AnswerBegins

Next ==
  \/ ConsoleGoesOn \/ ConsoleReads
  \/ MainGoesOn \/ MainTicks
  \/ \E t \in Loggers : LoggerLogs(t) \/ LoggerLogged(t)
  \/ Interrupt

Spec == Init /\ [][Next]_vars

\* Threads go on; one that waits for a mutex gets it in the end if it is free
\* again and again; ConsoleInput handlers return, and the tick comes by the
\* autocompletion.
FairSpec ==
  /\ Spec
  /\ SF_vars(ConsoleGoesOn)
  /\ SF_vars(MainGoesOn) /\ SF_vars(InputReturns) /\ SF_vars(AnswerBegins)
  /\ \A t \in Loggers : WF_vars(LoggerLogged(t))

-----------------------------------------------------------------------------
(* Properties.                                                              *)

\* Types; the cursor is in the line, the position in the history.
TypeOK ==
  /\ buffer \in Lines /\ draft \in Lines
  /\ cursorCol \in 0..Len(buffer)
  /\ history \in Seq(Lines) /\ Len(history) <= HistoryLimit
  /\ historyPos \in -1..(Len(history) - 1)
  /\ queue \in Seq(Lines)
  /\ awaiting \in BOOLEAN /\ shouldExit \in BOOLEAN
  /\ output \in {"nobody", "console", "main"} \cup Loggers
  /\ autoComplete \in {"nobody", "main"} /\ commands \in {"nobody", "main"}
  /\ at \in ConsolePlaces /\ main \in MainPlaces

\* A redraw reads the buffer under outputMutex.  No edit is under way then,
\* but for the three that do not take it: enter, delete and the answer of an
\* autocompletion.
Redrawing == output \in Loggers \cup {"main"}

RacesAreKnown == Redrawing => at \notin LockedEdits

\* Whatever holds which mutex, the console thread gets to its next key.
KeysHandled == at \notin {"read", "ended"} ~> at \in {"read", "ended"}

=============================================================================
