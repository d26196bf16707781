------------------------- MODULE ChildProcess_proofs -------------------------
(***************************************************************************)
(* Proofs about ChildProcess, for pipes and messages of every size.        *)
(*                                                                         *)
(* The messages of one way are laid out in a row: the message whose length *)
(* the receiver has just read, the cells in the pipe, and the part that is *)
(* written next.  As long as no receive has come short, and no write was   *)
(* cut, each cell of that row fixes all that follow (InOrder).             *)
(***************************************************************************)
EXTENDS ChildProcess, SequenceTheorems, TLAPS

CellType == [m: Nat, size: Nat, part: Nat]

TypeOK ==
  /\ pipe \in [Ways -> Seq(CellType)]
  /\ writing \in [Ways -> CellType]
  /\ reading \in [Ways -> [m: Nat, want: Nat] \cup {None}]
  /\ sent \in [Ways -> Nat] /\ received \in [Ways -> Nat]
  /\ short \in [Ways -> BOOLEAN] /\ garbage \in [Ways -> BOOLEAN]
  /\ child \in {"running", "dead", "reaped"}
  /\ gotExitCode \in BOOLEAN /\ open \in BOOLEAN

\* A begun message has the next number, and is the last one sent from when its
\* length is written; a small body is not written in pieces.
WritingOK(w) ==
  Writing(w) =>
    /\ writing[w].part <= writing[w].size /\ writing[w].m > 0
    /\ writing[w].m = IF writing[w].part = 0 THEN sent[w] + 1 ELSE sent[w]
    /\ writing[w].size <= Small => writing[w].part <= 1

\* A process that is gone is in no call, nor is the parent after terminate.
CallersLive ==
  /\ Writing("to parent") => child = "running"
  /\ Reading("to child") => child = "running"
  /\ Reading("to parent") => open

-----------------------------------------------------------------------------
(* The row of cells.                                                        *)

FirstAt(w) == IF Reading(w) THEN 0 ELSE 1
LastAt(w)  == IF Writing(w) THEN Len(pipe[w]) + 1 ELSE Len(pipe[w])

CellAt(w, i) == IF i = 0 THEN Cell(reading[w].m, reading[w].want, 0)
                ELSE IF i = Len(pipe[w]) + 1 THEN writing[w]
                ELSE pipe[w][i]

\* d is n cells behind c.
After(c, d, n) ==
  IF c.part + n <= c.size
  THEN d = Cell(c.m, c.size, c.part + n)
  ELSE /\ d.m > c.m
       /\ c.part + n = c.size + 1 => d.part = 0 /\ d.m = c.m + 1

InOrder(w) ==
  \A i, j \in FirstAt(w)..LastAt(w) :
    i < j => After(CellAt(w, i), CellAt(w, j), j - i)

\* The row begins with the length of the message to be received next.
StartsNext(w) ==
  FirstAt(w) <= LastAt(w) =>
    CellAt(w, FirstAt(w)).part = 0 /\ CellAt(w, FirstAt(w)).m = received[w] + 1

\* Unless its writer is at it, or dead, the last message is there as a whole.
WriterLives(w) == w = "to child" \/ child = "running"

EndsWhole(w) ==
  ~Writing(w) /\ WriterLives(w) =>
    \A i \in FirstAt(w)..LastAt(w) :
      LET c == CellAt(w, i)
          n == LastAt(w) - i
      IN  /\ c.part + n >= c.size
          /\ c.part + n = c.size => c.m = sent[w]

\* The lengths in the row, but for one that is yet to be written, are those of
\* the messages sent and not received.
HasLength(w, m) ==
  \E i \in FirstAt(w)..Len(pipe[w]) : CellAt(w, i).part = 0 /\ CellAt(w, i).m = m

NoneMissing(w) ==
  /\ received[w] <= sent[w]
  /\ \A m \in Nat : HasLength(w, m) <=> m \in (received[w] + 1)..sent[w]
  /\ \A i \in FirstAt(w)..Len(pipe[w]) : CellAt(w, i).m <= sent[w]

InStep(w) == Listening(w) /\ ~short[w]

StreamOK(w) ==
  ~garbage[w] /\ InOrder(w) /\ StartsNext(w) /\ EndsWhole(w) /\ NoneMissing(w)

IInv ==
  /\ TypeOK /\ CallersLive
  /\ \A w \in Ways : WritingOK(w) /\ (InStep(w) => StreamOK(w))

-----------------------------------------------------------------------------
(* What a step does to one way.                                             *)

\* A message is begun.
Begins(w) ==
  /\ ~Writing(w) /\ WriterLives(w)
  /\ \E size \in Nat : writing'[w] = Cell(sent[w] + 1, size, 0)
  /\ pipe'[w] = pipe[w] /\ reading'[w] = reading[w] /\ sent'[w] = sent[w]
  /\ received'[w] = received[w] /\ short'[w] = short[w] /\ garbage'[w] = garbage[w]

\* n more cells of it are written.
Puts(w, n) ==
  /\ Writing(w) /\ writing[w].part + n <= writing[w].size + 1
  /\ writing[w].part = 0 => n = 1
  /\ writing[w].part > 0 /\ writing[w].size <= Small =>
       writing[w].part + n = writing[w].size + 1
  /\ pipe'[w] \in Seq(CellType) /\ Len(pipe'[w]) = Len(pipe[w]) + n
  /\ \A i \in 1..Len(pipe[w]) : pipe'[w][i] = pipe[w][i]
  /\ \A i \in 1..n : pipe'[w][Len(pipe[w]) + i] =
                       Cell(writing[w].m, writing[w].size, writing[w].part + i - 1)
  /\ writing'[w] = IF writing[w].part + n > writing[w].size THEN Idle
                   ELSE Cell(writing[w].m, writing[w].size, writing[w].part + n)
  /\ sent'[w] = IF writing[w].part = 0 THEN sent[w] + 1 ELSE sent[w]
  /\ reading'[w] = reading[w] /\ received'[w] = received[w]
  /\ short'[w] = short[w] /\ garbage'[w] = garbage[w]

\* A caller is gone: nobody listens any more, or the writer is dead.
Stops(w) ==
  /\ writing'[w] \in {Idle, writing[w]} /\ reading'[w] \in {None, reading[w]}
  /\ \/ ~Listening(w)'
     \/ ~WriterLives(w)' /\ reading'[w] = reading[w] /\ writing'[w] = Idle
  /\ pipe'[w] = pipe[w] /\ sent'[w] = sent[w]
  /\ received'[w] = received[w] /\ short'[w] = short[w] /\ garbage'[w] = garbage[w]

\* A write that waits for room is cut.
Cuts(w) ==
  /\ w = "to child" /\ ~HasRoom(w)
  /\ Writing(w) /\ writing'[w] = Idle
  /\ IF writing[w].part > 0 THEN short'[w] ELSE short'[w] = short[w]
  /\ pipe'[w] = pipe[w] /\ reading'[w] = reading[w] /\ sent'[w] = sent[w]
  /\ received'[w] = received[w] /\ garbage'[w] = garbage[w]

\* The first cell is taken for a length.
TakesLength(w) ==
  /\ ~Reading(w) /\ pipe[w] # <<>>
  /\ pipe'[w] = Tail(pipe[w])
  /\ \/ pipe[w][1].part = 0 /\ reading'[w] = [m |-> pipe[w][1].m, want |-> pipe[w][1].size]
     \/ pipe[w][1].part # 0 /\ reading'[w] \in [m: {0}, want: Nat]
  /\ writing'[w] = writing[w] /\ sent'[w] = sent[w]
  /\ received'[w] = received[w] /\ short'[w] = short[w] /\ garbage'[w] = garbage[w]

\* The first n cells are taken, for a body if there are enough.
TakesBody(w, n) ==
  /\ Reading(w) /\ n <= Len(pipe[w]) /\ n <= reading[w].want
  /\ pipe'[w] \in Seq(CellType) /\ Len(pipe'[w]) = Len(pipe[w]) - n
  /\ \A i \in 1..(Len(pipe[w]) - n) : pipe'[w][i] = pipe[w][i + n]
  /\ reading'[w] = None
  /\ \/ n < reading[w].want /\ n = Len(pipe[w]) /\ short'[w]
       /\ received'[w] = received[w] /\ garbage'[w] = garbage[w]
     \/ /\ n = reading[w].want /\ short'[w] = short[w]
        /\ LET whole == /\ reading[w].m # 0
                        /\ \A i \in 1..n : pipe[w][i].m = reading[w].m /\ pipe[w][i].part = i
           IN  IF whole THEN received'[w] = reading[w].m /\ garbage'[w] = garbage[w]
               ELSE received'[w] = received[w] /\ garbage'[w]
  /\ writing'[w] = writing[w] /\ sent'[w] = sent[w]

Rests(w) ==
  /\ pipe'[w] = pipe[w] /\ writing'[w] = writing[w] /\ reading'[w] = reading[w]
  /\ sent'[w] = sent[w] /\ received'[w] = received[w]
  /\ short'[w] = short[w] /\ garbage'[w] = garbage[w]

WayMove(w) ==
  \/ Begins(w) \/ Cuts(w) \/ Stops(w) \/ TakesLength(w) \/ Rests(w)
  \/ \E n \in Nat \ {0} : Puts(w, n)
  \/ \E n \in Nat : TakesBody(w, n)

\* What is over stays over.
LivesFall ==
  /\ child' = "running" => child = "running"
  /\ open' => open

\* The facts of TypeOK about one way.
LEMMA WayTyped ==
  ASSUME TypeOK, NEW w \in Ways
  PROVE  /\ pipe[w] \in Seq(CellType) /\ Len(pipe[w]) \in Nat
         /\ \A i \in 1..Len(pipe[w]) : pipe[w][i] \in CellType
         /\ writing[w] \in CellType /\ sent[w] \in Nat /\ received[w] \in Nat
         /\ Reading(w) => reading[w] \in [m: Nat, want: Nat]
         /\ short[w] \in BOOLEAN /\ garbage[w] \in BOOLEAN
  BY LenProperties DEF TypeOK, Reading

LEMMA CellParts ==
  ASSUME NEW c \in CellType, NEW k \in Nat
  PROVE  /\ [c EXCEPT !.part = k] = Cell(c.m, c.size, k)
         /\ Cell(c.m, c.size, k) \in CellType
         /\ Cell(c.m, c.size, k).m = c.m /\ Cell(c.m, c.size, k).size = c.size
         /\ Cell(c.m, c.size, k).part = k
         /\ c.m \in Nat /\ c.size \in Nat /\ c.part \in Nat
  BY DEF CellType, Cell

\* Writing the length, or a piece of the body, or all of a small one.
LEMMA WriteLengthPuts ==
  ASSUME TypeOK, NEW w \in Ways, WritingOK(w), WriteLength(w)
  PROVE  Puts(w, 1)
  <1>1. /\ pipe[w] \in Seq(CellType) /\ writing[w] \in CellType /\ writing[w].part = 0
        /\ writing[w] = Cell(writing[w].m, writing[w].size, 0) /\ Len(pipe[w]) \in Nat
    BY WayTyped DEF WriteLength, CellType, Cell
  <1>2. /\ pipe'[w] = Append(pipe[w], writing[w]) /\ sent'[w] = sent[w] + 1
        /\ reading'[w] = reading[w] /\ received'[w] = received[w]
        /\ short'[w] = short[w] /\ garbage'[w] = garbage[w]
    BY DEF WriteLength, TypeOK
  <1>3. writing'[w] = IF 1 > writing[w].size THEN Idle
                      ELSE Cell(writing[w].m, writing[w].size, 1)
    <2>1. writing'[w] = LET next == [writing[w] EXCEPT !.part = writing[w].part + 1]
                        IN  IF next.part > next.size THEN Idle ELSE next
      BY DEF WriteLength, Proceed, TypeOK
    <2>2. writing[w].part + 1 = 1 /\ 1 \in Nat
      BY <1>1
    <2>3. [writing[w] EXCEPT !.part = 1] = Cell(writing[w].m, writing[w].size, 1)
      BY <1>1, <2>2, CellParts
    <2>4. /\ Cell(writing[w].m, writing[w].size, 1).part = 1
          /\ Cell(writing[w].m, writing[w].size, 1).size = writing[w].size
      BY <1>1, <2>2, CellParts
    <2> QED
      BY <2>1, <2>2, <2>3, <2>4
  <1>4. /\ pipe'[w] \in Seq(CellType) /\ Len(pipe'[w]) = Len(pipe[w]) + 1
        /\ pipe'[w][Len(pipe[w]) + 1] = writing[w]
        /\ \A i \in 1..Len(pipe[w]) : pipe'[w][i] = pipe[w][i]
    BY <1>1, <1>2, AppendProperties
  <1>5. \A i \in 1..1 : i = 1 /\ writing[w].part + i - 1 = 0
    BY <1>1
  <1>6. writing[w].size \in Nat /\ writing[w].part + 1 = 1 /\ 1 <= writing[w].size + 1
    BY <1>1 DEF CellType
  <1>7. Writing(w)
    BY DEF WriteLength
  <1> QED
    BY <1>1, <1>2, <1>3, <1>4, <1>5, <1>6, <1>7 DEF Puts

LEMMA WriteBodyPuts ==
  ASSUME TypeOK, NEW w \in Ways, WritingOK(w), WriteBody(w)
  PROVE  \E n \in Nat \ {0} : Puts(w, n)
  <1> DEFINE now == writing[w]
             n == NextCells(w)
             cells == [i \in 1..n |-> [now EXCEPT !.part = @ + i - 1]]
  <1>1. /\ pipe[w] \in Seq(CellType) /\ now \in CellType /\ Len(pipe[w]) \in Nat
        /\ Writing(w) /\ now.part > 0 /\ now.part <= now.size
        /\ now.size <= Small => now.part = 1
    <2>1. pipe[w] \in Seq(CellType) /\ now \in CellType /\ Len(pipe[w]) \in Nat
      BY WayTyped
    <2>2. Writing(w) /\ now.part > 0
      BY DEF WriteBody
    <2> QED
      BY <2>1, <2>2 DEF WritingOK, CellType
  <1>2. /\ now.m \in Nat /\ now.size \in Nat /\ now.part \in Nat
        /\ n \in Nat \ {0} /\ now.part + n <= now.size + 1
        /\ now.size <= Small => now.part + n = now.size + 1
    BY <1>1 DEF CellType, NextCells
  <1>3. /\ pipe'[w] = pipe[w] \o cells
        /\ sent'[w] = sent[w] /\ reading'[w] = reading[w] /\ received'[w] = received[w]
        /\ short'[w] = short[w] /\ garbage'[w] = garbage[w]
    BY DEF WriteBody, TypeOK
  <1>4. writing'[w] = IF now.part + n > now.size THEN Idle
                      ELSE Cell(now.m, now.size, now.part + n)
    <2>1. writing'[w] = LET next == [now EXCEPT !.part = @ + n]
                        IN  IF next.part > next.size THEN Idle ELSE next
      BY DEF WriteBody, Proceed, TypeOK
    <2> HIDE DEF n, now
    <2>2. now.part + n \in Nat
      BY <1>2
    <2> QED
      BY <2>1, <2>2, <1>1, CellParts
  <1> HIDE DEF n
  <1>5. /\ \A i \in 1..n : cells[i] = Cell(now.m, now.size, now.part + i - 1)
        /\ cells \in [1..n -> CellType]
    <2>1. \A i \in 1..n : now.part + i - 1 \in Nat
      BY <1>1, <1>2
    <2>2. ASSUME NEW i \in 1..n
          PROVE  /\ cells[i] = Cell(now.m, now.size, now.part + i - 1)
                 /\ cells[i] \in CellType
      <3>1. cells[i] = [now EXCEPT !.part = now.part + i - 1]
        OBVIOUS
      <3> HIDE DEF now, cells
      <3> QED
        BY <1>1, <2>1, <3>1, CellParts
    <2> QED
      BY <2>2
  <1>6. cells \in Seq(CellType) /\ Len(cells) = n
    <2>1. cells \in Seq(CellType)
      BY <1>2, <1>5, IsASeq
    <2>2. DOMAIN cells = 1..n
      OBVIOUS
    <2> QED
      BY <1>2, <2>1, <2>2, LenProperties
  <1> HIDE DEF cells
  <1>7. /\ pipe'[w] \in Seq(CellType) /\ Len(pipe'[w]) = Len(pipe[w]) + n
        /\ \A i \in 1..Len(pipe[w]) : pipe'[w][i] = pipe[w][i]
        /\ \A i \in 1..n : pipe'[w][Len(pipe[w]) + i] = cells[i]
    <2>1. /\ pipe'[w] \in Seq(CellType) /\ Len(pipe'[w]) = Len(pipe[w]) + n
          /\ \A i \in 1..(Len(pipe[w]) + n) :
               pipe'[w][i] = IF i <= Len(pipe[w]) THEN pipe[w][i]
                             ELSE cells[i - Len(pipe[w])]
      <3>1. pipe[w] \in Seq(CellType) /\ cells \in Seq(CellType)
        BY <1>1, <1>6
      <3>2. /\ pipe[w] \o cells \in Seq(CellType)
            /\ Len(pipe[w] \o cells) = Len(pipe[w]) + Len(cells)
            /\ \A i \in 1..(Len(pipe[w]) + Len(cells)) :
                 (pipe[w] \o cells)[i] = IF i <= Len(pipe[w]) THEN pipe[w][i]
                                         ELSE cells[i - Len(pipe[w])]
        BY <3>1, ConcatProperties
      <3> QED
        BY <1>3, <1>6, <3>2
    <2>2. \A i \in 1..n : /\ Len(pipe[w]) + i \in 1..(Len(pipe[w]) + n)
                          /\ ~(Len(pipe[w]) + i <= Len(pipe[w]))
                          /\ Len(pipe[w]) + i - Len(pipe[w]) = i
      BY <1>1, <1>2
    <2>3. \A i \in 1..Len(pipe[w]) : i \in 1..(Len(pipe[w]) + n) /\ i <= Len(pipe[w])
      BY <1>1, <1>2
    <2> QED
      BY <2>1, <2>2, <2>3
  <1> QED
    <2>1. Puts(w, n)
      BY <1>1, <1>2, <1>3, <1>4, <1>5, <1>7 DEF Puts
    <2> QED
      BY <1>2, <2>1

LEMMA ReadLengthTakes ==
  ASSUME TypeOK, NEW w \in Ways, ReadLength(w)
  PROVE  TakesLength(w)
  <1>1. /\ pipe[w] # <<>> /\ Head(pipe[w]) = pipe[w][1] /\ pipe'[w] = Tail(pipe[w])
        /\ writing'[w] = writing[w] /\ sent'[w] = sent[w]
        /\ received'[w] = received[w] /\ short'[w] = short[w] /\ garbage'[w] = garbage[w]
    BY WayTyped, HeadTailProperties DEF ReadLength, TypeOK
  <1>2. ~Reading(w)
    BY DEF ReadLength, MayReceive, ChildFree, ParentFree, Ways
  <1>3. 0..MaxBody \subseteq Nat
    BY ChildConstants
  <1>4. \/ pipe[w][1].part = 0 /\ reading'[w] = [m |-> pipe[w][1].m, want |-> pipe[w][1].size]
        \/ pipe[w][1].part # 0 /\ reading'[w] \in [m: {0}, want: Nat]
    BY <1>1, <1>3 DEF ReadLength, TypeOK
  <1> QED
    BY <1>1, <1>2, <1>4 DEF TakesLength

LEMMA ReadBodyTakes ==
  ASSUME TypeOK, NEW w \in Ways, ReadBody(w)
  PROVE  \E n \in Nat : TakesBody(w, n)
  <1> DEFINE n == IF reading[w].want < Len(pipe[w]) THEN reading[w].want ELSE Len(pipe[w])
  <1>1. /\ Reading(w) /\ reading[w].want \in Nat /\ Len(pipe[w]) \in Nat
        /\ n \in Nat /\ n <= Len(pipe[w]) /\ n <= reading[w].want
        /\ n < reading[w].want => n = Len(pipe[w])
        /\ \A i \in 1..Len(pipe[w]) : pipe[w][i] \in CellType
    BY WayTyped DEF ReadBody
  <1>2. Taken(w) = SubSeq(pipe[w], 1, n)
    BY DEF Taken
  <1> HIDE DEF n
  <1>3. /\ Taken(w) \in Seq(CellType) /\ Len(Taken(w)) = n
        /\ \A i \in 1..n : Taken(w)[i] = pipe[w][i]
    <2>1. \A i \in 1..n : pipe[w][i] \in CellType
      BY <1>1
    <2>2. /\ Taken(w) \in Seq(CellType) /\ Len(Taken(w)) = IF 1 <= n THEN n - 1 + 1 ELSE 0
          /\ \A i \in 1..(n - 1 + 1) : Taken(w)[i] = pipe[w][1 + i - 1]
      BY <1>1, <1>2, <2>1, SubSeqProperties
    <2>3. \A i \in 1..n : i \in 1..(n - 1 + 1) /\ 1 + i - 1 = i
      BY <1>1
    <2>4. Len(Taken(w)) = n
      BY <1>1, <2>2
    <2> QED
      BY <2>2, <2>3, <2>4
  <1>4. IsBody(w) <=> /\ reading[w].m # 0
                      /\ \A i \in 1..n : pipe[w][i].m = reading[w].m /\ pipe[w][i].part = i
    BY <1>3, LenProperties DEF IsBody
  <1>5. /\ pipe'[w] \in Seq(CellType) /\ Len(pipe'[w]) = Len(pipe[w]) - n
        /\ \A i \in 1..(Len(pipe[w]) - n) : pipe'[w][i] = pipe[w][i + n]
    <2> DEFINE len == Len(pipe[w])
               rest == SubSeq(pipe[w], n + 1, len)
    <2>1. pipe'[w] = rest
      BY <1>3 DEF ReadBody, TypeOK
    <2>2. n + 1 \in Int /\ len \in Int /\ \A i \in (n + 1)..len : pipe[w][i] \in CellType
      BY <1>1
    <2>3. /\ rest \in Seq(CellType)
          /\ Len(rest) = IF n + 1 <= len THEN len - (n + 1) + 1 ELSE 0
          /\ \A i \in 1..(len - (n + 1) + 1) : rest[i] = pipe[w][n + 1 + i - 1]
      BY <2>2, SubSeqProperties
    <2>4. \A i \in 1..(len - n) : i \in 1..(len - (n + 1) + 1) /\ n + 1 + i - 1 = i + n
      BY <1>1
    <2>5. Len(rest) = len - n
      BY <1>1, <2>3
    <2> QED
      BY <2>1, <2>3, <2>4, <2>5
  <1>6. /\ reading'[w] = None /\ writing'[w] = writing[w] /\ sent'[w] = sent[w]
    BY DEF ReadBody, TypeOK
  <1>7. CASE n < reading[w].want
    <2>1. short'[w] = TRUE /\ received'[w] = received[w] /\ garbage'[w] = garbage[w]
      BY <1>1, <1>3, <1>7 DEF ReadBody, TypeOK
    <2> QED
      BY <1>1, <1>5, <1>6, <1>7, <2>1 DEF TakesBody
  <1>8. CASE n = reading[w].want
    <2>1. /\ short'[w] = short[w]
          /\ IF IsBody(w) THEN received'[w] = reading[w].m /\ garbage'[w] = garbage[w]
             ELSE received'[w] = received[w] /\ garbage'[w] = TRUE
      BY <1>1, <1>3, <1>8 DEF ReadBody, TypeOK
    <2> QED
      BY <1>1, <1>4, <1>5, <1>6, <1>8, <2>1 DEF TakesBody
  <1> QED
    BY <1>1, <1>7, <1>8

\* A step on the other way leaves this one alone.
LEMMA OthersRest ==
  ASSUME TypeOK, NEW v \in Ways, NEW w \in Ways, v # w, Transfer(v)
  PROVE  Rests(w)
  <1>1. CASE BeginSend(v) \/ WriteLength(v) \/ BrokenPipe(v) \/ WriteInterrupted(v)
    BY <1>1 DEF BeginSend, WriteLength, Proceed, BrokenPipe, WriteInterrupted, Rests, TypeOK
  <1>2. CASE WriteBody(v)
    BY <1>2 DEF WriteBody, Proceed, Rests, TypeOK
  <1>3. CASE ReadLength(v)
    BY <1>3 DEF ReadLength, Rests, TypeOK
  <1>4. CASE ReadBody(v)
    BY <1>4 DEF ReadBody, Rests, TypeOK
  <1> QED
    BY <1>1, <1>2, <1>3, <1>4 DEF Transfer

LEMMA EveryStepMoves ==
  ASSUME TypeOK, CallersLive, NEW w \in Ways, WritingOK(w), [Next]_vars
  PROVE  WayMove(w) /\ LivesFall
  <1> USE DEF lifeVars
  <1>1. ASSUME NEW v \in Ways, Transfer(v)
        PROVE  LivesFall
    <2>1. CASE WriteInterrupted(v)
      BY <2>1 DEF WriteInterrupted, LivesFall
    <2> QED
      BY <1>1, <2>1 DEF Transfer, BeginSend, WriteLength, WriteBody, BrokenPipe, ReadLength,
         ReadBody, LivesFall
  <1>2. ASSUME Transfer(w)
        PROVE  WayMove(w)
    <2>1. CASE BeginSend(w)
      <3>1. ~Writing(w) /\ WriterLives(w)
        BY <2>1 DEF BeginSend, MaySend, ParentFree, ChildFree, WriterLives, Ways
      <3>2. 0..MaxBody \subseteq Nat
        BY ChildConstants
      <3>3. \E size \in Nat : writing'[w] = Cell(sent[w] + 1, size, 0)
        BY <2>1, <3>2 DEF BeginSend, TypeOK
      <3>4. Begins(w)
        BY <2>1, <3>1, <3>3 DEF BeginSend, Begins
      <3> QED
        BY <3>4 DEF WayMove
    <2>2. CASE BrokenPipe(w)
      <3>1. ~Listening(w)'
        BY <2>2 DEF BrokenPipe, Listening
      <3> QED
        BY <2>2, <3>1 DEF BrokenPipe, Stops, WayMove, TypeOK
    <2>3. CASE WriteLength(w) \/ WriteBody(w)
      <3>1. 1 \in Nat \ {0}
        OBVIOUS
      <3> QED
        BY <2>3, <3>1, WriteLengthPuts, WriteBodyPuts DEF WayMove
    <2>4. CASE ReadLength(w) \/ ReadBody(w)
      BY <2>4, ReadLengthTakes, ReadBodyTakes DEF WayMove
    <2>5. CASE WriteInterrupted(w)
      BY <2>5 DEF WriteInterrupted, Cuts, WayMove, TypeOK
    <2> QED
      BY <1>2, <2>1, <2>2, <2>3, <2>4, <2>5 DEF Transfer
  <1>3. ASSUME NEW v \in Ways, v # w, Transfer(v)
        PROVE  WayMove(w)
    BY <1>3, OthersRest DEF WayMove
  <1>4. CASE ChildExits \/ (Terminate /\ child # "reaped")
    <2>1. ChildStops /\ child' # "running" /\ LivesFall
      BY <1>4 DEF ChildExits, Terminate, LivesFall
    <2>2. CASE w = "to child"
      <3>1. ~Listening(w)'
        BY <2>1, <2>2 DEF Listening
      <3> QED
        BY <2>1, <2>2, <3>1 DEF ChildStops, Stops, WayMove, TypeOK
    <2>3. CASE w = "to parent"
      <3>1. ~WriterLives(w)'
        BY <2>1, <2>3 DEF WriterLives
      <3>2. writing'[w] = Idle /\ reading'[w] = reading[w]
        BY <2>1, <2>3 DEF ChildStops, TypeOK
      <3> QED
        BY <2>1, <3>1, <3>2 DEF ChildStops, Stops, WayMove
    <2> QED
      BY <2>1, <2>2, <2>3 DEF Ways
  <1>5. CASE IsRunning \/ (Terminate /\ child = "reaped") \/ Terminated \/ UNCHANGED vars
    BY <1>5 DEF IsRunning, Terminate, Terminated, vars, streamVars, Rests, WayMove, LivesFall
  <1> QED
    BY <1>1, <1>2, <1>3, <1>4, <1>5 DEF Next

LEMMA TypeStep ==
  ASSUME TypeOK, \A w \in Ways : WritingOK(w), [Next]_vars
  PROVE  TypeOK'
  <1> USE DEF lifeVars
  <1>0. Idle \in CellType /\ None = [m |-> 0, want |-> -1]
    BY DEF Idle, Cell, CellType, None
  <1>1. ASSUME NEW w \in Ways, BeginSend(w)
        PROVE  TypeOK'
    <2>1. 0..MaxBody \subseteq Nat /\ sent[w] + 1 \in Nat
      BY ChildConstants, WayTyped
    <2>2. \A size \in 0..MaxBody : Cell(sent[w] + 1, size, 0) \in CellType
      BY <2>1 DEF Cell, CellType
    <2>3. writing' \in [Ways -> CellType]
      BY <1>1, <2>2 DEF BeginSend, TypeOK
    <2> QED
      BY <1>1, <2>3 DEF BeginSend, TypeOK
  <1>2. ASSUME NEW w \in Ways, WriteLength(w) \/ WriteBody(w)
        PROVE  TypeOK'
    <2>1. PICK n \in Nat \ {0} : Puts(w, n)
      <3>1. 1 \in Nat \ {0}
        OBVIOUS
      <3> QED
        BY <1>2, <3>1, WriteLengthPuts, WriteBodyPuts
    <2>2. /\ pipe'[w] \in Seq(CellType) /\ writing'[w] \in {Idle} \cup CellType
          /\ sent'[w] \in Nat
      <3>1. writing[w] \in CellType /\ sent[w] \in Nat
        BY WayTyped
      <3>2. writing[w].part + n \in Nat
        BY <3>1, <2>1 DEF CellType
      <3>3. Cell(writing[w].m, writing[w].size, writing[w].part + n) \in CellType
        BY <3>1, <3>2, CellParts
      <3> QED
        BY <2>1, <3>1, <3>3 DEF Puts
    <2>3. /\ \E x : pipe' = [pipe EXCEPT ![w] = x]
          /\ \E x : writing' = [writing EXCEPT ![w] = x]
          /\ \E x : sent' = [sent EXCEPT ![w] = x]
      BY <1>2 DEF WriteLength, WriteBody, Proceed, TypeOK
    <2>4. /\ pipe' \in [Ways -> Seq(CellType)] /\ writing' \in [Ways -> CellType]
          /\ sent' \in [Ways -> Nat]
      BY <1>0, <2>2, <2>3 DEF TypeOK
    <2>5. UNCHANGED <<reading, received, short, garbage, child, gotExitCode, open>>
      BY <1>2 DEF WriteLength, WriteBody
    <2> QED
      BY <2>4, <2>5 DEF TypeOK
  <1>3. ASSUME NEW w \in Ways, BrokenPipe(w)
        PROVE  TypeOK'
    BY <1>0, <1>3 DEF BrokenPipe, TypeOK
  <1>4. ASSUME NEW w \in Ways, ReadLength(w)
        PROVE  TypeOK'
    <2>1. /\ pipe[w] # <<>> /\ pipe[w] \in Seq(CellType)
          /\ pipe' = [pipe EXCEPT ![w] = Tail(@)]
      BY <1>4, WayTyped DEF ReadLength
    <2>2. Tail(pipe[w]) \in Seq(CellType) /\ Head(pipe[w]) \in CellType
      BY <2>1, HeadTailProperties
    <2>3. pipe' \in [Ways -> Seq(CellType)]
      BY <2>1, <2>2 DEF TypeOK
    <2>4. 0..MaxBody \subseteq Nat
      BY ChildConstants
    <2>5. reading' \in [Ways -> [m: Nat, want: Nat] \cup {None}]
      <3>1. [m |-> Head(pipe[w]).m, want |-> Head(pipe[w]).size] \in [m: Nat, want: Nat]
        BY <2>2 DEF CellType
      <3>2. \A any \in 0..MaxBody : [m |-> 0, want |-> any] \in [m: Nat, want: Nat]
        BY <2>4
      <3>3. \E r \in [m: Nat, want: Nat] : reading' = [reading EXCEPT ![w] = r]
        BY <1>4, <3>1, <3>2 DEF ReadLength
      <3> QED
        BY <3>3 DEF TypeOK
    <2> QED
      BY <1>4, <2>3, <2>5 DEF ReadLength, TypeOK
  <1>5. ASSUME NEW w \in Ways, ReadBody(w)
        PROVE  TypeOK'
    <2>1. \E n \in Nat : TakesBody(w, n)
      BY <1>5, ReadBodyTakes
    <2>2. pipe'[w] \in Seq(CellType)
      BY <2>1 DEF TakesBody
    <2>3. \E x : pipe' = [pipe EXCEPT ![w] = x]
      BY <1>5 DEF ReadBody
    <2>4. pipe' \in [Ways -> Seq(CellType)]
      BY <2>2, <2>3 DEF TypeOK
    <2>5. reading[w].m \in Nat
      BY <1>5, WayTyped DEF ReadBody
    <2>6. /\ received' \in [Ways -> Nat] /\ short' \in [Ways -> BOOLEAN]
          /\ garbage' \in [Ways -> BOOLEAN]
          /\ reading' \in [Ways -> [m: Nat, want: Nat] \cup {None}]
      BY <1>5, <2>5 DEF ReadBody, TypeOK
    <2> QED
      BY <1>5, <2>4, <2>6 DEF ReadBody, TypeOK
  <1>6. CASE ChildExits \/ IsRunning \/ Terminate \/ Terminated \/ UNCHANGED vars
    BY <1>0, <1>6 DEF ChildExits, IsRunning, Terminate, Terminated, ChildStops, vars,
       streamVars, TypeOK
  <1>7. ASSUME NEW w \in Ways, WriteInterrupted(w)
        PROVE  TypeOK'
    BY <1>0, <1>7 DEF WriteInterrupted, TypeOK
  <1> QED
    BY <1>1, <1>2, <1>3, <1>4, <1>5, <1>6, <1>7 DEF Next, Transfer

LEMMA CallersStep ==
  ASSUME TypeOK, CallersLive, [Next]_vars
  PROVE  CallersLive'
  <1> USE DEF lifeVars, CallersLive, Writing, Reading
  <1>1. ASSUME NEW w \in Ways, BeginSend(w)
        PROVE  CallersLive'
    BY <1>1 DEF BeginSend, MaySend, ParentFree, ChildFree, TypeOK, Ways
  <1>2. ASSUME NEW w \in Ways,
               WriteLength(w) \/ WriteBody(w) \/ BrokenPipe(w) \/ WriteInterrupted(w)
        PROVE  CallersLive'
    BY <1>2 DEF WriteLength, WriteBody, BrokenPipe, WriteInterrupted, Proceed, TypeOK, Ways
  <1>3. ASSUME NEW w \in Ways, ReadLength(w)
        PROVE  CallersLive'
    BY <1>3 DEF ReadLength, MayReceive, ParentFree, ChildFree, TypeOK, Ways
  <1>4. ASSUME NEW w \in Ways, ReadBody(w)
        PROVE  CallersLive'
    BY <1>4 DEF ReadBody, TypeOK, Ways
  <1>5. CASE ChildExits \/ IsRunning \/ Terminate \/ Terminated \/ UNCHANGED vars
    BY <1>5 DEF ChildExits, IsRunning, Terminate, Terminated, ChildStops, ParentFree, vars,
       streamVars, TypeOK, Ways
  <1> QED
    BY <1>1, <1>2, <1>3, <1>4, <1>5 DEF Next, Transfer

-----------------------------------------------------------------------------
(* The row is kept in order.                                                *)

LEMMA RowTyped ==
  ASSUME TypeOK, NEW w \in Ways
  PROVE  /\ FirstAt(w) \in {0, 1} /\ LastAt(w) \in Nat /\ Len(pipe[w]) \in Nat
         /\ LastAt(w) \in {Len(pipe[w]), Len(pipe[w]) + 1}
         /\ Writing(w) <=> LastAt(w) = Len(pipe[w]) + 1
         /\ Reading(w) <=> FirstAt(w) = 0
         /\ \A i \in FirstAt(w)..LastAt(w) :
              /\ CellAt(w, i) \in CellType
              /\ CellAt(w, i).m \in Nat /\ CellAt(w, i).size \in Nat
              /\ CellAt(w, i).part \in Nat
  <1>1. /\ FirstAt(w) \in {0, 1} /\ LastAt(w) \in Nat /\ Len(pipe[w]) \in Nat
        /\ LastAt(w) \in {Len(pipe[w]), Len(pipe[w]) + 1}
        /\ Writing(w) <=> LastAt(w) = Len(pipe[w]) + 1
        /\ Reading(w) <=> FirstAt(w) = 0
    BY WayTyped DEF FirstAt, LastAt
  <1>2. ASSUME NEW i \in FirstAt(w)..LastAt(w)
        PROVE  CellAt(w, i) \in CellType
    <2>1. CASE i = 0
      BY <1>1, <2>1, WayTyped DEF CellAt, Cell, CellType
    <2>2. CASE i # 0
      BY <1>1, <2>2, WayTyped DEF CellAt
    <2> QED
      BY <2>1, <2>2
  <1> QED
    BY <1>1, <1>2 DEF CellType

LEMMA AfterThen ==
  ASSUME NEW c \in CellType, NEW d \in CellType, NEW n \in Nat, NEW k \in Nat,
         After(c, d, n), d.part + k <= d.size
  PROVE  After(c, Cell(d.m, d.size, d.part + k), n + k)
  <1>1. /\ c.m \in Nat /\ c.size \in Nat /\ c.part \in Nat
        /\ d.m \in Nat /\ d.size \in Nat /\ d.part \in Nat
    BY DEF CellType
  <1>2. CASE k = 0
    <2>1. d.part + k = d.part /\ n + k = n
      BY <1>1, <1>2
    <2>2. Cell(d.m, d.size, d.part) = d
      BY DEF Cell, CellType
    <2> QED
      BY <2>1, <2>2
  <1>3. CASE k > 0
    <2>1. CASE c.part + n <= c.size
      <3>1. d.m = c.m /\ d.size = c.size /\ d.part = c.part + n
        BY <2>1 DEF After, Cell
      <3>2. c.part + (n + k) = d.part + k
        BY <1>1, <3>1
      <3> QED
        BY <3>1, <3>2 DEF After
    <2>2. CASE ~(c.part + n <= c.size)
      <3>1. d.m > c.m
        BY <2>2 DEF After
      <3>2. c.part + (n + k) > c.size + 1
        BY <1>1, <1>3, <2>2
      <3>3. ~(c.part + (n + k) <= c.size) /\ c.part + (n + k) # c.size + 1
        BY <1>1, <3>2
      <3>4. Cell(d.m, d.size, d.part + k).m = d.m
        BY DEF Cell
      <3> QED
        BY <3>1, <3>3, <3>4 DEF After
    <2> QED
      BY <2>1, <2>2
  <1> QED
    BY <1>2, <1>3

\* The row loses its first cells: what is left keeps its order and its end.
LEMMA RowShifts ==
  ASSUME TypeOK, TypeOK', NEW w \in Ways, InOrder(w), EndsWhole(w), NEW d \in Nat,
         FirstAt(w) <= FirstAt(w)' + d, LastAt(w)' = LastAt(w) - d,
         \A i \in FirstAt(w)'..LastAt(w)' : CellAt(w, i)' = CellAt(w, i + d),
         sent'[w] = sent[w], writing'[w] = writing[w],
         WriterLives(w)' => WriterLives(w)
  PROVE  InOrder(w)' /\ EndsWhole(w)'
  <1>1. /\ FirstAt(w) \in Nat /\ LastAt(w) \in Nat
        /\ FirstAt(w)' \in Nat /\ LastAt(w)' \in Nat
    <2>1. FirstAt(w) \in Nat /\ LastAt(w) \in Nat
      BY RowTyped
    <2>2. FirstAt(w)' \in Nat /\ LastAt(w)' \in Nat
      BY LenProperties DEF TypeOK, FirstAt, LastAt
    <2> QED
      BY <2>1, <2>2
  <1>2. \A i \in FirstAt(w)'..LastAt(w)' :
          i + d \in FirstAt(w)..LastAt(w) /\ CellAt(w, i)' = CellAt(w, i + d)
    BY <1>1
  <1>3. ASSUME NEW i \in FirstAt(w)'..LastAt(w)', NEW j \in FirstAt(w)'..LastAt(w)', i < j
        PROVE  After(CellAt(w, i), CellAt(w, j), j - i)'
    <2>1. i + d < j + d /\ (j + d) - (i + d) = j - i
      BY <1>1, <1>3
    <2>2. After(CellAt(w, i + d), CellAt(w, j + d), j - i)
      BY <1>2, <2>1 DEF InOrder
    <2> QED
      BY <1>2, <2>2 DEF After
  <1>4. EndsWhole(w)'
    <2> SUFFICES ASSUME ~Writing(w)', WriterLives(w)', NEW i \in FirstAt(w)'..LastAt(w)'
                 PROVE  /\ CellAt(w, i)'.part + (LastAt(w)' - i) >= CellAt(w, i)'.size
                        /\ CellAt(w, i)'.part + (LastAt(w)' - i) = CellAt(w, i)'.size =>
                             CellAt(w, i)'.m = sent'[w]
      BY DEF EndsWhole
    <2>1. ~Writing(w) /\ WriterLives(w)
      BY DEF Writing
    <2>2. LastAt(w) - (i + d) = LastAt(w)' - i
      BY <1>1
    <2> QED
      BY <1>2, <2>1, <2>2 DEF EndsWhole
  <1> QED
    BY <1>3, <1>4 DEF InOrder

LEMMA BeginsKeeps ==
  ASSUME TypeOK, TypeOK', NEW w \in Ways, StreamOK(w), Begins(w)
  PROVE  StreamOK(w)'
  <1> DEFINE len == Len(pipe[w])
             new == writing'[w]
  <1>1. /\ FirstAt(w)' = FirstAt(w) /\ FirstAt(w) \in {0, 1} /\ len \in Nat
        /\ LastAt(w) = len /\ LastAt(w)' = len + 1
        /\ sent[w] \in Nat /\ received[w] \in Nat
        /\ new.m = sent[w] + 1 /\ new.part = 0 /\ Writing(w)'
    <2>1. sent[w] \in Nat /\ received[w] \in Nat
      BY WayTyped
    <2>2. new.m = sent[w] + 1 /\ new.part = 0
      BY DEF Begins, Cell
    <2>3. Writing(w)'
      BY <2>1, <2>2 DEF Writing, Idle, Cell
    <2>4. Len(pipe[w]) \in Nat /\ FirstAt(w) \in {0, 1}
      BY RowTyped
    <2> QED
      BY <2>1, <2>2, <2>3, <2>4 DEF Begins, FirstAt, LastAt, Reading
  <1>2. /\ \A i \in FirstAt(w)..len : CellAt(w, i)' = CellAt(w, i)
        /\ \A i \in Nat : i = len + 1 => CellAt(w, i)' = new
    BY <1>1 DEF Begins, CellAt
  <1>3. \A i \in FirstAt(w)..len :
          /\ CellAt(w, i) \in CellType /\ CellAt(w, i).m \in Nat
          /\ CellAt(w, i).size \in Nat /\ CellAt(w, i).part \in Nat
          /\ CellAt(w, i).m <= sent[w]
    BY <1>1, RowTyped DEF StreamOK, NoneMissing
  <1>4. ASSUME NEW i \in FirstAt(w)..len
        PROVE  After(CellAt(w, i), new, len + 1 - i)
    <2> DEFINE c == CellAt(w, i)
    <2>1. c.part + (len - i) >= c.size /\ (c.part + (len - i) = c.size => c.m = sent[w])
      BY <1>1 DEF StreamOK, EndsWhole, Begins
    <2>2. c.m \in Nat /\ c.size \in Nat /\ c.part \in Nat /\ c.m <= sent[w]
      BY <1>3
    <2> HIDE DEF c
    <2>3. ~(c.part + (len + 1 - i) <= c.size)
      BY <1>1, <2>1, <2>2
    <2>4. c.part + (len + 1 - i) = c.size + 1 => c.m = sent[w]
      <3>1. c.part \in Int /\ c.size \in Int /\ len \in Int /\ i \in Int
        BY <1>1, <2>2
      <3> HIDE DEF len, new
      <3>2. c.part + (len + 1 - i) = c.size + 1 => c.part + (len - i) = c.size
        BY ONLY <3>1
      <3> QED
        BY <2>1, <3>2
    <2>5. After(c, new, len + 1 - i)
      BY <1>1, <2>2, <2>3, <2>4 DEF After
    <2> QED
      BY <2>5 DEF c
  <1>5. InOrder(w)'
    <2> SUFFICES ASSUME NEW i \in FirstAt(w)'..LastAt(w)', NEW j \in FirstAt(w)'..LastAt(w)',
                        i < j
                 PROVE  After(CellAt(w, i), CellAt(w, j), j - i)'
      BY DEF InOrder
    <2>1. CASE j = len + 1
      <3>1. i \in FirstAt(w)..len
        BY <1>1, <2>1
      <3>2. CellAt(w, i)' = CellAt(w, i) /\ CellAt(w, j)' = new
        BY <1>2, <2>1, <3>1
      <3>3. After(CellAt(w, i), new, j - i)
        BY <1>4, <2>1, <3>1
      <3> HIDE DEF new
      <3> QED
        BY <3>2, <3>3 DEF After
    <2>2. CASE j # len + 1
      <3>1. i \in FirstAt(w)..len /\ j \in FirstAt(w)..len
        BY <1>1, <2>2
      <3>2. After(CellAt(w, i), CellAt(w, j), j - i)
        BY <1>1, <3>1 DEF StreamOK, InOrder
      <3> QED
        BY <1>2, <3>1, <3>2 DEF After
    <2> QED
      BY <2>1, <2>2
  <1>6. StartsNext(w)'
    <2>1. CASE FirstAt(w) <= len
      BY <1>1, <1>2, <2>1 DEF Begins, StreamOK, StartsNext
    <2>2. CASE ~(FirstAt(w) <= len)
      <3>1. FirstAt(w) = len + 1
        BY <1>1, <2>2
      <3>2. \A m \in Nat : ~HasLength(w, m)
        BY <1>1, <2>2 DEF HasLength
      <3>3. received[w] = sent[w]
        BY <1>1, <3>2 DEF StreamOK, NoneMissing
      <3> QED
        BY <1>1, <1>2, <3>1, <3>3 DEF Begins, StartsNext
    <2> QED
      BY <2>1, <2>2
  <1>7. NoneMissing(w)'
    <2>1. /\ pipe'[w] = pipe[w] /\ sent'[w] = sent[w] /\ received'[w] = received[w]
      BY DEF Begins
    <2>2. \A m \in Nat : HasLength(w, m)' <=> HasLength(w, m)
      BY <1>1, <1>2, <2>1 DEF HasLength
    <2> QED
      BY <1>1, <1>2, <2>1, <2>2 DEF StreamOK, NoneMissing
  <1> QED
    BY <1>1, <1>5, <1>6, <1>7 DEF StreamOK, EndsWhole, Begins

\* Of a message cut before its length is written nothing is left.
LEMMA CutsKeeps ==
  ASSUME TypeOK, TypeOK', NEW w \in Ways, WritingOK(w), StreamOK(w), Cuts(w),
         writing[w].part = 0
  PROVE  StreamOK(w)'
  <1> DEFINE len == Len(pipe[w])
  <1>0. /\ Writing(w) /\ writing'[w] = Idle
        /\ pipe'[w] = pipe[w] /\ reading'[w] = reading[w] /\ sent'[w] = sent[w]
        /\ received'[w] = received[w] /\ garbage'[w] = garbage[w]
    BY DEF Cuts
  <1>1. /\ FirstAt(w)' = FirstAt(w) /\ FirstAt(w) \in {0, 1} /\ len \in Nat
        /\ LastAt(w) = len + 1 /\ LastAt(w)' = len
        /\ sent[w] \in Nat /\ writing[w].m = sent[w] + 1
        /\ CellAt(w, len + 1) = writing[w]
    <2>1. ~Writing(w)'
      BY <1>0 DEF Writing
    <2>2. Len(pipe[w]) \in Nat /\ FirstAt(w) \in {0, 1} /\ sent[w] \in Nat
      BY RowTyped, WayTyped
    <2>3. Writing(w) /\ writing[w].m = sent[w] + 1
      BY <1>0 DEF WritingOK
    <2> QED
      BY <1>0, <2>1, <2>2, <2>3 DEF FirstAt, LastAt, Reading, CellAt
  <1>2. \A i \in FirstAt(w)..len : CellAt(w, i)' = CellAt(w, i)
    BY <1>0, <1>1 DEF CellAt
  <1>3. ASSUME NEW i \in FirstAt(w)..len
        PROVE  /\ CellAt(w, i).part + (len - i) >= CellAt(w, i).size
               /\ CellAt(w, i).part + (len - i) = CellAt(w, i).size => CellAt(w, i).m = sent[w]
    <2> DEFINE c == CellAt(w, i)
    <2>1. After(c, writing[w], len + 1 - i)
      BY <1>1 DEF StreamOK, InOrder
    <2>2. /\ c.m \in Nat /\ c.size \in Nat /\ c.part \in Nat /\ i \in Int
          /\ len + 1 - i > 0
      BY <1>1, RowTyped
    <2> HIDE DEF c, len
    <2>3. ~(c.part + (len + 1 - i) <= c.size)
      <3>1. c.part + (len + 1 - i) # 0
        BY <1>1, <2>2
      <3> QED
        BY <2>1, <3>1 DEF After, Cell
    <2>4. c.part + (len - i) >= c.size
      BY <1>1, <2>2, <2>3
    <2>5. ASSUME c.part + (len - i) = c.size
          PROVE  c.m = sent[w]
      <3>1. c.part + (len + 1 - i) = c.size + 1
        BY <1>1, <2>2, <2>5
      <3>2. writing[w].m = c.m + 1
        BY <2>1, <2>3, <3>1 DEF After
      <3> QED
        BY <1>1, <2>2, <3>2
    <2> QED
      BY <2>4, <2>5 DEF c
  <1>4. InOrder(w)'
    <2> SUFFICES ASSUME NEW i \in FirstAt(w)'..LastAt(w)', NEW j \in FirstAt(w)'..LastAt(w)',
                        i < j
                 PROVE  After(CellAt(w, i), CellAt(w, j), j - i)'
      BY DEF InOrder
    <2>1. i \in FirstAt(w)..len /\ j \in FirstAt(w)..len
      BY <1>1
    <2>2. After(CellAt(w, i), CellAt(w, j), j - i)
      BY <1>1, <2>1 DEF StreamOK, InOrder
    <2> QED
      BY <1>2, <2>1, <2>2 DEF After
  <1>5. EndsWhole(w)'
    BY <1>0, <1>1, <1>2, <1>3 DEF EndsWhole
  <1>6. StartsNext(w)'
    BY <1>0, <1>1, <1>2 DEF StreamOK, StartsNext
  <1>7. NoneMissing(w)'
    <2>1. \A m \in Nat : HasLength(w, m)' <=> HasLength(w, m)
      BY <1>0, <1>1, <1>2 DEF HasLength
    <2> QED
      BY <1>0, <1>1, <1>2, <2>1 DEF StreamOK, NoneMissing
  <1> QED
    BY <1>0, <1>4, <1>5, <1>6, <1>7 DEF StreamOK

\* The cells that are written come behind the ones before as their message goes on.
LEMMA PutsRow ==
  ASSUME TypeOK, TypeOK', NEW w \in Ways, WritingOK(w), NEW n \in Nat \ {0}, Puts(w, n)
  PROVE  LET len == Len(pipe[w])
             now == writing[w]
         IN  /\ LastAt(w) = len + 1 /\ FirstAt(w)' = FirstAt(w)
             /\ Writing(w)' <=> now.part + n <= now.size
             /\ LastAt(w)' = IF now.part + n <= now.size THEN len + n + 1 ELSE len + n
             /\ now.m \in Nat /\ now.size \in Nat /\ now.part \in Nat
             /\ now \in CellType /\ now = CellAt(w, len + 1)
             /\ \A i \in FirstAt(w)..len : CellAt(w, i)' = CellAt(w, i)
             /\ \A k, i \in Nat : i = len + k + 1 /\ i <= LastAt(w)' =>
                  /\ CellAt(w, i)' = Cell(now.m, now.size, now.part + k)
                  /\ now.part + k <= now.size
  <1> DEFINE len == Len(pipe[w])
             now == writing[w]
  <1>1. /\ len \in Nat /\ now \in CellType
        /\ now.m \in Nat /\ now.size \in Nat /\ now.part \in Nat /\ now.m > 0
        /\ now.part + n <= now.size + 1
    BY WayTyped DEF Puts, WritingOK, CellType
  <1>2. Writing(w)' <=> now.part + n <= now.size
    BY <1>1 DEF Puts, Writing, Idle, Cell
  <1>3. FirstAt(w)' = FirstAt(w) /\ FirstAt(w) \in {0, 1} /\ LastAt(w) = len + 1
    BY DEF Puts, FirstAt, LastAt, Reading
  <1>4. LastAt(w)' = IF now.part + n <= now.size THEN len + n + 1 ELSE len + n
    BY <1>2 DEF Puts, LastAt
  <1>5. now = CellAt(w, len + 1)
    BY <1>1 DEF CellAt
  <1>6. \A i \in FirstAt(w)..len : CellAt(w, i)' = CellAt(w, i)
    BY <1>1, <1>3 DEF Puts, CellAt
  <1>7. ASSUME NEW k \in Nat, NEW i \in Nat, i = len + k + 1, i <= LastAt(w)'
        PROVE  CellAt(w, i)' = Cell(now.m, now.size, now.part + k) /\ now.part + k <= now.size
    <2>1. now.part + k <= now.size
      <3> HIDE DEF len, now
      <3>1. CASE now.part + n <= now.size
        BY <1>1, <1>4, <1>7, <3>1
      <3>2. CASE ~(now.part + n <= now.size)
        BY <1>1, <1>4, <1>7, <3>2
      <3> QED
        BY <3>1, <3>2
    <2>2. CASE k < n
      <3>1. k + 1 \in 1..n /\ now.part + (k + 1) - 1 = now.part + k /\ i = len + (k + 1)
        <4>1. k \in Nat /\ n \in Nat /\ len \in Nat /\ now.part \in Nat /\ k < n /\ i = len + k + 1
          BY <1>1, <1>7, <2>2
        <4> HIDE DEF len, now
        <4> QED
          BY ONLY <4>1
      <3>2. pipe'[w][i] = Cell(now.m, now.size, now.part + k)
        BY <3>1 DEF Puts
      <3>3. Len(pipe'[w]) = len + n
        BY DEF Puts
      <3>4. i # 0 /\ i # Len(pipe'[w]) + 1
        BY <1>1, <1>7, <2>2, <3>3
      <3> QED
        BY <2>1, <3>2, <3>4 DEF CellAt
    <2>3. CASE ~(k < n)
      <3>1. k = n /\ now.part + n <= now.size
        BY <1>1, <1>4, <1>7, <2>3
      <3>2. writing'[w] = Cell(now.m, now.size, now.part + k)
        <4>1. ~(now.part + n > now.size)
          BY <1>1, <3>1
        <4> QED
          BY <3>1, <4>1 DEF Puts
      <3>3. i = Len(pipe'[w]) + 1 /\ i # 0
        BY <1>1, <1>7, <3>1 DEF Puts
      <3> QED
        BY <2>1, <3>2, <3>3 DEF CellAt
    <2> QED
      BY <2>2, <2>3
  <1> QED
    BY <1>1, <1>2, <1>3, <1>4, <1>5, <1>6, <1>7

LEMMA PutsKeeps ==
  ASSUME TypeOK, TypeOK', NEW w \in Ways, WritingOK(w), StreamOK(w),
         NEW n \in Nat \ {0}, Puts(w, n)
  PROVE  StreamOK(w)'
  <1> DEFINE len == Len(pipe[w])
             now == writing[w]
             last == LastAt(w)'
  <1>1. /\ LastAt(w) = len + 1 /\ FirstAt(w)' = FirstAt(w)
        /\ FirstAt(w) \in {0, 1} /\ len \in Nat
        /\ sent[w] \in Nat /\ received[w] \in Nat
        /\ last = IF now.part + n <= now.size THEN len + n + 1 ELSE len + n
        /\ now.m \in Nat /\ now.size \in Nat /\ now.part \in Nat
        /\ now \in CellType /\ now = CellAt(w, len + 1)
        /\ now.part + n <= now.size + 1
    BY PutsRow, RowTyped, WayTyped DEF Puts
  <1>2. /\ \A i \in FirstAt(w)..len : CellAt(w, i)' = CellAt(w, i)
        /\ \A k, i \in Nat : i = len + k + 1 /\ i <= LastAt(w)' =>
             /\ CellAt(w, i)' = Cell(now.m, now.size, now.part + k)
             /\ now.part + k <= now.size
    BY PutsRow
  <1>10. /\ Writing(w)' <=> now.part + n <= now.size
        /\ Len(pipe'[w]) = len + n
    BY PutsRow DEF Puts
  <1> HIDE DEF len, now
  <1>3. /\ last \in Nat /\ last >= len + 1 /\ len + n <= last
        /\ ~Writing(w)' => last = len + n /\ now.part + n = now.size + 1
    <2>1. CASE now.part + n <= now.size
      BY <1>1, <1>10, <2>1
    <2>2. CASE ~(now.part + n <= now.size)
      BY <1>1, <1>10, <2>2
    <2> QED
      BY <2>1, <2>2
  <1>4. /\ now.m = IF now.part = 0 THEN sent[w] + 1 ELSE sent[w]
        /\ sent'[w] = IF now.part = 0 THEN sent[w] + 1 ELSE sent[w]
        /\ received'[w] = received[w] /\ sent'[w] = now.m
        /\ now.part = 0 => n = 1
    BY DEF Puts, WritingOK, now
  <1>5. \A i \in FirstAt(w)..len :
          /\ CellAt(w, i) \in CellType /\ CellAt(w, i).m \in Nat
          /\ CellAt(w, i).size \in Nat /\ CellAt(w, i).part \in Nat
          /\ After(CellAt(w, i), now, len + 1 - i)
          /\ CellAt(w, i).m <= sent[w]
    <2>1. \A i \in FirstAt(w)..len :
            i \in FirstAt(w)..LastAt(w) /\ len + 1 \in FirstAt(w)..LastAt(w) /\ i < len + 1
      BY <1>1
    <2>2. \A i \in FirstAt(w)..len : After(CellAt(w, i), now, len + 1 - i)
      <3>1. \A i \in FirstAt(w)..len : After(CellAt(w, i), CellAt(w, len + 1), (len + 1) - i)
        BY <2>1 DEF StreamOK, InOrder
      <3> QED
        BY <1>1, <3>1
    <2> QED
      BY <2>1, <2>2, RowTyped DEF StreamOK, NoneMissing, len
  <1>6. InOrder(w)'
    <2> SUFFICES ASSUME NEW i \in FirstAt(w)..last, NEW j \in FirstAt(w)..last, i < j
                 PROVE  After(CellAt(w, i)', CellAt(w, j)', j - i)
      BY <1>1 DEF InOrder, After
    <2>1. CASE j <= len
      BY <1>1, <1>2, <1>3, <2>1 DEF StreamOK, InOrder
    <2>2. CASE j > len
      <3> DEFINE k == j - (len + 1)
      <3>1. k \in Nat /\ j \in Nat /\ i \in Nat /\ j = len + k + 1
        BY <1>1, <1>3, <2>2
      <3> HIDE DEF k
      <3>2. CellAt(w, j)' = Cell(now.m, now.size, now.part + k) /\ now.part + k <= now.size
        BY <1>2, <1>3, <3>1
      <3>3. CASE i <= len
        <4>1. i \in FirstAt(w)..len /\ len + 1 - i \in Nat /\ (len + 1 - i) + k = j - i
          BY <1>1, <1>3, <3>1, <3>3
        <4>2. After(CellAt(w, i), now, len + 1 - i) /\ CellAt(w, i) \in CellType
          BY <1>5, <4>1
        <4>3. After(CellAt(w, i), Cell(now.m, now.size, now.part + k), (len + 1 - i) + k)
          BY <1>1, <3>1, <3>2, <4>1, <4>2, AfterThen
        <4> QED
          BY <1>2, <3>2, <4>1, <4>3
      <3>4. CASE i > len
        <4> DEFINE h == i - (len + 1)
                   c == Cell(now.m, now.size, now.part + h)
        <4>1. h \in Nat /\ i = len + h + 1 /\ h <= k
          BY <1>1, <1>3, <3>1, <3>4
        <4> HIDE DEF h
        <4>2. CellAt(w, i)' = c
          BY <1>2, <1>3, <3>1, <4>1
        <4>3. (now.part + h) + (j - i) = now.part + k
          BY <1>1, <3>1, <4>1
        <4>4. c.m = now.m /\ c.size = now.size /\ c.part = now.part + h
          BY DEF Cell
        <4> QED
          BY <3>2, <4>2, <4>3, <4>4 DEF After
      <3> QED
        BY <1>1, <3>1, <3>3, <3>4
    <2> QED
      BY <1>1, <1>3, <2>1, <2>2
  <1>7. StartsNext(w)'
    <2>1. CellAt(w, FirstAt(w)).part = 0 /\ CellAt(w, FirstAt(w)).m = received[w] + 1
      BY <1>1 DEF StreamOK, StartsNext
    <2>2. CellAt(w, FirstAt(w))' = CellAt(w, FirstAt(w))
      <3>1. CASE FirstAt(w) <= len
        BY <1>1, <1>2, <3>1
      <3>2. CASE ~(FirstAt(w) <= len)
        <4>1. FirstAt(w) = len + 0 + 1 /\ 0 \in Nat /\ FirstAt(w) \in Nat /\ FirstAt(w) <= last
          BY <1>1, <1>3, <3>2
        <4>2. \A i \in Nat : i = len + 0 + 1 /\ i <= last =>
                CellAt(w, i)' = Cell(now.m, now.size, now.part + 0)
          BY <1>2
        <4>3. Cell(now.m, now.size, now.part + 0) = now
          BY <1>1 DEF Cell, CellType
        <4>4. CellAt(w, FirstAt(w)) = now
          BY <1>1, <4>1
        <4> QED
          BY <1>1, <4>1, <4>2, <4>3, <4>4
      <3> QED
        BY <3>1, <3>2
    <2> QED
      BY <1>1, <1>4, <2>1, <2>2 DEF StartsNext
  <1>8. EndsWhole(w)'
    <2> SUFFICES ASSUME ~Writing(w)', NEW i \in FirstAt(w)..last
                 PROVE  /\ CellAt(w, i)'.part + (last - i) >= CellAt(w, i)'.size
                        /\ CellAt(w, i)'.part + (last - i) = CellAt(w, i)'.size =>
                             CellAt(w, i)'.m = sent'[w]
      BY <1>1 DEF EndsWhole
    <2>1. last = len + n /\ now.part + n = now.size + 1 /\ i \in Nat
      BY <1>1, <1>3
    <2>2. CASE i <= len
      <3> DEFINE c == CellAt(w, i)
      <3>1. /\ CellAt(w, i)' = c /\ After(c, now, len + 1 - i)
            /\ c.m \in Nat /\ c.size \in Nat /\ c.part \in Nat
        BY <1>2, <1>5, <2>1, <2>2
      <3> HIDE DEF c
      <3>2. CASE c.part + (len + 1 - i) <= c.size
        <4>1. now.m = c.m /\ now.size = c.size /\ now.part = c.part + (len + 1 - i)
          BY <3>1, <3>2 DEF After, Cell
        <4>2. c.part + (len + n - i) = now.part + n - 1
          BY <1>1, <2>1, <3>1, <4>1
        <4> QED
          BY <1>1, <1>4, <2>1, <3>1, <4>1, <4>2
      <3>3. CASE ~(c.part + (len + 1 - i) <= c.size)
        <4>1. c.part + (len + n - i) > c.size
          BY <1>1, <2>1, <3>1, <3>3
        <4> QED
          BY <1>1, <2>1, <3>1, <4>1
      <3> QED
        BY <3>2, <3>3
    <2>3. CASE i > len
      <3> DEFINE k == i - (len + 1)
      <3>1. k \in Nat /\ i = len + k + 1 /\ i <= last
        BY <1>1, <2>1, <2>3
      <3> HIDE DEF k
      <3>2. CellAt(w, i)' = Cell(now.m, now.size, now.part + k)
        BY <1>2, <2>1, <3>1
      <3>3. (now.part + k) + (last - i) = now.size
        BY <1>1, <2>1, <3>1
      <3> QED
        BY <1>1, <1>4, <3>2, <3>3 DEF Cell
    <2> QED
      BY <1>1, <2>1, <2>2, <2>3
  <1>9. NoneMissing(w)'
    <2>1. Len(pipe'[w]) = len + n /\ len + n <= last /\ FirstAt(w)' \in Nat
      BY <1>1, <1>3, <1>10
    <2>2. ASSUME NEW i \in Nat, i > len, i <= len + n
          PROVE  CellAt(w, i)'.m = now.m /\ CellAt(w, i)'.part = now.part + (i - (len + 1))
      <3> DEFINE k == i - (len + 1)
      <3>1. k \in Nat /\ i = len + k + 1 /\ i <= last
        BY <1>1, <1>3, <2>1, <2>2
      <3> HIDE DEF k
      <3>2. CellAt(w, i)' = Cell(now.m, now.size, now.part + k)
        BY <1>2, <3>1
      <3>3. k = i - (len + 1)
        BY <1>1, <3>1
      <3> QED
        BY <3>2, <3>3 DEF Cell
    <2>3. ASSUME NEW m \in Nat
          PROVE  HasLength(w, m)' <=> HasLength(w, m) \/ (now.part = 0 /\ m = now.m)
      <3>1. HasLength(w, m)' <=> \E i \in FirstAt(w)..(len + n) :
                                   CellAt(w, i)'.part = 0 /\ CellAt(w, i)'.m = m
        BY <1>1, <2>1 DEF HasLength
      <3>2. HasLength(w, m) <=> \E i \in FirstAt(w)..len :
                                  CellAt(w, i).part = 0 /\ CellAt(w, i).m = m
        BY DEF HasLength, len
      <3>3. HasLength(w, m) => HasLength(w, m)'
        <4>1. \A i \in FirstAt(w)..len : i \in FirstAt(w)..(len + n)
          BY <1>1
        <4> QED
          BY <1>2, <3>1, <3>2, <4>1
      <3>4. now.part = 0 /\ m = now.m => HasLength(w, m)'
        <4>1. len + 1 \in FirstAt(w)..(len + n) /\ len + 1 \in Nat /\ len + 1 > len
              /\ len + 1 <= len + n /\ (now.part = 0 => now.part + (len + 1 - (len + 1)) = 0)
          BY <1>1
        <4>2. \A i \in Nat : i = len + 1 /\ now.part = 0 =>
                CellAt(w, i)'.m = now.m /\ CellAt(w, i)'.part = 0
          <5> SUFFICES ASSUME NEW i \in Nat, i = len + 1, now.part = 0
                       PROVE  CellAt(w, i)'.m = now.m /\ CellAt(w, i)'.part = 0
            OBVIOUS
          <5>1. i > len /\ i <= len + n /\ now.part + (i - (len + 1)) = 0
            BY <4>1
          <5> QED
            BY <2>2, <5>1
        <4>3. \A i \in FirstAt(w)..(len + n) : i \in Nat
          BY <1>1
        <4> QED
          BY <3>1, <4>1, <4>2
      <3>5. HasLength(w, m)' /\ ~HasLength(w, m) => now.part = 0 /\ m = now.m
        <4> SUFFICES ASSUME NEW i \in FirstAt(w)..(len + n),
                            CellAt(w, i)'.part = 0, CellAt(w, i)'.m = m, ~HasLength(w, m)
                     PROVE  now.part = 0 /\ m = now.m
          BY <3>1
        <4>1. i \in Nat /\ ~(i <= len) /\ i <= len + n /\ i > len
          BY <1>1, <1>2, <3>2
        <4>2. CellAt(w, i)'.m = now.m /\ CellAt(w, i)'.part = now.part + (i - (len + 1))
          BY <2>2, <4>1
        <4> QED
          BY <1>1, <4>1, <4>2
      <3> QED
        BY <3>3, <3>4, <3>5
    <2>4. /\ received[w] <= sent[w]
          /\ \A m \in Nat : HasLength(w, m) <=> m \in (received[w] + 1)..sent[w]
      BY DEF StreamOK, NoneMissing
    <2>5. \A m \in Nat : HasLength(w, m)' <=> m \in (received[w] + 1)..sent'[w]
      BY <1>1, <1>4, <2>3, <2>4
    <2>6. ASSUME NEW i \in FirstAt(w)..(len + n)
          PROVE  CellAt(w, i)'.m <= sent'[w]
      <3>1. CASE i <= len
        BY <1>1, <1>2, <1>4, <1>5, <3>1
      <3>2. CASE i > len
        BY <1>1, <1>4, <2>2, <3>2
      <3> QED
        BY <1>1, <3>1, <3>2
    <2> QED
      BY <1>1, <1>4, <2>1, <2>4, <2>5, <2>6 DEF NoneMissing
  <1> QED
    BY <1>6, <1>7, <1>8, <1>9 DEF StreamOK, Puts

\* Where the pipe and its reader rest, at most the writer has left.
LEMMA SameRowKeeps ==
  ASSUME TypeOK, TypeOK', NEW w \in Ways, StreamOK(w), WriterLives(w)' => WriterLives(w),
         pipe'[w] = pipe[w], reading'[w] = reading[w], sent'[w] = sent[w],
         received'[w] = received[w], garbage'[w] = garbage[w],
         \/ writing'[w] = writing[w]
         \/ writing'[w] = Idle /\ ~WriterLives(w)'
  PROVE  StreamOK(w)'
  <1>1. /\ FirstAt(w)' = FirstAt(w) /\ FirstAt(w) \in {0, 1}
        /\ LastAt(w)' \in Nat /\ LastAt(w) \in Nat /\ LastAt(w)' <= LastAt(w)
        /\ Len(pipe[w]) \in Nat
        /\ writing'[w] # writing[w] => LastAt(w)' = Len(pipe[w])
    BY RowTyped DEF FirstAt, LastAt, Reading, Writing
  <1>2. \A i \in FirstAt(w)..LastAt(w)' : CellAt(w, i)' = CellAt(w, i)
    BY <1>1 DEF CellAt
  <1>3. \A i \in FirstAt(w)..Len(pipe[w]) : CellAt(w, i)' = CellAt(w, i)
    BY <1>1 DEF CellAt
  <1>4. InOrder(w)'
    <2>1. \A i, j \in FirstAt(w)..LastAt(w)' :
            i < j => After(CellAt(w, i), CellAt(w, j), j - i)
      BY <1>1 DEF StreamOK, InOrder
    <2> QED
      BY <1>1, <1>2, <2>1 DEF InOrder, After
  <1>5. StartsNext(w)'
    BY <1>1, <1>2 DEF StreamOK, StartsNext
  <1>6. EndsWhole(w)'
    <2>1. CASE writing'[w] = writing[w]
      <3>1. LastAt(w)' = LastAt(w) /\ (Writing(w)' <=> Writing(w))
        BY <2>1 DEF LastAt, Writing
      <3> QED
        BY <1>1, <1>2, <3>1 DEF StreamOK, EndsWhole
    <2>2. CASE ~WriterLives(w)'
      BY <2>2 DEF EndsWhole
    <2> QED
      BY <2>1, <2>2
  <1>7. NoneMissing(w)'
    <2>1. \A m \in Nat : HasLength(w, m)' <=> HasLength(w, m)
      BY <1>1, <1>3 DEF HasLength
    <2> QED
      BY <1>1, <1>3, <2>1 DEF StreamOK, NoneMissing
  <1> QED
    BY <1>4, <1>5, <1>6, <1>7 DEF StreamOK

LEMMA TakesLengthKeeps ==
  ASSUME TypeOK, TypeOK', NEW w \in Ways, StreamOK(w), TakesLength(w),
         WriterLives(w)' => WriterLives(w)
  PROVE  StreamOK(w)'
  <1> DEFINE len == Len(pipe[w])
  <1>1. /\ FirstAt(w) = 1 /\ LastAt(w) \in {len, len + 1} /\ len \in Nat \ {0}
        /\ received[w] \in Nat /\ sent[w] \in Nat
        /\ pipe[w][1] \in CellType /\ CellAt(w, 1) = pipe[w][1]
    <2>1. len \in Nat \ {0}
      BY WayTyped, EmptySeq DEF TakesLength
    <2>2. 1 \in 1..len /\ 1 # len + 1
      BY <2>1
    <2>3. pipe[w][1] \in CellType /\ CellAt(w, 1) = pipe[w][1]
      BY <2>1, <2>2, WayTyped DEF CellAt
    <2> QED
      BY <2>1, <2>3, RowTyped, WayTyped DEF TakesLength
  <1>2. pipe[w][1].part = 0 /\ pipe[w][1].m = received[w] + 1
    BY <1>1 DEF StreamOK, StartsNext
  <1>3. /\ reading'[w] = [m |-> pipe[w][1].m, want |-> pipe[w][1].size]
        /\ writing'[w] = writing[w] /\ sent'[w] = sent[w]
        /\ received'[w] = received[w] /\ garbage'[w] = garbage[w]
    BY <1>2 DEF TakesLength
  <1>4. FirstAt(w)' = 0
    BY <1>1, <1>2, <1>3 DEF FirstAt, Reading, None
  <1>5. /\ Len(pipe'[w]) = len - 1
        /\ \A i \in 1..(len - 1) : pipe'[w][i] = pipe[w][i + 1]
    BY WayTyped, HeadTailProperties DEF TakesLength
  <1>6. LastAt(w)' = LastAt(w) - 1
    BY <1>1, <1>3, <1>5 DEF LastAt, Writing
  <1>7. \A i \in 0..LastAt(w)' : CellAt(w, i)' = CellAt(w, i + 1)
    <2>1. CellAt(w, 0)' = pipe[w][1]
      BY <1>1, <1>2, <1>3 DEF CellAt, Cell, CellType
    <2>2. ASSUME NEW i \in 0..LastAt(w)', i # 0
          PROVE  CellAt(w, i)' = CellAt(w, i + 1)
      <3>1. CASE i = len
        BY <1>1, <1>3, <1>5, <2>2, <3>1 DEF CellAt
      <3>2. CASE i # len
        <4>1. i \in 1..(len - 1)
          BY <1>1, <1>6, <2>2, <3>2
        <4> QED
          BY <1>1, <1>5, <4>1 DEF CellAt
      <3> QED
        BY <3>1, <3>2
    <2>3. \A i \in 0..LastAt(w)' : i = 0 => CellAt(w, i)' = CellAt(w, i + 1)
      BY <1>1, <2>1
    <2> QED
      BY <2>2, <2>3
  <1>8. InOrder(w)' /\ EndsWhole(w)'
    <2>1. 1 \in Nat /\ FirstAt(w) <= FirstAt(w)' + 1
      BY <1>1, <1>4
    <2> QED
      BY <1>3, <1>4, <1>6, <1>7, <2>1, RowShifts DEF StreamOK
  <1>9. StartsNext(w)'
    BY <1>1, <1>2, <1>3, <1>4, <1>7 DEF StartsNext
  <1>10. NoneMissing(w)'
    <2>1. /\ \A i \in 0..(len - 1) : i + 1 \in 1..len /\ CellAt(w, i)' = CellAt(w, i + 1)
          /\ \A i \in 1..len : \E j \in 0..(len - 1) : i = j + 1
      <3>1. \A i \in 0..(len - 1) : i + 1 \in 1..len /\ CellAt(w, i)' = CellAt(w, i + 1)
        BY <1>1, <1>6, <1>7
      <3>2. \A i \in 1..len : i - 1 \in 0..(len - 1) /\ i = (i - 1) + 1
        BY <1>1
      <3> QED
        BY <3>1, <3>2
    <2>2. ASSUME NEW m \in Nat
          PROVE  HasLength(w, m)' <=> HasLength(w, m)
      <3>1. HasLength(w, m)' <=> \E i \in 0..(len - 1) :
                                   CellAt(w, i)'.part = 0 /\ CellAt(w, i)'.m = m
        BY <1>4, <1>5 DEF HasLength
      <3>2. HasLength(w, m) <=> \E i \in 1..len :
                                  CellAt(w, i).part = 0 /\ CellAt(w, i).m = m
        BY <1>1 DEF HasLength
      <3> QED
        BY <2>1, <3>1, <3>2
    <2>3. \A i \in 0..(len - 1) : CellAt(w, i)'.m <= sent[w]
      BY <1>1, <2>1 DEF StreamOK, NoneMissing
    <2> QED
      BY <1>3, <1>4, <1>5, <2>2, <2>3 DEF StreamOK, NoneMissing
  <1> QED
    BY <1>3, <1>8, <1>9, <1>10 DEF StreamOK

\* As long as the stream is in step, all that was read of a length follows it.
LEMMA BodyFollows ==
  ASSUME TypeOK, NEW w \in Ways, StreamOK(w), Reading(w)
  PROVE  /\ reading[w].m = received[w] + 1 /\ reading[w].want \in Nat
         /\ \A j \in 1..LastAt(w) :
              /\ After(Cell(reading[w].m, reading[w].want, 0), CellAt(w, j), j)
              /\ j <= reading[w].want =>
                    CellAt(w, j).m = reading[w].m /\ CellAt(w, j).part = j
  <1>1. FirstAt(w) = 0 /\ LastAt(w) \in Nat
    BY RowTyped
  <1>2. reading[w].want \in Nat /\ CellAt(w, 0) = Cell(reading[w].m, reading[w].want, 0)
    BY WayTyped DEF CellAt
  <1>3. reading[w].m = received[w] + 1
    BY <1>1, <1>2 DEF StreamOK, StartsNext, Cell
  <1>4. ASSUME NEW j \in 1..LastAt(w)
        PROVE  After(Cell(reading[w].m, reading[w].want, 0), CellAt(w, j), j)
    <2>1. 0 \in FirstAt(w)..LastAt(w) /\ j \in FirstAt(w)..LastAt(w) /\ 0 < j /\ j - 0 = j
      BY <1>1
    <2> QED
      BY <1>2, <2>1 DEF StreamOK, InOrder
  <1>5. ASSUME NEW j \in 1..LastAt(w), j <= reading[w].want
        PROVE  CellAt(w, j).m = reading[w].m /\ CellAt(w, j).part = j
    <2>1. 0 + j = j
      BY <1>1
    <2> QED
      BY <1>4, <1>5, <2>1 DEF After, Cell
  <1> QED
    BY <1>2, <1>3, <1>4, <1>5

LEMMA TakesBodyKeeps ==
  ASSUME TypeOK, TypeOK', NEW w \in Ways, StreamOK(w), NEW n \in Nat, TakesBody(w, n),
         n = reading[w].want, WriterLives(w)' => WriterLives(w)
  PROVE  StreamOK(w)'
  <1> DEFINE len == Len(pipe[w])
             m0 == reading[w].m
  <1>1. /\ FirstAt(w) = 0 /\ LastAt(w) \in {len, len + 1} /\ len \in Nat
        /\ received[w] \in Nat /\ sent[w] \in Nat
        /\ n <= len /\ n <= LastAt(w) /\ m0 = received[w] + 1 /\ m0 \in Nat
        /\ FirstAt(w)' = 1
    BY RowTyped, WayTyped, BodyFollows DEF TakesBody, FirstAt, Reading
  <1>2. \A i \in 1..n : pipe[w][i].m = m0 /\ pipe[w][i].part = i
    <2>1. ASSUME NEW i \in 1..n
          PROVE  pipe[w][i].m = m0 /\ pipe[w][i].part = i
      <3>1. i \in 1..LastAt(w) /\ i # 0 /\ i # len + 1 /\ i <= n
        BY <1>1
      <3> QED
        BY <3>1, BodyFollows DEF TakesBody, CellAt
    <2> QED
      BY <2>1
  <1>3. /\ received'[w] = m0 /\ garbage'[w] = garbage[w]
        /\ writing'[w] = writing[w] /\ sent'[w] = sent[w]
        /\ Len(pipe'[w]) = len - n
        /\ \A i \in 1..(len - n) : pipe'[w][i] = pipe[w][i + n]
    <2>1. m0 # 0 /\ ~(n < reading[w].want)
      BY <1>1
    <2>2. received'[w] = m0 /\ garbage'[w] = garbage[w]
      BY <1>2, <2>1 DEF TakesBody
    <2> QED
      BY <2>2 DEF TakesBody
  <1>4. LastAt(w)' = LastAt(w) - n
    <2>1. Writing(w)' <=> Writing(w)
      BY <1>3 DEF Writing
    <2>2. /\ LastAt(w)' = IF Writing(w) THEN len - n + 1 ELSE len - n
          /\ LastAt(w) = IF Writing(w) THEN len + 1 ELSE len
      BY <1>3, <2>1 DEF LastAt
    <2>3. n \in Nat /\ len \in Nat
      BY <1>1
    <2> HIDE DEF len
    <2>4. len - n + 1 = (len + 1) - n
      BY ONLY <2>3
    <2> QED
      BY <2>2, <2>4
  <1>5. \A i \in 1..LastAt(w)' : CellAt(w, i)' = CellAt(w, i + n)
    <2>1. ASSUME NEW i \in 1..LastAt(w)'
          PROVE  CellAt(w, i)' = CellAt(w, i + n)
      <3>1. CASE i = len - n + 1
        BY <1>1, <1>3, <3>1 DEF CellAt
      <3>2. CASE i # len - n + 1
        <4>1. i \in 1..(len - n) /\ i + n # 0 /\ i + n # len + 1 /\ i # 0
          <5>1. /\ len \in Nat /\ n \in Nat /\ i \in Nat /\ 1 <= i
                /\ i <= len - n + 1 /\ i # len - n + 1
            <6>1. LastAt(w)' \in Int /\ LastAt(w)' <= len - n + 1
              <7> HIDE DEF len
              <7> QED
                BY <1>1, <1>4
            <6> QED
              BY <1>1, <3>2, <6>1
          <5> HIDE DEF len
          <5> QED
            BY ONLY <5>1
        <4> QED
          BY <1>3, <4>1, <3>2 DEF CellAt
      <3> QED
        BY <3>1, <3>2
    <2> QED
      BY <2>1
  <1>6. InOrder(w)' /\ EndsWhole(w)'
    <2>1. FirstAt(w) <= FirstAt(w)' + n
      BY <1>1
    <2> QED
      BY <1>1, <1>3, <1>4, <1>5, <2>1, RowShifts DEF StreamOK
  <1>7. ASSUME NEW j \in (n + 1)..LastAt(w)
        PROVE  /\ CellAt(w, j).m > m0
               /\ j = n + 1 => CellAt(w, j).part = 0 /\ CellAt(w, j).m = m0 + 1
    <2>1. After(Cell(m0, n, 0), CellAt(w, j), j) /\ 0 + j = j /\ ~(j <= n)
      BY <1>1, BodyFollows DEF TakesBody
    <2> QED
      BY <1>1, <2>1 DEF After, Cell
  <1>8. StartsNext(w)'
    <2>1. CASE 1 <= LastAt(w)'
      <3>1. n + 1 \in (n + 1)..LastAt(w) /\ 1 \in 1..LastAt(w)' /\ 1 + n = n + 1
        BY <1>1, <1>4, <2>1
      <3>2. CellAt(w, 1)' = CellAt(w, n + 1)
        BY <1>5, <3>1
      <3> QED
        BY <1>1, <1>3, <1>7, <3>1, <3>2 DEF StartsNext
    <2>2. CASE ~(1 <= LastAt(w)')
      BY <1>1, <2>2 DEF StartsNext
    <2> QED
      BY <2>1, <2>2
  <1>9. NoneMissing(w)'
    <2>1. \A i \in 1..(len - n) :
            i + n \in (n + 1)..len /\ i + n \in (n + 1)..LastAt(w) /\ CellAt(w, i)' = CellAt(w, i + n)
      <3> SUFFICES ASSUME NEW i \in 1..(len - n)
                   PROVE  /\ i + n \in (n + 1)..len /\ i + n \in (n + 1)..LastAt(w)
                          /\ CellAt(w, i)' = CellAt(w, i + n)
        OBVIOUS
      <3> HIDE DEF len
      <3>1. i + n \in (n + 1)..len
        BY <1>1
      <3>2. i + n \in (n + 1)..LastAt(w)
        BY <1>1, <3>1
      <3>3. i \in 1..LastAt(w)'
        BY <1>1, <1>4, <3>2
      <3> QED
        BY <1>5, <3>1, <3>2, <3>3
    <2>2. \A i \in (n + 1)..len : i - n \in 1..(len - n) /\ (i - n) + n = i
      <3> HIDE DEF len
      <3> QED
        BY <1>1
    <2>3. ASSUME NEW m \in Nat
          PROVE  HasLength(w, m)' <=> HasLength(w, m) /\ m # m0
      <3>1. HasLength(w, m)' <=> \E i \in 1..(len - n) :
                                   CellAt(w, i)'.part = 0 /\ CellAt(w, i)'.m = m
        BY <1>1, <1>3 DEF HasLength
      <3>2. HasLength(w, m) <=> \E i \in 0..len :
                                  CellAt(w, i).part = 0 /\ CellAt(w, i).m = m
        BY <1>1 DEF HasLength
      <3>3. HasLength(w, m)' => HasLength(w, m) /\ m # m0
        <4> SUFFICES ASSUME NEW i \in 1..(len - n),
                            CellAt(w, i)'.part = 0, CellAt(w, i)'.m = m
                     PROVE  HasLength(w, m) /\ m # m0
          BY <3>1
        <4>1. i + n \in 0..len
          BY <1>1, <2>1
        <4>2. CellAt(w, i + n).m > m0
          BY <1>7, <2>1
        <4> QED
          BY <1>1, <2>1, <3>2, <4>1, <4>2
      <3>4. HasLength(w, m) /\ m # m0 => HasLength(w, m)'
        <4> SUFFICES ASSUME NEW i \in 0..len,
                            CellAt(w, i).part = 0, CellAt(w, i).m = m, m # m0
                     PROVE  HasLength(w, m)'
          BY <3>2
        <4>1. i # 0
          BY DEF CellAt, Cell
        <4>2. ~(i <= n)
          <5>1. i \in 1..LastAt(w)
            BY <1>1, <4>1
          <5> QED
            BY <5>1, <4>1, BodyFollows DEF TakesBody
        <4>3. i \in (n + 1)..len
          BY <1>1, <4>1, <4>2
        <4> QED
          BY <2>1, <2>2, <3>1, <4>3
      <3> QED
        BY <3>3, <3>4
    <2>4. HasLength(w, m0)
      <3>1. 0 \in FirstAt(w)..len /\ CellAt(w, 0).part = 0 /\ CellAt(w, 0).m = m0
        BY <1>1 DEF CellAt, Cell
      <3> QED
        BY <3>1 DEF HasLength
    <2>5. \A m \in Nat : HasLength(w, m) <=> m \in (received[w] + 1)..sent[w]
      BY DEF StreamOK, NoneMissing
    <2>6. m0 <= sent[w]
      BY <1>1, <2>4, <2>5
    <2>7. \A m \in Nat : HasLength(w, m)' <=> m \in (received'[w] + 1)..sent'[w]
      BY <1>1, <1>3, <2>3, <2>5
    <2>8. \A i \in 1..(len - n) : CellAt(w, i)'.m <= sent[w]
      <3>1. \A i \in FirstAt(w)..len : CellAt(w, i).m <= sent[w]
        BY DEF StreamOK, NoneMissing
      <3>2. \A i \in (n + 1)..len : i \in FirstAt(w)..len
        BY <1>1
      <3> QED
        BY <2>1, <3>1, <3>2
    <2> QED
      BY <1>1, <1>3, <2>6, <2>7, <2>8 DEF NoneMissing
  <1> QED
    BY <1>3, <1>6, <1>8, <1>9 DEF StreamOK

LEMMA WritingStep ==
  ASSUME TypeOK, NEW w \in Ways, WritingOK(w), WayMove(w)
  PROVE  WritingOK(w)'
  <1>1. writing[w] \in CellType /\ sent[w] \in Nat
    BY WayTyped
  <1>2. CASE writing'[w] = Idle
    BY <1>2 DEF WritingOK, Writing
  <1>3. CASE writing'[w] = writing[w] /\ sent'[w] = sent[w]
    BY <1>3 DEF WritingOK, Writing
  <1>4. CASE Begins(w)
    <2>1. PICK size \in Nat : writing'[w] = Cell(sent[w] + 1, size, 0)
      BY <1>4 DEF Begins
    <2> QED
      BY <1>1, <1>4, <2>1 DEF Begins, WritingOK, Cell
  <1>5. ASSUME NEW n \in Nat \ {0}, Puts(w, n), writing'[w] # Idle
        PROVE  WritingOK(w)'
    <2> DEFINE now == writing[w]
    <2>1. /\ now.m \in Nat /\ now.size \in Nat /\ now.part \in Nat /\ now.m > 0
          /\ now.m = IF now.part = 0 THEN sent[w] + 1 ELSE sent[w]
          /\ now.part + n <= now.size
          /\ writing'[w] = Cell(now.m, now.size, now.part + n)
          /\ sent'[w] = IF now.part = 0 THEN sent[w] + 1 ELSE sent[w]
          /\ now.part = 0 => n = 1
          /\ now.part > 0 /\ now.size <= Small => now.part + n = now.size + 1
      BY <1>1, <1>5 DEF Puts, WritingOK, CellType
    <2>2. now.size <= Small => now.part + n <= 1
      BY <2>1
    <2>3. /\ writing'[w].m = now.m /\ writing'[w].size = now.size
          /\ writing'[w].part = now.part + n
      BY <2>1 DEF Cell
    <2> HIDE DEF now
    <2>4. now.part + n # 0 /\ now.m = sent'[w]
      BY <1>5, <2>1
    <2> QED
      BY <2>1, <2>2, <2>3, <2>4 DEF WritingOK
  <1> QED
    BY <1>2, <1>3, <1>4, <1>5 DEF WayMove, Cuts, Stops, TakesLength, TakesBody, Rests

\* Once out of step, a way remains so.
LEMMA InStepBefore ==
  ASSUME TypeOK, NEW w \in Ways, WayMove(w), LivesFall, InStep(w)'
  PROVE  InStep(w)
  <1>1. short'[w] = short[w] \/ short'[w]
    BY DEF WayMove, Begins, Cuts, Puts, Stops, TakesLength, TakesBody, Rests
  <1>2. Listening(w)' => Listening(w)
    BY DEF LivesFall, Listening
  <1> QED
    BY <1>1, <1>2 DEF InStep

LEMMA StreamStep ==
  ASSUME TypeOK, TypeOK', NEW w \in Ways, WritingOK(w), WayMove(w), LivesFall,
         StreamOK(w), InStep(w)'
  PROVE  StreamOK(w)'
  <1>1. WriterLives(w)' => WriterLives(w)
    BY DEF LivesFall, WriterLives
  <1>2. CASE Begins(w)
    BY <1>2, BeginsKeeps
  <1>3. ASSUME NEW n \in Nat \ {0}, Puts(w, n)
        PROVE  StreamOK(w)'
    BY <1>3, PutsKeeps
  <1>4. CASE Stops(w) \/ Rests(w)
    BY <1>1, <1>4, SameRowKeeps DEF Stops, Rests, InStep
  <1>5. CASE TakesLength(w)
    BY <1>1, <1>5, TakesLengthKeeps
  <1>6. ASSUME NEW n \in Nat, TakesBody(w, n)
        PROVE  StreamOK(w)'
    <2>1. n = reading[w].want
      BY <1>6 DEF TakesBody, InStep
    <2> QED
      BY <1>1, <1>6, <2>1, TakesBodyKeeps
  <1>7. CASE Cuts(w)
    <2>1. writing[w].part = 0
      <3>1. writing[w].part \in Nat /\ ~short'[w]
        BY WayTyped DEF InStep, CellType
      <3>2. ~(writing[w].part > 0)
        BY <1>7, <3>1 DEF Cuts
      <3> QED
        BY <3>1, <3>2
    <2> QED
      BY <1>7, <2>1, CutsKeeps
  <1> QED
    BY <1>2, <1>3, <1>4, <1>5, <1>6, <1>7 DEF WayMove

LEMMA InitInv == Init => IInv
  <1> SUFFICES ASSUME Init
               PROVE  IInv
    OBVIOUS
  <1>1. TypeOK
    <2>1. <<>> \in Seq(CellType)
      BY EmptySeq
    <2> QED
      BY <2>1 DEF Init, TypeOK, Idle, Cell, CellType
  <1>2. ASSUME NEW w \in Ways
        PROVE  ~Writing(w) /\ ~Reading(w)
    BY DEF Init, Writing, Reading
  <1>3. ASSUME NEW w \in Ways
        PROVE  WritingOK(w) /\ StreamOK(w)
    <2>1. pipe[w] = <<>> /\ sent[w] = 0 /\ received[w] = 0 /\ garbage[w] = FALSE
      BY DEF Init
    <2>2. Len(pipe[w]) = 0 /\ FirstAt(w) = 1 /\ LastAt(w) = 0
      BY <1>2, <2>1 DEF FirstAt, LastAt
    <2> QED
      BY <1>2, <2>1, <2>2 DEF WritingOK, StreamOK, InOrder, StartsNext, EndsWhole,
         NoneMissing, HasLength
  <1>4. CallersLive
    BY <1>2 DEF CallersLive, Ways
  <1> QED
    BY <1>1, <1>3, <1>4 DEF IInv

LEMMA StepInv == IInv /\ [Next]_vars => IInv'
  <1> SUFFICES ASSUME IInv, [Next]_vars
               PROVE  IInv'
    OBVIOUS
  <1>1. TypeOK' /\ CallersLive'
    BY TypeStep, CallersStep DEF IInv
  <1>2. ASSUME NEW w \in Ways
        PROVE  WritingOK(w)' /\ (InStep(w)' => StreamOK(w)')
    <2>1. WayMove(w) /\ LivesFall
      BY EveryStepMoves DEF IInv
    <2>2. WritingOK(w)'
      BY <2>1, WritingStep DEF IInv
    <2>3. ASSUME InStep(w)'
          PROVE  StreamOK(w)'
      BY <1>1, <2>1, <2>3, InStepBefore, StreamStep DEF IInv
    <2> QED
      BY <2>2, <2>3
  <1> QED
    BY <1>1, <1>2 DEF IInv

LEMMA Invariant == Spec => []IInv
  BY InitInv, StepInv, PTL DEF Spec

-----------------------------------------------------------------------------
(* The properties.                                                          *)

\* Two lengths of the row are those of messages in the order they were sent.
LEMMA LengthsRise ==
  ASSUME TypeOK, NEW w \in Ways, InOrder(w),
         NEW i \in FirstAt(w)..LastAt(w), NEW j \in FirstAt(w)..LastAt(w), i < j,
         CellAt(w, i).part = 0, CellAt(w, j).part = 0
  PROVE  CellAt(w, i).m < CellAt(w, j).m
  <1> DEFINE c == CellAt(w, i)
             d == CellAt(w, j)
  <1>1. /\ c.m \in Nat /\ c.size \in Nat /\ c.part = 0 /\ d.m \in Nat /\ d.part = 0
        /\ j - i \in Nat /\ j - i > 0
    BY RowTyped
  <1>2. After(c, d, j - i)
    BY DEF InOrder
  <1> HIDE DEF c, d
  <1>3. ~(c.part + (j - i) <= c.size)
    BY <1>1, <1>2 DEF After, Cell
  <1>4. c.m < d.m
    BY <1>1, <1>2, <1>3 DEF After
  <1> QED
    BY <1>4 DEF c, d

LEMMA InStepFromInv == IInv => InStepNothingLost
  <1> SUFFICES ASSUME IInv, NEW w \in Ways, Listening(w), ~short[w]
               PROVE  /\ ~garbage[w]
                      /\ OnTheWay(w) = (received[w] + 1)..sent[w]
                      /\ \A i, j \in Lengths(w) : i < j => pipe[w][i].m < pipe[w][j].m
                      /\ Reading(w) => \A i \in Lengths(w) : reading[w].m < pipe[w][i].m
    BY DEF InStepNothingLost
  <1>1. TypeOK /\ StreamOK(w)
    BY DEF IInv, InStep
  <1>2. /\ DOMAIN pipe[w] = 1..Len(pipe[w]) /\ Len(pipe[w]) \in Nat
        /\ FirstAt(w) \in {0, 1} /\ Len(pipe[w]) <= LastAt(w) /\ LastAt(w) \in Nat
    BY <1>1, WayTyped, RowTyped, LenProperties
  <1>3. /\ Reading(w) <=> FirstAt(w) = 0
        /\ sent[w] \in Nat /\ received[w] \in Nat
    BY <1>1, WayTyped, RowTyped
  <1>4. /\ \A i \in Lengths(w) :
             /\ i \in 1..Len(pipe[w]) /\ i \in FirstAt(w)..Len(pipe[w])
             /\ i \in FirstAt(w)..LastAt(w) /\ i > 0
             /\ CellAt(w, i) = pipe[w][i] /\ pipe[w][i].part = 0 /\ pipe[w][i].m \in Nat
        /\ \A i \in FirstAt(w)..Len(pipe[w]) :
             i # 0 /\ CellAt(w, i).part = 0 => i \in Lengths(w)
    <2>1. \A i \in 1..Len(pipe[w]) :
            /\ CellAt(w, i) = pipe[w][i] /\ pipe[w][i] \in CellType
            /\ i \in FirstAt(w)..Len(pipe[w]) /\ i \in FirstAt(w)..LastAt(w) /\ i > 0
      BY <1>1, <1>2, WayTyped DEF CellAt
    <2>2. \A i \in FirstAt(w)..Len(pipe[w]) : i # 0 => i \in 1..Len(pipe[w])
      BY <1>2
    <2> QED
      BY <1>2, <2>1, <2>2 DEF Lengths, CellType
  <1>5. Reading(w) => /\ 0 \in FirstAt(w)..Len(pipe[w]) /\ 0 \in FirstAt(w)..LastAt(w)
                      /\ CellAt(w, 0).part = 0 /\ CellAt(w, 0).m = reading[w].m
                      /\ reading[w].m \in Nat
    BY <1>1, <1>2, <1>3, WayTyped DEF CellAt, Cell
  <1>6. ASSUME NEW m \in Nat
        PROVE  m \in OnTheWay(w) <=> HasLength(w, m)
    <2>1. ASSUME m \in OnTheWay(w)
          PROVE  HasLength(w, m)
      BY <1>4, <1>5, <2>1 DEF OnTheWay, HasLength
    <2>2. ASSUME HasLength(w, m)
          PROVE  m \in OnTheWay(w)
      <3>1. PICK i \in FirstAt(w)..Len(pipe[w]) : CellAt(w, i).part = 0 /\ CellAt(w, i).m = m
        BY <2>2 DEF HasLength
      <3>2. CASE i = 0
        <4>1. Reading(w)
          BY <1>2, <1>3, <3>2
        <4> QED
          BY <1>5, <3>1, <3>2, <4>1 DEF OnTheWay
      <3>3. CASE i # 0
        BY <1>4, <3>1, <3>3 DEF OnTheWay
      <3> QED
        BY <3>2, <3>3
    <2> QED
      BY <2>1, <2>2
  <1>7. OnTheWay(w) = (received[w] + 1)..sent[w]
    <2>1. OnTheWay(w) \subseteq Nat
      BY <1>4, <1>5 DEF OnTheWay
    <2>2. \A m \in Nat : HasLength(w, m) <=> m \in (received[w] + 1)..sent[w]
      BY <1>1 DEF StreamOK, NoneMissing
    <2>3. (received[w] + 1)..sent[w] \subseteq Nat
      BY <1>3
    <2> QED
      BY <1>6, <2>1, <2>2, <2>3
  <1>8. \A i, j \in Lengths(w) : i < j => pipe[w][i].m < pipe[w][j].m
    BY <1>1, <1>4, LengthsRise DEF StreamOK
  <1>9. ASSUME Reading(w), NEW i \in Lengths(w)
        PROVE  reading[w].m < pipe[w][i].m
    <2>1. CellAt(w, 0).m < CellAt(w, i).m
      BY <1>1, <1>4, <1>5, <1>9, LengthsRise DEF StreamOK
    <2> QED
      BY <1>4, <1>5, <1>9, <2>1
  <1> QED
    BY <1>1, <1>7, <1>8, <1>9 DEF StreamOK

\* For pipes, atomic writes and messages of every size: as long as no receive has
\* come short of a body, and no write of one was cut, what was sent and not received
\* is in the pipe or has just been read the length of, each message once, the oldest
\* first, and nothing was received that was not sent.
THEOREM NothingIsLost == Spec => []InStepNothingLost
  BY Invariant, InStepFromInv, PTL

LEMMA ShortStep ==
  ASSUME IInv, [Next]_vars, NEW w \in Ways, short[w]' # short[w]
  PROVE  \/ Writing(w) /\ writing[w].m = reading[w].m
         \/ w = "to parent" /\ child # "running"
         \/ w = "to child" /\ writing[w].part > 0 /\ ~HasRoom(w)
  <1>1. TypeOK /\ WayMove(w)
    BY EveryStepMoves DEF IInv
  <1>2. TypeOK'
    BY TypeStep DEF IInv
  <1> SUFFICES ASSUME ~Cuts(w)
               PROVE  \/ Writing(w) /\ writing[w].m = reading[w].m
                      \/ w = "to parent" /\ child # "running"
    BY DEF Cuts
  <1>3. PICK n \in Nat : TakesBody(w, n)
    BY <1>1 DEF WayMove, Begins, Puts, Stops, TakesLength, Rests
  <1>4. /\ n < reading[w].want /\ n = Len(pipe[w]) /\ Reading(w) /\ ~short[w]
    BY <1>1, <1>2, <1>3 DEF TakesBody, TypeOK
  <1>5. Listening(w)
    BY <1>4 DEF IInv, CallersLive, Listening, Ways
  <1>6. StreamOK(w)
    BY <1>4, <1>5 DEF IInv, InStep
  <1>7. /\ FirstAt(w) = 0 /\ LastAt(w) \in Nat /\ reading[w].want \in Nat
        /\ CellAt(w, 0) = Cell(reading[w].m, reading[w].want, 0)
    BY <1>1, <1>4, RowTyped, WayTyped DEF CellAt
  <1>8. CASE Writing(w)
    <2>1. LastAt(w) = n + 1 /\ CellAt(w, n + 1) = writing[w] /\ n + 1 \in 1..LastAt(w)
      BY <1>4, <1>8 DEF LastAt, CellAt
    <2>2. CellAt(w, n + 1).m = reading[w].m
      BY <1>1, <1>4, <1>6, <1>7, <2>1, BodyFollows
    <2> QED
      BY <1>8, <2>1, <2>2
  <1>9. CASE ~Writing(w)
    <2>1. LastAt(w) = n /\ 0 \in FirstAt(w)..LastAt(w)
      BY <1>4, <1>7, <1>9 DEF LastAt
    <2>2. ~(CellAt(w, 0).part + (LastAt(w) - 0) >= CellAt(w, 0).size)
      BY <1>4, <1>7, <2>1 DEF Cell
    <2>3. ~WriterLives(w)
      BY <1>6, <1>9, <2>1, <2>2 DEF StreamOK, EndsWhole
    <2> QED
      BY <2>3 DEF WriterLives, Ways
  <1> QED
    BY <1>8, <1>9

\* For pipes and messages of every size: a receive takes a length and answers nil
\* only while the sender is writing that message, or after it died writing it, and
\* else a stream comes out of step only by a write into a full pipe that is cut.
THEOREM ShortOnlyInARace == Spec => ShortOnlyWhileWriting
  <1>1. IInv /\ [Next]_vars =>
          [\A w \in Ways :
             short[w]' # short[w] =>
               \/ Writing(w) /\ writing[w].m = reading[w].m
               \/ w = "to parent" /\ child # "running"
               \/ w = "to child" /\ writing[w].part > 0 /\ ~HasRoom(w)]_vars
    BY ShortStep
  <1> QED
    BY <1>1, Invariant, PTL DEF Spec, ShortOnlyWhileWriting

-----------------------------------------------------------------------------
(* The channels, also out of step.                                          *)

\* Lengths in the pipe rise, and all are newer than what was received and than
\* the message whose length has been read.
LengthsNewer(w) ==
  /\ received[w] <= sent[w]
  /\ \A i \in Lengths(w) : received[w] < pipe[w][i].m /\ pipe[w][i].m <= sent[w]
  /\ \A i, j \in Lengths(w) : i < j => pipe[w][i].m < pipe[w][j].m
  /\ reading[w].m # 0 =>
       /\ received[w] < reading[w].m /\ reading[w].m <= sent[w]
       /\ \A i \in Lengths(w) : reading[w].m < pipe[w][i].m

LEMMA LengthsTyped ==
  ASSUME TypeOK, NEW w \in Ways
  PROVE  /\ Lengths(w) = {i \in 1..Len(pipe[w]) : pipe[w][i].part = 0}
         /\ \A i \in 1..Len(pipe[w]) :
              pipe[w][i].m \in Nat /\ pipe[w][i].size \in Nat /\ pipe[w][i].part \in Nat
         /\ reading[w].m \in Nat /\ Len(pipe[w]) \in Nat
         /\ sent[w] \in Nat /\ received[w] \in Nat
  <1>1. pipe[w] \in Seq(CellType) /\ \A i \in 1..Len(pipe[w]) : pipe[w][i] \in CellType
    BY WayTyped
  <1>2. DOMAIN pipe[w] = 1..Len(pipe[w])
    BY <1>1, LenProperties
  <1>3. reading[w].m \in Nat
    BY DEF TypeOK, None
  <1> QED
    BY <1>1, <1>2, <1>3, WayTyped DEF Lengths, CellType

\* No step breaks that: a length that is written is the newest of all.
LEMMA LengthsStep ==
  ASSUME TypeOK, TypeOK', NEW w \in Ways, WritingOK(w), WayMove(w), LengthsNewer(w)
  PROVE  LengthsNewer(w)'
  <1> DEFINE old == pipe[w]
             new == pipe'[w]
             len == Len(pipe[w])
  <1>1. /\ Lengths(w) = {i \in 1..len : old[i].part = 0} /\ len \in Nat
        /\ \A i \in 1..len : old[i].m \in Nat /\ old[i].size \in Nat /\ old[i].part \in Nat
        /\ reading[w].m \in Nat /\ sent[w] \in Nat /\ received[w] \in Nat
    BY LengthsTyped
  <1>2. /\ Lengths(w)' = {i \in 1..Len(new) : new[i].part = 0}
        /\ reading'[w].m \in Nat /\ sent'[w] \in Nat /\ received'[w] \in Nat
    <2>1. /\ new \in Seq(CellType)
          /\ reading'[w] \in [m: Nat, want: Nat] \cup {None}
          /\ sent'[w] \in Nat /\ received'[w] \in Nat
      BY DEF TypeOK
    <2>2. DOMAIN new = 1..Len(new)
      BY <2>1, LenProperties
    <2> QED
      BY <2>1, <2>2 DEF Lengths, None
  <1> HIDE DEF old, new, len
  <1>3. CASE Begins(w) \/ Cuts(w) \/ Stops(w) \/ Rests(w)
    <2>1. /\ new = old /\ sent'[w] = sent[w] /\ received'[w] = received[w]
          /\ reading'[w] \in {None, reading[w]}
      BY <1>3 DEF Begins, Cuts, Stops, Rests, old, new
    <2>2. Lengths(w)' = Lengths(w) /\ (reading'[w].m # 0 => reading'[w] = reading[w])
      BY <1>1, <1>2, <2>1 DEF None, old, len
    <2> QED
      BY <2>1, <2>2 DEF LengthsNewer, old, new
  <1>4. ASSUME NEW n \in Nat \ {0}, Puts(w, n)
        PROVE  LengthsNewer(w)'
    <2>1. /\ Len(new) = len + n /\ \A i \in 1..len : new[i] = old[i]
          /\ \A i \in 1..n : new[len + i] =
                               Cell(writing[w].m, writing[w].size, writing[w].part + i - 1)
          /\ reading'[w] = reading[w] /\ received'[w] = received[w]
      BY <1>4 DEF Puts, old, new, len
    <2>2. CASE writing[w].part = 0
      <3>1. /\ n = 1 /\ sent'[w] = sent[w] + 1 /\ writing[w].m = sent[w] + 1
        BY <1>4, <2>2 DEF Puts, WritingOK
      <3>2. new[len + 1].m = sent[w] + 1 /\ new[len + 1].part = 0
        BY <2>1, <2>2, <3>1 DEF Cell
      <3>3. /\ Lengths(w)' = Lengths(w) \cup {len + 1}
            /\ \A i \in Lengths(w) : i \in 1..len /\ new[i] = old[i]
        BY <1>1, <1>2, <2>1, <3>1, <3>2
      <3>4. \A i \in Lengths(w) : received[w] < old[i].m /\ old[i].m <= sent[w]
        BY DEF LengthsNewer, old
      <3>5. \A i \in Lengths(w)' : received'[w] < new[i].m /\ new[i].m <= sent'[w]
        <4>1. received[w] <= sent[w]
          BY DEF LengthsNewer
        <4> QED
          BY <1>1, <2>1, <3>1, <3>2, <3>3, <3>4, <4>1
      <3>6. \A i, j \in Lengths(w)' : i < j => new[i].m < new[j].m
        <4>1. \A i, j \in Lengths(w) : i < j => old[i].m < old[j].m
          BY DEF LengthsNewer, old
        <4> QED
          BY <1>1, <3>2, <3>3, <3>4, <4>1
      <3>7. reading'[w].m # 0 =>
              /\ received'[w] < reading'[w].m /\ reading'[w].m <= sent'[w]
              /\ \A i \in Lengths(w)' : reading'[w].m < new[i].m
        <4>1. reading[w].m # 0 =>
                /\ received[w] < reading[w].m /\ reading[w].m <= sent[w]
                /\ \A i \in Lengths(w) : reading[w].m < old[i].m
          BY DEF LengthsNewer, old
        <4> QED
          BY <1>1, <2>1, <3>1, <3>2, <3>3, <4>1
      <3>8. received'[w] <= sent'[w]
        BY <1>1, <2>1, <3>1 DEF LengthsNewer
      <3> QED
        BY <3>5, <3>6, <3>7, <3>8 DEF LengthsNewer, new
    <2>3. CASE writing[w].part # 0
      <3>1. sent'[w] = sent[w] /\ writing[w].part \in Nat
        BY <1>4, <2>3, WayTyped DEF Puts, CellType
      <3>2. ASSUME NEW i \in 1..n
            PROVE  new[len + i].part # 0
        <4>1. Cell(writing[w].m, writing[w].size, writing[w].part + i - 1).part
                = writing[w].part + i - 1
          BY DEF Cell
        <4>2. writing[w].part + i - 1 # 0
          BY <2>3, <3>1
        <4>3. new[len + i] = Cell(writing[w].m, writing[w].size, writing[w].part + i - 1)
          BY <2>1
        <4> QED
          BY <4>1, <4>2, <4>3
      <3>3. ASSUME NEW i \in 1..(len + n), new[i].part = 0
            PROVE  i \in 1..len
        <4>1. i > len => i - len \in 1..n /\ i = len + (i - len)
          BY <1>1
        <4> QED
          BY <1>1, <3>2, <3>3, <4>1
      <3>4. Lengths(w)' = Lengths(w) /\ \A i \in Lengths(w) : new[i] = old[i]
        BY <1>1, <1>2, <2>1, <3>3
      <3> QED
        BY <2>1, <3>1, <3>4 DEF LengthsNewer, old, new
    <2> QED
      BY <2>2, <2>3
  <1>5. CASE TakesLength(w)
    <2>1. /\ old \in Seq(CellType) /\ old # <<>> /\ new = Tail(old)
          /\ sent'[w] = sent[w] /\ received'[w] = received[w]
          /\ \/ old[1].part = 0 /\ reading'[w].m = old[1].m
             \/ reading'[w].m = 0
      BY <1>5, WayTyped DEF TakesLength, old, new
    <2>2. len # 0 /\ Len(new) = len - 1 /\ \A i \in 1..(len - 1) : new[i] = old[i + 1]
      BY <1>1, <2>1, EmptySeq, HeadTailProperties DEF len, old
    <2>3. \A i \in Lengths(w)' : i + 1 \in Lengths(w) /\ new[i] = old[i + 1] /\ i \in Int
      BY <1>1, <1>2, <2>2
    <2>4. old[1].part = 0 => 1 \in Lengths(w) /\ \A i \in Lengths(w)' : 1 < i + 1
      BY <1>1, <1>2, <2>2
    <2>5. /\ received[w] <= sent[w]
          /\ \A i \in Lengths(w) : received[w] < old[i].m /\ old[i].m <= sent[w]
          /\ \A i, j \in Lengths(w) : i < j => old[i].m < old[j].m
      BY DEF LengthsNewer, old
    <2>6. \A i, j \in Lengths(w)' : i < j => new[i].m < new[j].m
      BY <2>3, <2>5
    <2>7. reading'[w].m # 0 =>
            /\ received'[w] < reading'[w].m /\ reading'[w].m <= sent'[w]
            /\ \A i \in Lengths(w)' : reading'[w].m < new[i].m
      BY <2>1, <2>3, <2>4, <2>5
    <2> QED
      BY <2>1, <2>3, <2>5, <2>6, <2>7 DEF LengthsNewer, new
  <1>6. ASSUME NEW n \in Nat, TakesBody(w, n)
        PROVE  LengthsNewer(w)'
    <2>1. /\ n <= len /\ Len(new) = len - n
          /\ \A i \in 1..(len - n) : new[i] = old[i + n]
          /\ reading'[w].m = 0 /\ sent'[w] = sent[w]
          /\ \/ received'[w] = received[w]
             \/ received'[w] = reading[w].m /\ reading[w].m # 0
      BY <1>6 DEF TakesBody, None, old, new, len
    <2>2. \A i \in Lengths(w)' : i + n \in Lengths(w) /\ new[i] = old[i + n] /\ i \in Int
      BY <1>1, <1>2, <2>1
    <2>3. /\ received[w] <= sent[w]
          /\ \A i \in Lengths(w) : received[w] < old[i].m /\ old[i].m <= sent[w]
          /\ \A i, j \in Lengths(w) : i < j => old[i].m < old[j].m
          /\ reading[w].m # 0 =>
               /\ received[w] < reading[w].m /\ reading[w].m <= sent[w]
               /\ \A i \in Lengths(w) : reading[w].m < old[i].m
      BY DEF LengthsNewer, old
    <2>4. \A i, j \in Lengths(w)' : i < j => new[i].m < new[j].m
      BY <2>2, <2>3
    <2> QED
      BY <2>1, <2>2, <2>3, <2>4 DEF LengthsNewer, new
  <1> QED
    BY <1>3, <1>4, <1>5, <1>6 DEF WayMove

LEMMA ReadStep ==
  ASSUME IInv, NEW w \in Ways, LengthsNewer(w), ReadBody(w)
  PROVE  Pipes!Receive(w) \/ Pipes!Break(w) \/ Pipes!ReceiveLater(w)
         \/ UNCHANGED Pipes!channelVars
  <1> USE DEF Pipes!channelVars
  <1>1. /\ TypeOK /\ Reading(w) /\ sent' = sent
        /\ reading[w].m \in Nat /\ sent[w] \in Nat /\ received[w] \in Nat
    BY LengthsTyped DEF IInv, ReadBody
  <1>2. CASE short' = [short EXCEPT ![w] = TRUE] /\ UNCHANGED received
    BY <1>1, <1>2 DEF Pipes!Break
  <1>3. CASE /\ reading[w].m # 0 /\ UNCHANGED short
             /\ received' = [received EXCEPT ![w] = reading[w].m]
    <2>1. reading[w].m \in (received[w] + 1)..sent[w] /\ received[w] < sent[w]
      BY <1>1, <1>3 DEF LengthsNewer
    <2>2. CASE short[w]
      BY <1>1, <1>3, <2>1, <2>2 DEF Pipes!ReceiveLater
    <2>3. CASE ~short[w]
      <3>1. Listening(w)
        BY <1>1 DEF IInv, CallersLive, Listening, Ways
      <3>2. StreamOK(w)
        BY <2>3, <3>1 DEF IInv, InStep
      <3>3. FirstAt(w) = 0 /\ FirstAt(w) <= LastAt(w)
        BY <1>1, RowTyped DEF FirstAt
      <3>4. CellAt(w, 0).m = reading[w].m
        BY DEF CellAt, Cell
      <3>5. reading[w].m = received[w] + 1
        BY <3>2, <3>3, <3>4 DEF StreamOK, StartsNext
      <3> QED
        BY <1>1, <1>3, <2>1, <2>3, <3>5 DEF Pipes!Receive
    <2> QED
      BY <2>2, <2>3
  <1>4. CASE UNCHANGED <<received, short>>
    BY <1>1, <1>4
  <1> QED
    BY <1>2, <1>3, <1>4 DEF ReadBody, IsBody

LEMMA ChannelStep ==
  ASSUME IInv, \A w \in Ways : LengthsNewer(w), [Next]_vars
  PROVE  [Pipes!Next]_(Pipes!channelVars)
  <1> USE DEF Pipes!channelVars
  <1>1. ASSUME NEW w \in Ways, Transfer(w)
        PROVE  Pipes!Next \/ UNCHANGED Pipes!channelVars
    <2>1. CASE WriteLength(w)
      BY <2>1 DEF WriteLength, Pipes!Next, Pipes!Send
    <2>2. CASE BeginSend(w) \/ WriteBody(w) \/ BrokenPipe(w) \/ ReadLength(w)
      BY <2>2 DEF BeginSend, WriteBody, BrokenPipe, ReadLength
    <2>3. CASE ReadBody(w)
      BY <2>3, ReadStep DEF Pipes!Next
    <2>4. CASE WriteInterrupted(w)
      <3>1. CASE writing[w].part > 0
        BY <2>4, <3>1 DEF WriteInterrupted, Pipes!Next, Pipes!Break
      <3>2. CASE ~(writing[w].part > 0)
        BY <2>4, <3>2 DEF WriteInterrupted
      <3> QED
        BY <3>1, <3>2
    <2> QED
      BY <1>1, <2>1, <2>2, <2>3, <2>4 DEF Transfer
  <1>2. CASE ChildExits \/ IsRunning \/ Terminate \/ Terminated \/ UNCHANGED vars
    BY <1>2 DEF ChildExits, IsRunning, Terminate, Terminated, ChildStops, vars, streamVars
  <1> QED
    BY <1>1, <1>2 DEF Next

\* Each pipe implements a channel, for pipes and messages of every size: numbers
\* are received one after another until a receive comes short or a write is cut, and in
\* rising order ever after.
THEOREM PipesAreChannels == Spec => ImplementsChannel
  <1> DEFINE Newer == \A w \in Ways : LengthsNewer(w)
  <1>1. Init => Newer /\ Pipes!Init
    <2> SUFFICES ASSUME Init
                 PROVE  Newer /\ Pipes!Init
      OBVIOUS
    <2>1. Pipes!Init
      BY DEF Init, Pipes!Init
    <2>2. ASSUME NEW w \in Ways
          PROVE  LengthsNewer(w)
      <3>1. /\ pipe[w] = <<>> /\ reading[w] = None
            /\ sent[w] = 0 /\ received[w] = 0
        BY DEF Init
      <3>2. TypeOK
        BY InitInv DEF IInv
      <3>3. Lengths(w) = {}
        BY <3>1, <3>2, LengthsTyped
      <3> QED
        BY <3>1, <3>3 DEF LengthsNewer, None
    <2> QED
      BY <2>1, <2>2
  <1>2. IInv /\ IInv' /\ Newer /\ [Next]_vars => Newer'
    <2> SUFFICES ASSUME IInv, IInv', Newer, [Next]_vars, NEW w \in Ways
                 PROVE  LengthsNewer(w)'
      OBVIOUS
    <2>1. TypeOK /\ TypeOK' /\ WritingOK(w) /\ WayMove(w)
      BY EveryStepMoves DEF IInv
    <2> QED
      BY <2>1, LengthsStep
  <1>3. IInv /\ Newer /\ [Next]_vars => [Pipes!Next]_(Pipes!channelVars)
    BY ChannelStep
  <1> QED
    BY <1>1, <1>2, <1>3, Invariant, PTL DEF Spec, ImplementsChannel, Pipes!Spec

=============================================================================
