-------------------------- MODULE DataTables_proofs --------------------------
(***************************************************************************)
(* Proofs about DataTables, for every number of slots of every kind and    *)
(* without the bounds: TypeOK is inductive, and with it so are             *)
(* TablesOfLiveState, NoInheritedData and RemovedLeavesNoData.  What has   *)
(* to be seen is that the frame which owes a clear stays on the stack      *)
(* until it has paid.                                                      *)
(***************************************************************************)
EXTENDS DataTables, SequenceTheorems, TLAPS

\* After the top frame is gone the others are where they were.
LEMMA FrontFacts ==
  ASSUME NEW S, NEW s \in Seq(S), s # <<>>
  PROVE  /\ SubSeq(s, 1, Len(s) - 1) \in Seq(S)
         /\ Len(SubSeq(s, 1, Len(s) - 1)) = Len(s) - 1
         /\ \A i \in 1..(Len(s) - 1) : SubSeq(s, 1, Len(s) - 1)[i] = s[i]
  <1> DEFINE n == Len(s) - 1
             t == SubSeq(s, 1, n)
  <1>1. Len(s) \in Nat \ {0} /\ \A i \in 1..Len(s) : s[i] \in S
    BY EmptySeq, LenProperties
  <1>2. n \in Nat /\ 1 \in Int /\ n \in Int /\ \A i \in 1..n : s[i] \in S
    BY <1>1
  <1> HIDE DEF n
  <1>3. /\ t \in Seq(S)
        /\ Len(t) = IF 1 <= n THEN n - 1 + 1 ELSE 0
        /\ \A i \in 1..(n - 1 + 1) : t[i] = s[1 + i - 1]
    BY <1>2, SubSeqProperties
  <1>4. Len(t) = n
    BY <1>2, <1>3
  <1>5. ASSUME NEW i \in 1..n
        PROVE  t[i] = s[i]
    <2>1. i \in 1..(n - 1 + 1) /\ 1 + i - 1 = i
      BY <1>2
    <2> QED
      BY <2>1, <1>3
  <1> QED
    BY <1>3, <1>4, <1>5 DEF n

\* A new frame on top leaves the others where they were.
LEMMA PushFacts ==
  ASSUME NEW S, NEW s \in Seq(S), NEW e \in S
  PROVE  /\ Append(s, e) \in Seq(S)
         /\ Append(s, e) # <<>>
         /\ Len(Append(s, e)) = Len(s) + 1
         /\ Append(s, e)[Len(s) + 1] = e
         /\ \A i \in 1..Len(s) : Append(s, e)[i] = s[i]
         /\ Len(s) \in Nat
  BY AppendProperties, LenProperties

\* The top frame of a stack is one of its frames.
LEMMA LastFacts ==
  ASSUME NEW S, NEW s \in Seq(S), s # <<>>
  PROVE  /\ Len(s) \in Nat \ {0}
         /\ DOMAIN s = 1..Len(s)
         /\ Len(s) \in DOMAIN s
         /\ s[Len(s)] \in S
  BY EmptySeq, LenProperties

-----------------------------------------------------------------------------
(* The stack: a step pushes a frame, pops the top one, moves it from its     *)
(* handler before the body to the one after, or leaves the stack alone.      *)

\* The frames of a stack that is not empty.
LEMMA TopTyped ==
  ASSUME TypeOK, stack # <<>>
  PROVE  /\ Len(stack) \in Nat \ {0} /\ DOMAIN stack = 1..Len(stack)
         /\ Len(stack) \in DOMAIN stack
         /\ Top \in FrameType /\ FrameOK(Top)
         /\ Top.at = "post" \/ Top.op = "delete" =>
              /\ Top.slot \in Slots /\ Top.kind = KindOf[Top.slot]
              /\ Top.slot \in Hooked
  <1>1. /\ Len(stack) \in Nat \ {0} /\ DOMAIN stack = 1..Len(stack)
        /\ Len(stack) \in DOMAIN stack /\ Top \in FrameType
    BY LastFacts DEF TypeOK, Top
  <1>2. FrameOK(Top)
    BY <1>1 DEF TypeOK, Top
  <1> QED
    BY <1>1, <1>2 DEF FrameOK, FrameType, Hooked

\* A push of a frame that is in order.
LEMMA Pushed ==
  ASSUME TypeOK, NEW frame \in FrameType, FrameOK(frame),
         stack' = Append(stack, frame)
  PROVE  /\ stack' \in Seq(FrameType)
         /\ \A i \in DOMAIN stack' : FrameOK(stack'[i])
         /\ \A op \in {"create", "delete"}, s \in Slots :
              Pending(op, s) => Pending(op, s)'
  <1>1. stack \in Seq(FrameType)
    BY DEF TypeOK
  <1>2. /\ stack' \in Seq(FrameType) /\ Len(stack') = Len(stack) + 1
        /\ stack'[Len(stack) + 1] = frame
        /\ \A i \in 1..Len(stack) : stack'[i] = stack[i]
        /\ Len(stack) \in Nat
    BY <1>1, PushFacts
  <1>3. DOMAIN stack = 1..Len(stack) /\ DOMAIN stack' = 1..(Len(stack) + 1)
    BY <1>1, <1>2, LenProperties
  <1>4. \A i \in DOMAIN stack' : i \in DOMAIN stack \/ i = Len(stack) + 1
    BY <1>2, <1>3
  <1>5. \A i \in DOMAIN stack' : FrameOK(stack'[i])
    BY <1>2, <1>3, <1>4 DEF TypeOK
  <1>6. \A i \in DOMAIN stack : i \in DOMAIN stack' /\ stack'[i] = stack[i]
    BY <1>2, <1>3
  <1> QED
    BY <1>2, <1>5, <1>6 DEF Pending

\* A pop: only what the top frame owed is no longer pending.
LEMMA Popped ==
  ASSUME TypeOK, stack # <<>>, stack' = Lower
  PROVE  /\ stack' \in Seq(FrameType)
         /\ \A i \in DOMAIN stack' : FrameOK(stack'[i])
         /\ \A op \in {"create", "delete"}, s \in Slots :
              Pending(op, s) =>
                \/ Pending(op, s)'
                \/ Top.op = op /\ Top.at = "post" /\ Top.slot = s
  <1>1. stack \in Seq(FrameType)
    BY DEF TypeOK
  <1>2. /\ stack' \in Seq(FrameType) /\ Len(stack') = Len(stack) - 1
        /\ \A i \in 1..(Len(stack) - 1) : stack'[i] = stack[i]
    BY <1>1, FrontFacts DEF Lower
  <1>3. /\ Len(stack) \in Nat \ {0} /\ DOMAIN stack = 1..Len(stack)
        /\ DOMAIN stack' = 1..(Len(stack) - 1)
    BY <1>2, TopTyped, LenProperties
  <1>4. \A i \in DOMAIN stack' : i \in DOMAIN stack /\ stack'[i] = stack[i]
    BY <1>2, <1>3
  <1>5. \A i \in DOMAIN stack : i \in DOMAIN stack' \/ stack[i] = Top
    BY <1>3 DEF Top
  <1>6. \A i \in DOMAIN stack' : FrameOK(stack'[i])
    BY <1>4 DEF TypeOK
  <1> QED
    BY <1>2, <1>4, <1>5, <1>6 DEF Pending

\* A frame that waited for its handler before the body goes on to the other.
LEMMA Advanced ==
  ASSUME TypeOK, stack # <<>>, Top.at = "pre",
         NEW s \in Hooked, Top.kind = KindOf[s],
         stack' = Append(Lower, [Top EXCEPT !.at = "post", !.slot = s])
  PROVE  /\ stack' \in Seq(FrameType)
         /\ \A i \in DOMAIN stack' : FrameOK(stack'[i])
         /\ \A op \in {"create", "delete"}, t \in Slots :
              Pending(op, t) => Pending(op, t)'
         /\ \A op \in {"create", "delete"} : op = Top.op => Pending(op, s)'
  <1> DEFINE frame == [Top EXCEPT !.at = "post", !.slot = s]
             n == Len(stack)
  <1>1. stack \in Seq(FrameType)
    BY DEF TypeOK
  <1>2. n \in Nat \ {0} /\ DOMAIN stack = 1..n /\ Top \in FrameType
    BY TopTyped
  <1>3. /\ frame \in FrameType /\ FrameOK(frame) /\ frame.op = Top.op
        /\ frame.at = "post" /\ frame.slot = s
    BY <1>2 DEF FrameType, FrameOK, Hooked
  <1>4. /\ Lower \in Seq(FrameType) /\ Len(Lower) = n - 1
        /\ \A i \in 1..(n - 1) : Lower[i] = stack[i]
    BY <1>1, FrontFacts DEF Lower
  <1> HIDE DEF frame, n
  <1>5. stack' = Append(Lower, frame)
    BY DEF frame
  <1>6. /\ stack' \in Seq(FrameType) /\ Len(stack') = n - 1 + 1
        /\ stack'[n - 1 + 1] = frame
        /\ \A i \in 1..(n - 1) : stack'[i] = Lower[i]
    BY <1>3, <1>4, <1>5, PushFacts
  <1>7. /\ DOMAIN stack' = DOMAIN stack /\ stack'[n] = frame /\ n \in DOMAIN stack'
        /\ \A i \in DOMAIN stack \ {n} : stack'[i] = stack[i]
    <2>1. n - 1 + 1 = n /\ n \in 1..n /\ \A i \in (1..n) \ {n} : i \in 1..(n - 1)
      BY <1>2
    <2>2. DOMAIN stack' = 1..n /\ stack'[n] = frame
      BY <2>1, <1>6, LenProperties
    <2>3. \A i \in (1..n) \ {n} : stack'[i] = stack[i]
      BY <2>1, <1>4, <1>6
    <2> QED
      BY <2>1, <2>2, <2>3, <1>2
  <1>8. \A i \in DOMAIN stack' : FrameOK(stack'[i])
    BY <1>3, <1>7 DEF TypeOK
  <1>9. stack[n].at # "post"
    BY DEF Top, n
  <1>10. \A op \in {"create", "delete"}, t \in Slots : Pending(op, t) => Pending(op, t)'
    BY <1>7, <1>9 DEF Pending
  <1>11. \A op \in {"create", "delete"} : op = Top.op => Pending(op, s)'
    BY <1>3, <1>7 DEF Pending
  <1> QED
    BY <1>6, <1>8, <1>10, <1>11

-----------------------------------------------------------------------------
(* A slot: what one step can do to it.                                       *)

\* The slot is cleared or left alone; its entity goes, with the clear still to
\* come or never; an item comes, with the clear still to come; or Lua asks for
\* the table.
SlotStep(s) ==
  \/ table'[s] = NoTable
  \/ table'[s] = table[s] /\ entity'[s] = entity[s]
  \/ /\ table'[s] = table[s] /\ entity'[s] = 0
     /\ Pending("delete", s)' \/ KindOf[s] \in {"human", "body"}
  \/ /\ table'[s] = table[s] /\ entity'[s] # 0
     /\ KindOf[s] = "item" /\ Pending("create", s)'
  \/ table'[s] = [state |-> lua, entity |-> entity[s]] /\ entity'[s] = entity[s]

\* A clear that is owed stays owed until it is made.
DebtKept(s) ==
  \/ table'[s] = NoTable
  \/ /\ Pending("delete", s) => Pending("delete", s)'
     /\ KindOf[s] = "item" /\ Pending("create", s) => Pending("create", s)'

GoodStep ==
  /\ TypeOK'
  /\ \A s \in Slots : SlotStep(s) /\ DebtKept(s)
  /\ lua' = lua \/ \A s \in Slots : table'[s] = NoTable

\* A step that leaves the stack and the Lua state alone and clears what it
\* touches.
LEMMA ClearingStep ==
  ASSUME TypeOK, UNCHANGED <<lua, stack>>,
         entity' \in [Slots -> Nat], table' \in [Slots -> TableType], births' \in Nat,
         \A s \in Slots : \/ table'[s] = NoTable
                          \/ table'[s] = table[s] /\ entity'[s] = entity[s]
  PROVE  GoodStep
  BY DEF GoodStep, TypeOK, SlotStep, DebtKept, Pending, FrameOK

\* A body that creates, with the types of its results.
LEMMA BodyCreatesTyped ==
  ASSUME TypeOK, NEW s \in Slots, BodyCreates(s)
  PROVE  /\ births' \in Nat /\ entity' \in [Slots -> Nat] /\ entity'[s] # 0
         /\ \A t \in Slots : t # s => entity'[t] = entity[t]
  BY DEF TypeOK, BodyCreates

LEMMA BodyDeletesTyped ==
  ASSUME TypeOK, NEW s \in Slots, BodyDeletes(s)
  PROVE  /\ entity' \in [Slots -> Nat] /\ entity'[s] = 0
         /\ \A t \in Slots : t # s => entity'[t] = entity[t]
  BY DEF TypeOK, BodyDeletes

LEMMA ClearTyped ==
  ASSUME TypeOK, NEW s \in Slots, Clear(s)
  PROVE  /\ table' \in [Slots -> TableType] /\ table'[s] = NoTable
         /\ \A t \in Slots : t # s => table'[t] = table[t]
  BY DEF TypeOK, Clear, TableType, NoTable

\* The frames that are pushed are in order.
LEMMA FrameTyped ==
  /\ \A kind \in HookedKinds :
       Frame("create", kind, NoSlot) \in FrameType /\ FrameOK(Frame("create", kind, NoSlot))
  /\ \A s \in Hooked :
       Frame("delete", KindOf[s], s) \in FrameType /\ FrameOK(Frame("delete", KindOf[s], s))
  BY DataTablesConstants, NoSlotIsNone DEF Frame, FrameType, FrameOK, Hooked

\* Creations without a handler, by the engine or by Lua.
LEMMA CreatesAtOnce ==
  ASSUME TypeOK, NEW s \in Slots, BodyCreates(s), Clear(s), UNCHANGED <<lua, stack>>
  PROVE  GoodStep
  BY BodyCreatesTyped, ClearTyped, ClearingStep

LEMMA DeletesAtOnce ==
  ASSUME TypeOK, NEW s \in Slots, BodyDeletes(s), Clear(s),
         UNCHANGED <<births, lua, stack>>
  PROVE  GoodStep
  <1>1. births' \in Nat
    BY DEF TypeOK
  <1> QED
    BY <1>1, BodyDeletesTyped, ClearTyped, ClearingStep

\* Every step is a good one.
LEMMA EveryStep ==
  ASSUME TypeOK, [Next]_vars
  PROVE  GoodStep
  <1>1. CASE UNCHANGED vars
    BY <1>1 DEF vars, GoodStep, TypeOK, SlotStep, DebtKept, Pending, FrameOK
  <1>2. ASSUME NEW s \in Slots, CreateQuietly(s) PROVE GoodStep
    BY <1>2, CreatesAtOnce DEF CreateQuietly
  <1>3. ASSUME NEW s \in Slots, EngineFreesBody(s) PROVE GoodStep
    <2>1. entity' \in [Slots -> Nat] /\ \A t \in Slots : t # s => entity'[t] = entity[t]
      BY <1>3, BodyDeletesTyped DEF EngineFreesBody
    <2>2. \A t \in Slots : SlotStep(t) /\ DebtKept(t)
      BY <1>3, <2>1, BodyDeletesTyped
      DEF EngineFreesBody, SlotStep, DebtKept, Pending
    <2> QED
      BY <1>3, <2>1, <2>2 DEF EngineFreesBody, GoodStep, TypeOK, FrameOK
  <1>4. ASSUME NEW s \in Hooked, DeleteQuietly(s) PROVE GoodStep
    BY <1>4, DeletesAtOnce DEF DeleteQuietly, Hooked
  <1>5. ASSUME NEW s \in Hooked, DeleteAsks(s) PROVE GoodStep
    <2>1. /\ stack' = Append(stack, Frame("delete", KindOf[s], s))
          /\ UNCHANGED <<entity, table, births, lua>>
      BY <1>5 DEF DeleteAsks
    <2> QED
      BY <2>1, FrameTyped, Pushed DEF GoodStep, TypeOK, SlotStep, DebtKept
  <1>6. ASSUME NEW kind \in HookedKinds, CreateAsks(kind) PROVE GoodStep
    <2>1. /\ stack' = Append(stack, Frame("create", kind, NoSlot))
          /\ UNCHANGED <<entity, table, births, lua>>
      BY <1>6 DEF CreateAsks
    <2> QED
      BY <2>1, FrameTyped, Pushed DEF GoodStep, TypeOK, SlotStep, DebtKept
  <1>7. CASE CreateAnswered
    <2>1. stack # <<>> /\ Top.op = "create" /\ Top.at = "pre" /\ lua' = lua
      BY <1>7 DEF CreateAnswered, At
    <2>2. CASE stack' = Lower /\ UNCHANGED <<entity, table, births>>
      BY <2>1, <2>2, Popped DEF GoodStep, TypeOK, SlotStep, DebtKept
    <2>3. ASSUME NEW s \in Slots, KindOf[s] = Top.kind, BodyCreates(s),
                 IF KindOf[s] = "item" THEN UNCHANGED table ELSE Clear(s),
                 stack' = Append(Lower, [Top EXCEPT !.at = "post", !.slot = s])
          PROVE  GoodStep
      <3>1. s \in Hooked
        BY <2>1, <2>3, TopTyped DEF Hooked, FrameType
      <3>2. /\ stack' \in Seq(FrameType) /\ \A i \in DOMAIN stack' : FrameOK(stack'[i])
            /\ \A op \in {"create", "delete"}, t \in Slots : Pending(op, t) => Pending(op, t)'
            /\ Pending("create", s)'
        BY <2>1, <2>3, <3>1, Advanced
      <3>3. /\ births' \in Nat /\ entity' \in [Slots -> Nat] /\ entity'[s] # 0
            /\ \A t \in Slots : t # s => entity'[t] = entity[t]
        BY <2>3, BodyCreatesTyped
      <3>4. /\ table' \in [Slots -> TableType]
            /\ \A t \in Slots : t # s => table'[t] = table[t]
            /\ table'[s] = NoTable \/ (KindOf[s] = "item" /\ table'[s] = table[s])
        <4>1. CASE KindOf[s] = "item"
          BY <2>3, <4>1 DEF TypeOK
        <4>2. CASE KindOf[s] # "item"
          BY <2>3, <4>2, ClearTyped
        <4> QED
          BY <4>1, <4>2
      <3>5. \A t \in Slots : SlotStep(t) /\ DebtKept(t)
        BY <3>2, <3>3, <3>4 DEF SlotStep, DebtKept
      <3> QED
        BY <2>1, <3>2, <3>3, <3>4, <3>5 DEF GoodStep, TypeOK
    <2> QED
      BY <1>7, <2>2, <2>3 DEF CreateAnswered
  <1>8. CASE CreateReturns
    <2>1. /\ stack # <<>> /\ Top.op = "create" /\ Top.at = "post"
          /\ IF Top.kind = "item" THEN Clear(Top.slot) ELSE UNCHANGED table
          /\ stack' = Lower /\ UNCHANGED <<entity, births, lua>>
      BY <1>8 DEF CreateReturns, At
    <2>2. Top.slot \in Slots /\ Top.kind = KindOf[Top.slot]
      BY <2>1, TopTyped
    <2>3. /\ table' \in [Slots -> TableType]
          /\ \A t \in Slots : t # Top.slot => table'[t] = table[t]
          /\ \/ table'[Top.slot] = NoTable
             \/ KindOf[Top.slot] # "item" /\ table'[Top.slot] = table[Top.slot]
      BY <2>1, <2>2, ClearTyped DEF TypeOK
    <2>4. \A t \in Slots : SlotStep(t) /\ DebtKept(t)
      BY <2>1, <2>3, Popped DEF SlotStep, DebtKept
    <2> QED
      BY <2>1, <2>3, <2>4, Popped DEF GoodStep, TypeOK
  <1>9. CASE DeleteAnswered
    <2>1. /\ stack # <<>> /\ Top.op = "delete" /\ Top.at = "pre"
          /\ UNCHANGED <<table, births, lua>>
      BY <1>9 DEF DeleteAnswered, At
    <2>2. /\ Top.slot \in Slots /\ Top.kind = KindOf[Top.slot] /\ Top.slot \in Hooked
          /\ Top \in FrameType
      BY <2>1, TopTyped
    <2>3. CASE stack' = Lower /\ UNCHANGED entity
      BY <2>1, <2>3, Popped DEF GoodStep, TypeOK, SlotStep, DebtKept
    <2>4. CASE /\ BodyDeletes(Top.slot)
               /\ stack' = Append(Lower, [Top EXCEPT !.at = "post"])
      <3>1. [Top EXCEPT !.at = "post"] = [Top EXCEPT !.at = "post", !.slot = Top.slot]
        BY <2>2 DEF FrameType
      <3>2. /\ stack' \in Seq(FrameType) /\ \A i \in DOMAIN stack' : FrameOK(stack'[i])
            /\ \A op \in {"create", "delete"}, t \in Slots : Pending(op, t) => Pending(op, t)'
            /\ \A t \in Slots : t = Top.slot => Pending("delete", t)'
        BY <2>1, <2>2, <2>4, <3>1, Advanced
      <3>3. /\ entity' \in [Slots -> Nat] /\ entity'[Top.slot] = 0
            /\ \A t \in Slots : t # Top.slot => entity'[t] = entity[t]
        BY <2>2, <2>4, BodyDeletesTyped
      <3>4. \A t \in Slots : SlotStep(t) /\ DebtKept(t)
        BY <2>1, <3>2, <3>3 DEF SlotStep, DebtKept
      <3> QED
        BY <2>1, <3>2, <3>3, <3>4 DEF GoodStep, TypeOK
    <2> QED
      BY <1>9, <2>3, <2>4 DEF DeleteAnswered
  <1>10. CASE DeleteReturns
    <2>1. /\ stack # <<>> /\ Top.op = "delete" /\ Top.at = "post"
          /\ Clear(Top.slot) /\ stack' = Lower /\ UNCHANGED <<entity, births, lua>>
      BY <1>10 DEF DeleteReturns, At
    <2>2. Top.slot \in Slots
      BY <2>1, TopTyped
    <2>3. /\ table' \in [Slots -> TableType] /\ table'[Top.slot] = NoTable
          /\ \A t \in Slots : t # Top.slot => table'[t] = table[t]
      BY <2>1, <2>2, ClearTyped
    <2>4. \A t \in Slots : SlotStep(t) /\ DebtKept(t)
      BY <2>1, <2>3, Popped DEF SlotStep, DebtKept
    <2> QED
      BY <2>1, <2>3, <2>4, Popped DEF GoodStep, TypeOK
  <1>11. ASSUME NEW s \in Hooked, ApiCreates(s) PROVE GoodStep
    BY <1>11, CreatesAtOnce DEF ApiCreates, Hooked
  <1>12. ASSUME NEW s \in Hooked, ApiRemoves(s) PROVE GoodStep
    BY <1>12, DeletesAtOnce DEF ApiRemoves, Hooked
  <1>13. ASSUME NEW old \in Slots, NEW s \in Slots, HumansCreateReplaces(old, s)
         PROVE  GoodStep
    <2>1. KindOf[old] = "human" /\ UNCHANGED <<lua, stack>>
      BY <1>13 DEF HumansCreateReplaces
    <2>2. /\ entity' \in [Slots -> Nat] /\ births' \in Nat
          /\ \A t \in Slots : t # old /\ entity'[t] # entity[t] => table'[t] = NoTable
          /\ entity'[old] = 0 \/ table'[old] = NoTable
          /\ table' \in [Slots -> TableType]
          /\ \A t \in Slots : table'[t] = table[t] \/ table'[t] = NoTable
      <3>1. CASE BodyDeletes(old) /\ UNCHANGED <<table, births>>
        BY <3>1, BodyDeletesTyped DEF TypeOK
      <3>2. CASE /\ births' = births + 1
                 /\ entity' = [entity EXCEPT ![old] = 0, ![s] = births + 1]
                 /\ Clear(s)
        <4>1. /\ table' \in [Slots -> TableType] /\ table'[s] = NoTable
              /\ \A t \in Slots : t # s => table'[t] = table[t]
          BY <3>2, ClearTyped
        <4>2. /\ births' \in Nat /\ entity' \in [Slots -> Nat]
              /\ \A t \in Slots \ {old, s} : entity'[t] = entity[t]
              /\ entity'[old] = 0 \/ old = s
          BY <3>2 DEF TypeOK
        <4> QED
          BY <4>1, <4>2
      <3> QED
        BY <1>13, <3>1, <3>2 DEF HumansCreateReplaces
    <2>3. \A t \in Slots : SlotStep(t) /\ DebtKept(t)
      BY <2>1, <2>2 DEF SlotStep, DebtKept, Pending
    <2> QED
      BY <2>1, <2>2, <2>3 DEF GoodStep, TypeOK, FrameOK
  <1>14. ASSUME NEW s \in Slots, GetDataTable(s) PROVE GoodStep
    <2>1. /\ UNCHANGED <<entity, births, lua, stack>>
          /\ table' \in [Slots -> TableType]
          /\ table'[s] = [state |-> lua, entity |-> entity[s]]
          /\ \A t \in Slots : t # s => table'[t] = table[t]
      BY <1>14 DEF GetDataTable, TypeOK, TableType
    <2>2. \A t \in Slots : SlotStep(t) /\ DebtKept(t)
      BY <2>1 DEF SlotStep, DebtKept, Pending
    <2> QED
      BY <2>1, <2>2 DEF GoodStep, TypeOK, FrameOK
  <1>15. CASE LuaInit
    <2>1. /\ UNCHANGED <<entity, births, stack>> /\ lua' \in Nat \ {0}
          /\ table' \in [Slots -> TableType] /\ \A t \in Slots : table'[t] = NoTable
      BY <1>15 DEF LuaInit, TypeOK, NoTable, TableType
    <2> QED
      BY <2>1 DEF GoodStep, TypeOK, FrameOK, SlotStep, DebtKept
  <1> QED
    BY <1>1, <1>2, <1>3, <1>4, <1>5, <1>6, <1>7, <1>8, <1>9, <1>10, <1>11, <1>12,
       <1>13, <1>14, <1>15 DEF Next, Detours, LuaCalls

-----------------------------------------------------------------------------
(* The theorems.                                                             *)

LEMMA InitTyped == Init => TypeOK
  BY DEF Init, TypeOK, TableType, NoTable

\* The state keeps its types, and a detour that waits for its Post handler
\* always knows which slot it is about.
THEOREM TypeCorrect == Spec => []TypeOK
  <1>1. TypeOK /\ [Next]_vars => TypeOK'
    BY EveryStep DEF GoodStep
  <1> QED
    BY InitTyped, <1>1, PTL DEF Spec

\* luaInit leaves no table of the state it deletes, and no table is made in
\* another state than the one that is alive.
THEOREM TablesStayLive == Spec => []TablesOfLiveState
  <1>1. Init => TablesOfLiveState
    BY DEF Init, TablesOfLiveState, HasTable
  <1>2. TypeOK /\ TablesOfLiveState /\ [Next]_vars => TablesOfLiveState'
    <2> SUFFICES ASSUME TypeOK, TablesOfLiveState, [Next]_vars,
                        NEW s \in Slots, table'[s] # NoTable
                 PROVE  table'[s].state = lua'
      BY DEF TablesOfLiveState, HasTable
    <2>1. SlotStep(s) /\ lua' = lua
      BY EveryStep DEF GoodStep
    <2>2. CASE table'[s] = table[s]
      BY <2>1, <2>2 DEF TablesOfLiveState, HasTable
    <2>3. CASE table'[s] = [state |-> lua, entity |-> entity[s]]
      BY <2>1, <2>3
    <2> QED
      BY <2>1, <2>2, <2>3 DEF SlotStep
  <1> QED
    BY TypeCorrect, <1>1, <1>2, PTL DEF Spec

\* No entity shows the data of a former occupant of its slot, items only until
\* their PostItemCreate handler has returned.
THEOREM NothingInherited == Spec => []NoInheritedData
  <1>1. Init => NoInheritedData
    BY DEF Init, NoInheritedData
  <1>2. TypeOK /\ NoInheritedData /\ [Next]_vars => NoInheritedData'
    <2> SUFFICES ASSUME TypeOK, NoInheritedData, [Next]_vars,
                        NEW s \in Slots, table'[s] # NoTable, entity'[s] # 0
                 PROVE  \/ table'[s].entity = entity'[s]
                        \/ KindOf[s] = "item" /\ Pending("create", s)'
      BY DEF NoInheritedData, HasTable
    <2>1. SlotStep(s) /\ DebtKept(s)
      BY EveryStep DEF GoodStep
    <2>2. CASE table'[s] = table[s] /\ entity'[s] = entity[s]
      BY <2>1, <2>2 DEF NoInheritedData, HasTable, DebtKept
    <2>3. CASE /\ table'[s] = [state |-> lua, entity |-> entity[s]]
               /\ entity'[s] = entity[s]
      BY <2>3
    <2> QED
      BY <2>1, <2>2, <2>3 DEF SlotStep
  <1> QED
    BY TypeCorrect, <1>1, <1>2, PTL DEF Spec

\* The data of an entity that is gone is gone too when the detour of its
\* deletion has returned, except for replaced humans and for rigid bodies.
THEOREM NothingRemains == Spec => []RemovedLeavesNoData
  <1>1. Init => RemovedLeavesNoData
    BY DEF Init, RemovedLeavesNoData, HasTable
  <1>2. TypeOK /\ RemovedLeavesNoData /\ [Next]_vars => RemovedLeavesNoData'
    <2> SUFFICES ASSUME TypeOK, RemovedLeavesNoData, [Next]_vars,
                        NEW s \in Slots, table'[s] # NoTable, entity'[s] = 0
                 PROVE  \/ table'[s].entity = 0
                        \/ Pending("delete", s)'
                        \/ KindOf[s] \in {"human", "body"}
      BY DEF RemovedLeavesNoData, HasTable
    <2>1. SlotStep(s) /\ DebtKept(s)
      BY EveryStep DEF GoodStep
    <2>2. CASE table'[s] = table[s] /\ entity'[s] = entity[s]
      BY <2>1, <2>2 DEF RemovedLeavesNoData, HasTable, DebtKept
    <2>3. CASE /\ table'[s] = [state |-> lua, entity |-> entity[s]]
               /\ entity'[s] = entity[s]
      BY <2>3
    <2> QED
      BY <2>1, <2>2, <2>3 DEF SlotStep
  <1> QED
    BY TypeCorrect, <1>1, <1>2, PTL DEF Spec

\* Entities are numbered in the order of their creation.
Numbered == \A s \in Slots : entity[s] <= births

LEMMA NumberedInvariant == Spec => []Numbered
  <1>1. Init => Numbered
    <2> SUFFICES ASSUME Init, NEW s \in Slots PROVE entity[s] <= births
      BY DEF Numbered
    <2>1. entity[s] = 0 /\ births = 0
      BY DEF Init
    <2> QED
      BY <2>1
  <1>2. TypeOK /\ Numbered /\ [Next]_vars => Numbered'
    <2> SUFFICES ASSUME TypeOK, Numbered, [Next]_vars PROVE Numbered'
      OBVIOUS
    <2>1. CASE UNCHANGED <<entity, births>>
      BY <2>1 DEF Numbered
    <2>2. ASSUME NEW s \in Slots, BodyCreates(s) PROVE Numbered'
      BY <2>2 DEF BodyCreates, Numbered, TypeOK
    <2>3. ASSUME NEW s \in Slots, BodyDeletes(s), births' = births PROVE Numbered'
      BY <2>3 DEF BodyDeletes, Numbered, TypeOK
    <2>4. ASSUME NEW old \in Slots, NEW s \in Slots, HumansCreateReplaces(old, s)
          PROVE  Numbered'
      <3>1. CASE BodyDeletes(old) /\ UNCHANGED <<table, births>>
        BY <2>3, <3>1
      <3>2. CASE /\ births' = births + 1
                 /\ entity' = [entity EXCEPT ![old] = 0, ![s] = births + 1]
        BY <3>2 DEF Numbered, TypeOK
      <3> QED
        BY <2>4, <3>1, <3>2 DEF HumansCreateReplaces
    <2>5. CASE UNCHANGED vars
      BY <2>1, <2>5 DEF vars
    <2>6. CASE Detours
      <3>1. CASE \E s \in Slots : CreateQuietly(s) \/ EngineFreesBody(s)
        BY <2>2, <2>3, <3>1 DEF CreateQuietly, EngineFreesBody
      <3>2. CASE \E s \in Hooked : DeleteQuietly(s) \/ DeleteAsks(s)
        BY <2>1, <2>3, <3>2 DEF DeleteQuietly, DeleteAsks, Hooked
      <3>3. CASE \E kind \in HookedKinds : CreateAsks(kind)
        BY <2>1, <3>3 DEF CreateAsks
      <3>4. CASE CreateAnswered
        BY <2>1, <2>2, <3>4 DEF CreateAnswered
      <3>5. CASE CreateReturns \/ DeleteReturns
        BY <2>1, <3>5 DEF CreateReturns, DeleteReturns
      <3>6. CASE DeleteAnswered
        BY <2>1, <2>3, <3>6, TopTyped DEF DeleteAnswered, At
      <3> QED
        BY <2>6, <3>1, <3>2, <3>3, <3>4, <3>5, <3>6 DEF Detours
    <2>7. CASE LuaCalls
      BY <2>1, <2>2, <2>3, <2>4, <2>7
      DEF LuaCalls, ApiCreates, ApiRemoves, GetDataTable, Hooked
    <2>8. CASE LuaInit
      BY <2>1, <2>8 DEF LuaInit
    <2> QED
      BY <2>5, <2>6, <2>7, <2>8 DEF Next
  <1> QED
    BY TypeCorrect, <1>1, <1>2, PTL DEF Spec

\* The data of a living entity is dropped with it, by a reset, or by one of the
\* two late clears, and in no other way.
THEOREM LiveDataStays == Spec => LiveDataKept
  <1>1. TypeOK /\ Numbered /\ [Next]_vars => [KeepsLiveData]_vars
    <2> SUFFICES ASSUME TypeOK, Numbered, Next PROVE KeepsLiveData
      OBVIOUS
    <2>1. CASE table' = table
      BY <2>1 DEF KeepsLiveData
    <2>2. ASSUME NEW s \in Slots, BodyCreates(s), Clear(s) PROVE KeepsLiveData
      <3>1. entity[s] = 0 /\ \A t \in Slots : t # s => table'[t] = table[t]
        BY <2>2, ClearTyped DEF BodyCreates
      <3> QED
        BY <3>1 DEF KeepsLiveData
    <2>3. ASSUME NEW s \in Slots, BodyDeletes(s), Clear(s) PROVE KeepsLiveData
      <3>1. entity'[s] = 0 /\ \A t \in Slots : t # s => table'[t] = table[t]
        BY <2>3, ClearTyped, BodyDeletesTyped
      <3> QED
        BY <3>1 DEF KeepsLiveData
    <2>4. ASSUME NEW old \in Slots, NEW s \in Slots, HumansCreateReplaces(old, s)
          PROVE  KeepsLiveData
      <3>1. CASE UNCHANGED table
        BY <2>1, <3>1
      <3>2. CASE /\ entity' = [entity EXCEPT ![old] = 0, ![s] = births + 1]
                 /\ Clear(s)
        <4>1. entity'[s] # entity[s]
          BY <3>2 DEF Numbered, TypeOK
        <4>2. \A t \in Slots : t # s => table'[t] = table[t]
          BY <3>2, ClearTyped
        <4> QED
          BY <4>1, <4>2 DEF KeepsLiveData
      <3> QED
        BY <2>4, <3>1, <3>2 DEF HumansCreateReplaces
    <2>5. ASSUME NEW s \in Slots, GetDataTable(s) PROVE KeepsLiveData
      BY <2>5 DEF GetDataTable, KeepsLiveData, HasTable, TypeOK
    <2>6. CASE LuaInit
      BY <2>6 DEF LuaInit, KeepsLiveData, TypeOK
    <2>7. CASE CreateReturns \/ DeleteReturns
      <3>1. /\ stack # <<>> /\ Top.at = "post" /\ stack' = Lower
            /\ UNCHANGED table \/ (Clear(Top.slot) /\ (Top.op = "delete" \/ Top.kind = "item"))
        BY <2>7 DEF CreateReturns, DeleteReturns, At
      <3>2. Top.slot \in Slots /\ Top.kind = KindOf[Top.slot]
        BY <3>1, TopTyped
      <3>3. CASE Clear(Top.slot) /\ (Top.op = "delete" \/ Top.kind = "item")
        BY <3>1, <3>2, <3>3, ClearTyped DEF KeepsLiveData, LateClear
      <3> QED
        BY <2>1, <3>1, <3>3
    <2>8. CASE CreateAnswered
      <3>1. ASSUME NEW s \in Slots, BodyCreates(s),
                   IF KindOf[s] = "item" THEN UNCHANGED table ELSE Clear(s)
            PROVE  KeepsLiveData
        BY <2>1, <2>2, <3>1
      <3> QED
        BY <2>1, <2>8, <3>1 DEF CreateAnswered
    <2>9. CASE DeleteAnswered
      BY <2>1, <2>9 DEF DeleteAnswered
    <2>10. CASE Detours
      BY <2>1, <2>2, <2>3, <2>7, <2>8, <2>9, <2>10
      DEF Detours, CreateQuietly, EngineFreesBody, DeleteQuietly, DeleteAsks,
          CreateAsks, Hooked
    <2>11. CASE LuaCalls
      BY <2>2, <2>3, <2>4, <2>5, <2>11 DEF LuaCalls, ApiCreates, ApiRemoves, Hooked
    <2> QED
      BY <2>6, <2>10, <2>11 DEF Next
  <1> QED
    BY TypeCorrect, NumberedInvariant, <1>1, PTL DEF Spec, LiveDataKept

=============================================================================
