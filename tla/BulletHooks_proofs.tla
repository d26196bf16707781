------------------------- MODULE BulletHooks_proofs -------------------------
(***************************************************************************)
(* The flag of BulletHooks tells the truth, for any number of operations.  *)
(* The argument: a simulation and a body of the main loop are only ever at *)
(* the bottom of the stack, so the flag does not change while another frame *)
(* is there; every test below then has the same flag as the bottom frame.  *)
(***************************************************************************)
EXTENDS BulletHooks, SequenceTheorems, TLAPS

\* After the top frame is gone the others are where they were.
LEMMA FrontFacts ==
  ASSUME NEW S, NEW s \in Seq(S), s # <<>>
  PROVE  /\ SubSeq(s, 1, Len(s) - 1) \in Seq(S)
         /\ Len(SubSeq(s, 1, Len(s) - 1)) = Len(s) - 1
         /\ \A i \in 1..(Len(s) - 1) : SubSeq(s, 1, Len(s) - 1)[i] = s[i]
  <1> DEFINE n == Len(s) - 1
             t == SubSeq(s, 1, n)
  <1>1. Len(s) \in Nat \ {0} /\ \A i \in 1..Len(s) : s[i] \in S
    BY EmptySeq, LenProperties
  <1>2. n \in Nat /\ 1 \in Int /\ n \in Int /\ \A i \in 1..n : s[i] \in S
    BY <1>1
  <1> HIDE DEF n
  <1>3. /\ t \in Seq(S)
        /\ Len(t) = IF 1 <= n THEN n - 1 + 1 ELSE 0
        /\ \A i \in 1..(n - 1 + 1) : t[i] = s[1 + i - 1]
    BY <1>2, SubSeqProperties
  <1>4. Len(t) = n
    BY <1>2, <1>3
  <1>5. ASSUME NEW i \in 1..n
        PROVE  t[i] = s[i]
    <2>1. i \in 1..(n - 1 + 1) /\ 1 + i - 1 = i
      BY <1>2
    <2> QED
      BY <2>1, <1>3
  <1> QED
    BY <1>3, <1>4, <1>5 DEF n

\* A new frame on top leaves the others where they were.
LEMMA PushFacts ==
  ASSUME NEW S, NEW s \in Seq(S), NEW e \in S
  PROVE  /\ Append(s, e) \in Seq(S)
         /\ Append(s, e) # <<>>
         /\ Len(Append(s, e)) = Len(s) + 1
         /\ Append(s, e)[Len(s) + 1] = e
         /\ \A i \in 1..Len(s) : Append(s, e)[i] = s[i]
         /\ Len(s) \in Nat
  BY AppendProperties, LenProperties

\* The top frame of a stack is one of its frames.
LEMMA LastFacts ==
  ASSUME NEW S, NEW s \in Seq(S), s # <<>>
  PROVE  /\ Len(s) \in Nat \ {0}
         /\ DOMAIN s = 1..Len(s)
         /\ Len(s) \in DOMAIN s
         /\ s[Len(s)] \in S
  BY EmptySeq, LenProperties

Tests == {"human", "level"}

\* What is known of the frame at i of s while the flag is flag.
FrameSound(s, flag, i) ==
  /\ s[i].fn \in {"simulation", "engine"} <=> i = 1
  /\ i = 1 => (flag <=> s[i].fn = "simulation")
  /\ s[i].at \in {"pre", "post"} => s[i].fn = "simulation"
  /\ s[i].at = "body" <=> s[i].fn \notin Tests /\ s[i].at \notin {"pre", "post"}
  /\ s[i].bullet <=> flag /\ s[i].fn \in Tests
  /\ s[i].bullet => s[i].ofBullet \/ \E j \in 1..(i - 1) : s[j].fn = "api"
  /\ s[i].at = "bullethit" => s[i].bullet

Sound(s, flag) ==
  /\ s \in Seq(FrameType)
  /\ flag \in BOOLEAN
  /\ s = <<>> => ~flag
  /\ \A i \in 1..Len(s) : FrameSound(s, flag, i)

\* The inductive invariant.
IInv == Sound(stack, isInBulletSimulation)

\* A call and a change of the frame on top leave the frames below sound.
LEMMA PushSound ==
  ASSUME NEW s \in Seq(FrameType), NEW flag \in BOOLEAN, NEW e \in FrameType,
         \A i \in 1..Len(s) : FrameSound(s, flag, i),
         FrameSound(Append(s, e), flag, Len(s) + 1)
  PROVE  Sound(Append(s, e), flag)
  <1> DEFINE t == Append(s, e)
  <1>1. /\ t \in Seq(FrameType) /\ t # <<>>
        /\ Len(t) = Len(s) + 1 /\ Len(s) \in Nat
        /\ \A i \in 1..Len(s) : t[i] = s[i]
    BY PushFacts
  <1> HIDE DEF t
  <1>2. ASSUME NEW i \in 1..Len(s)
        PROVE  FrameSound(t, flag, i)
    <2>1. FrameSound(s, flag, i) /\ t[i] = s[i] /\ \A j \in 1..(i - 1) : t[j] = s[j]
      BY <1>1
    <2> QED
      BY <2>1 DEF FrameSound
  <1>3. \A i \in 1..Len(t) : i \in 1..Len(s) \/ i = Len(s) + 1
    BY <1>1
  <1> QED
    BY <1>1, <1>2, <1>3 DEF Sound, t

\* So does a return.
LEMMA PopSound ==
  ASSUME NEW s \in Seq(FrameType), NEW flag \in BOOLEAN, s # <<>>,
         \A i \in 1..Len(s) : FrameSound(s, flag, i)
  PROVE  LET t == SubSeq(s, 1, Len(s) - 1)
         IN  /\ t \in Seq(FrameType) /\ Len(t) = Len(s) - 1 /\ Len(t) \in Nat
             /\ \A i \in 1..Len(t) : t[i] = s[i] /\ FrameSound(t, flag, i)
  <1> DEFINE t == SubSeq(s, 1, Len(s) - 1)
  <1>1. /\ t \in Seq(FrameType) /\ Len(t) = Len(s) - 1
        /\ \A i \in 1..(Len(s) - 1) : t[i] = s[i]
    BY FrontFacts
  <1>2. Len(s) \in Nat \ {0}
    BY LastFacts
  <1> HIDE DEF t
  <1>3. ASSUME NEW i \in 1..Len(t)
        PROVE  FrameSound(t, flag, i)
    <2>1. i \in 1..Len(s) /\ i \in 1..(Len(s) - 1)
      BY <1>1, <1>2
    <2>2. FrameSound(s, flag, i) /\ t[i] = s[i] /\ \A j \in 1..(i - 1) : t[j] = s[j]
      BY <1>1, <1>2, <2>1
    <2> QED
      BY <2>2 DEF FrameSound
  <1> QED
    BY <1>1, <1>2, <1>3 DEF t

\* The frame on top and what is below it.
LEMMA TopFacts ==
  ASSUME IInv, stack # <<>>
  PROVE  /\ Len(stack) \in Nat \ {0}
         /\ Top \in FrameType
         /\ FrameSound(stack, isInBulletSimulation, Len(stack))
         /\ stack[1] \in FrameType
         /\ FrameSound(stack, isInBulletSimulation, 1)
         /\ Lower \in Seq(FrameType) /\ Len(Lower) = Len(stack) - 1
         /\ \A i \in 1..Len(Lower) :
              Lower[i] = stack[i] /\ FrameSound(Lower, isInBulletSimulation, i)
         /\ isInBulletSimulation \in BOOLEAN
  <1>1. /\ Len(stack) \in Nat \ {0} /\ Top \in FrameType
        /\ DOMAIN stack = 1..Len(stack)
    BY LastFacts DEF IInv, Sound, Top
  <1>2. /\ FrameSound(stack, isInBulletSimulation, Len(stack))
        /\ FrameSound(stack, isInBulletSimulation, 1)
        /\ stack[1] \in FrameType
        /\ isInBulletSimulation \in BOOLEAN
    BY <1>1 DEF IInv, Sound
  <1>3. /\ Lower \in Seq(FrameType) /\ Len(Lower) = Len(stack) - 1
        /\ \A i \in 1..Len(Lower) :
             Lower[i] = stack[i] /\ FrameSound(Lower, isInBulletSimulation, i)
    BY PopSound DEF IInv, Sound, Lower
  <1> QED
    BY <1>1, <1>2, <1>3

\* A frame that is put in place of the top one.
LEMMA BecomeSound ==
  ASSUME IInv, stack # <<>>, NEW e \in FrameType,
         e.fn = Top.fn, e.bullet = Top.bullet, e.ofBullet = Top.ofBullet,
         e.at \in {"pre", "post"} => e.fn = "simulation",
         e.at = "body" <=> e.fn \notin Tests /\ e.at \notin {"pre", "post"},
         e.at = "bullethit" => e.bullet
  PROVE  Sound(Append(Lower, e), isInBulletSimulation)
  <1> DEFINE t == Append(Lower, e)
  <1>1. /\ t[Len(Lower) + 1] = e
        /\ \A i \in 1..Len(Lower) : t[i] = Lower[i]
        /\ Len(Lower) + 1 = Len(stack) /\ Len(stack) \in Nat \ {0}
    BY TopFacts, PushFacts
  <1>2. FrameSound(stack, isInBulletSimulation, Len(stack))
    BY TopFacts
  <1>3. \A j \in 1..(Len(stack) - 1) : t[j] = stack[j]
    BY <1>1, TopFacts
  <1> HIDE DEF t
  <1>4. FrameSound(t, isInBulletSimulation, Len(Lower) + 1)
    BY <1>1, <1>2, <1>3 DEF FrameSound, Top
  <1> QED
    BY <1>4, TopFacts, PushSound DEF t

\* A test begins: its variable bullet is set as the flag says.
LEMMA TestSound ==
  ASSUME IInv, At("body"), NEW fn \in Tests, NEW place \in {"mayhit", "line"}
  PROVE  Sound(Append(stack, TestFrame(fn, place)), isInBulletSimulation)
  <1> DEFINE e == TestFrame(fn, place)
             t == Append(stack, e)
  <1>1. stack # <<>> /\ stack \in Seq(FrameType) /\ isInBulletSimulation \in BOOLEAN
    BY DEF At, IInv, Sound
  <1>2. e \in FrameType
    BY <1>1 DEF FrameType, Tests, LuaAt, TestFrame
  <1>3. /\ e.fn = fn /\ e.at = place /\ e.bullet = isInBulletSimulation
        /\ e.ofBullet <=> Top.fn = "simulation"
    BY <1>1, <1>2 DEF TestFrame, Top
  <1>4. /\ t[Len(stack) + 1] = e
        /\ \A i \in 1..Len(stack) : t[i] = stack[i]
    BY <1>1, <1>2, PushFacts
  <1>5. Len(stack) \in Nat \ {0} /\ Len(stack) + 1 - 1 = Len(stack)
    BY <1>1, TopFacts
  <1>6. Top.fn \in {"simulation", "engine", "api"}
    BY <1>1, TopFacts DEF FrameSound, Tests, FrameType, At, Top
  <1>7. ASSUME isInBulletSimulation, Top.fn # "simulation"
        PROVE  \E j \in 1..(Len(stack) + 1 - 1) : t[j].fn = "api"
    <2> HIDE DEF t
    <2>1. Top.fn # "engine"
      BY <1>1, <1>5, <1>7, TopFacts DEF FrameSound, Top
    <2>2. t[Len(stack)].fn = "api"
      BY <1>4, <1>5, <1>6, <1>7, <2>1 DEF Top
    <2> QED
      BY <1>5, <2>2
  <1>8. FrameSound(t, isInBulletSimulation, Len(stack) + 1)
    <2> HIDE DEF t
    <2> QED
      BY <1>1, <1>3, <1>4, <1>5, <1>7 DEF FrameSound, Tests
  <1>9. Sound(t, isInBulletSimulation)
    BY <1>1, <1>2, <1>8, PushSound DEF IInv, Sound
  <1> QED
    BY <1>9

\* The frame on top ends: one above the bottom, or one with the flag not set.
LEMMA ReturnSound ==
  ASSUME IInv, stack # <<>>, Top.fn \in {"engine", "api"} \cup Tests
  PROVE  Sound(Lower, isInBulletSimulation)
  <1>1. Len(stack) = 1 => ~isInBulletSimulation
    BY TopFacts DEF FrameSound, Top, Tests
  <1>2. Lower = <<>> => Len(Lower) = 0
    OBVIOUS
  <1>3. Lower = <<>> => ~isInBulletSimulation
    BY <1>1, <1>2, TopFacts
  <1> QED
    BY <1>3, TopFacts DEF Sound

\* A simulation ends, and with it the only frame there is.
LEMMA EndSound ==
  ASSUME IInv, stack # <<>>, Top.fn = "simulation"
  PROVE  Sound(Lower, FALSE)
  <1>1. Len(Lower) = 0 /\ Lower \in Seq(FrameType)
    BY TopFacts DEF FrameSound, Top
  <1> QED
    BY <1>1 DEF Sound

\* The top frame moves on to another place of its detour.
LEMMA MoveSound ==
  ASSUME IInv, stack # <<>>, NEW place \in LuaAt \cup {"body", "line", "found"},
         place \in {"pre", "post"} => Top.fn = "simulation",
         place = "body" <=> Top.fn \notin Tests /\ place \notin {"pre", "post"},
         place = "bullethit" => Top.bullet
  PROVE  Sound(Append(Lower, [Top EXCEPT !.at = place]), isInBulletSimulation)
  <1> DEFINE e == [Top EXCEPT !.at = place]
  <1>1. Top \in FrameType
    BY TopFacts
  <1>2. /\ e \in FrameType /\ e.at = place /\ e.fn = Top.fn
        /\ e.bullet = Top.bullet /\ e.ofBullet = Top.ofBullet
    BY <1>1 DEF FrameType
  <1> HIDE DEF e
  <1>3. Sound(Append(Lower, e), isInBulletSimulation)
    BY <1>2, BecomeSound
  <1> QED
    BY <1>3 DEF e

\* A frame that begins a stack.
LEMMA FirstSound ==
  ASSUME IInv, stack = <<>>, NEW flag \in BOOLEAN, NEW e \in FrameType,
         e.fn \in {"simulation", "engine"}, flag <=> e.fn = "simulation",
         e.at = "body" \/ (e.at = "pre" /\ e.fn = "simulation"), ~e.bullet
  PROVE  Sound(Append(stack, e), flag)
  <1>1. Len(stack) = 0 /\ stack \in Seq(FrameType)
    BY DEF IInv, Sound
  <1>2. Append(stack, e)[Len(stack) + 1] = e
    BY <1>1, PushFacts
  <1>3. FrameSound(Append(stack, e), flag, Len(stack) + 1)
    BY <1>1, <1>2 DEF FrameSound, Tests
  <1>4. \A i \in 1..Len(stack) : FALSE
    BY <1>1
  <1> QED
    BY <1>1, <1>3, <1>4, PushSound

-----------------------------------------------------------------------------
LEMMA InitSound == Init => IInv
  <1> SUFFICES ASSUME Init
               PROVE  Sound(<<>>, FALSE)
    BY DEF Init, IInv
  <1>1. <<>> \in Seq(FrameType) /\ Len(<<>>) = 0
    OBVIOUS
  <1>2. \A i \in 1..Len(<<>>) : FALSE
    BY <1>1
  <1> QED
    BY <1>1, <1>2 DEF Sound

LEMMA StepSound == IInv /\ [Next]_vars => IInv'
  <1> SUFFICES ASSUME IInv, [Next]_vars
               PROVE  Sound(stack', isInBulletSimulation')
    BY DEF IInv
  <1> USE DEF At
  <1>1. CASE LuaInit
    BY <1>1 DEF LuaInit, IInv
  <1>2. CASE EngineBegins
    <2>1. Frame("engine", "body") \in FrameType
      BY DEF Frame, FrameType
    <2>2. isInBulletSimulation' = FALSE
      BY <1>2 DEF EngineBegins, IInv, Sound
    <2> QED
      BY <1>2, <2>1, <2>2, FirstSound DEF EngineBegins, Push, Frame
  <1>3. CASE SimulationBegins
    <2> DEFINE live  == "PhysicsBullets" \in enabledKeys
               place == IF live /\ run THEN "pre" ELSE "body"
               e     == [Frame("simulation", place) EXCEPT !.live = live]
    <2>0. \A b \in BOOLEAN, p \in {"pre", "body"} :
            LET f == [Frame("simulation", p) EXCEPT !.live = b]
            IN  /\ f \in FrameType /\ f.fn = "simulation" /\ f.bullet = FALSE
                /\ f.at = p
      BY DEF Frame, FrameType, LuaAt
    <2>1. /\ e \in FrameType /\ e.fn = "simulation" /\ e.bullet = FALSE
          /\ e.at \in {"pre", "body"}
      <3>1. live \in BOOLEAN /\ place \in {"pre", "body"}
        OBVIOUS
      <3> HIDE DEF live, place
      <3> QED
        BY <2>0, <3>1
    <2>2. stack = <<>> /\ stack' = Append(stack, e) /\ isInBulletSimulation' = TRUE
      BY <1>3 DEF SimulationBegins, Push
    <2> HIDE DEF e
    <2> QED
      BY <2>1, <2>2, FirstSound
  <1>4. ASSUME NEW noParent \in BOOLEAN, SimulationAsked(noParent)
        PROVE  Sound(stack', isInBulletSimulation')
    <2>1. stack # <<>> /\ Top.fn = "simulation"
      BY <1>4, TopFacts DEF SimulationAsked, FrameSound, Top
    <2>2. CASE noParent
      BY <1>4, <2>1, <2>2, EndSound DEF SimulationAsked
    <2>3. CASE ~noParent
      <3>1. Sound(Append(Lower, [Top EXCEPT !.at = "body"]), isInBulletSimulation)
        BY <2>1, MoveSound DEF Tests, LuaAt
      <3> QED
        BY <1>4, <2>3, <3>1 DEF SimulationAsked, Become
    <2> QED
      BY <2>2, <2>3
  <1>5. CASE SimulationReturns
    <2>1. stack # <<>> /\ Top.fn = "simulation"
      BY <1>5 DEF SimulationReturns
    <2>2. Sound(Append(Lower, [Top EXCEPT !.at = "post"]), isInBulletSimulation)
      BY <2>1, MoveSound DEF Tests, LuaAt
    <2>3. Sound(Lower, FALSE)
      BY <2>1, EndSound
    <2> QED
      BY <1>5, <2>2, <2>3 DEF SimulationReturns, Become
  <1>6. CASE PostReturns
    <2>1. stack # <<>> /\ Top.fn = "simulation"
      BY <1>6, TopFacts DEF PostReturns, FrameSound, Top
    <2> QED
      BY <1>6, <2>1, EndSound DEF PostReturns
  <1>7. CASE BodyReturns
    BY <1>7, ReturnSound DEF BodyReturns
  <1>8. CASE TestsHuman
    BY <1>8, TestSound DEF TestsHuman, Push, Tests
  <1>9. CASE TestsLevel
    BY <1>9, TestSound DEF TestsLevel, Push, Tests
  <1>10. CASE MayHitReturns
    <2>1. stack # <<>> /\ Top.fn \in Tests
      BY <1>10, TopFacts DEF MayHitReturns, FrameSound, Top
    <2>2. Sound(Append(Lower, [Top EXCEPT !.at = "line"]), isInBulletSimulation)
      BY <2>1, MoveSound DEF LuaAt
    <2> QED
      BY <1>10, <2>2 DEF MayHitReturns, Become
  <1>11. ASSUME NEW hit \in BOOLEAN, LineTested(hit)
         PROVE  Sound(stack', isInBulletSimulation')
    <2>1. stack # <<>> /\ Top.fn \in Tests
      BY <1>11, TopFacts DEF LineTested, FrameSound, Top
    <2>2. \A place \in {"hit", "found"} :
            Sound(Append(Lower, [Top EXCEPT !.at = place]), isInBulletSimulation)
      BY <2>1, MoveSound DEF LuaAt
    <2>3. Sound(Lower, isInBulletSimulation)
      BY <2>1, ReturnSound
    <2> QED
      BY <1>11, <2>2, <2>3 DEF LineTested, Become
  <1>12. ASSUME NEW noParent \in BOOLEAN, HitReturns(noParent)
         PROVE  Sound(stack', isInBulletSimulation')
    <2>1. stack # <<>> /\ Top.fn \in Tests
      BY <1>12, TopFacts DEF HitReturns, FrameSound, Top
    <2>2. Sound(Append(Lower, [Top EXCEPT !.at = "found"]), isInBulletSimulation)
      BY <2>1, MoveSound DEF LuaAt
    <2>3. Sound(Lower, isInBulletSimulation)
      BY <2>1, ReturnSound
    <2> QED
      BY <1>12, <2>2, <2>3 DEF HitReturns, Become
  <1>13. ASSUME NEW hurts \in BOOLEAN, NEW garbage \in BOOLEAN, HumanFound(hurts, garbage)
         PROVE  Sound(stack', isInBulletSimulation')
    <2>1. /\ stack # <<>> /\ Top.fn \in Tests
          /\ Top.bullet <=> isInBulletSimulation
      BY <1>13, TopFacts DEF HumanFound, FrameSound, Top
    <2>2. isInBulletSimulation =>
            Sound(Append(Lower, [Top EXCEPT !.at = "bullethit"]), isInBulletSimulation)
      BY <2>1, MoveSound DEF LuaAt
    <2>3. Sound(Lower, isInBulletSimulation)
      BY <2>1, ReturnSound
    <2> QED
      BY <1>13, <2>2, <2>3 DEF HumanFound, Become
  <1>14. CASE BulletHitReturns
    <2>1. stack # <<>> /\ Top.fn \in Tests
      BY <1>14, TopFacts DEF BulletHitReturns, FrameSound, Top
    <2> QED
      BY <1>14, <2>1, ReturnSound DEF BulletHitReturns
  <1>15. CASE LuaCallsApi
    <2>1. Frame("api", "body") \in FrameType
      BY DEF Frame, FrameType
    <2>2. stack # <<>> /\ stack \in Seq(FrameType) /\ Len(stack) \in Nat \ {0}
      BY <1>15, TopFacts DEF LuaCallsApi, InLua, IInv, Sound
    <2>3. Append(stack, Frame("api", "body"))[Len(stack) + 1] = Frame("api", "body")
      BY <2>1, <2>2, PushFacts
    <2>4. FrameSound(Append(stack, Frame("api", "body")), isInBulletSimulation, Len(stack) + 1)
      BY <2>2, <2>3 DEF FrameSound, Frame, Tests
    <2> QED
      BY <1>15, <2>1, <2>2, <2>4, PushSound DEF LuaCallsApi, Push, IInv, Sound
  <1>16. ASSUME NEW keys \in SUBSET Keys, LuaSetsKeys(keys)
         PROVE  Sound(stack', isInBulletSimulation')
    BY <1>16 DEF LuaSetsKeys, IInv
  <1>17. CASE UNCHANGED vars
    BY <1>17 DEF vars, IInv
  <1> QED
    BY <1>1, <1>2, <1>3, <1>4, <1>5, <1>6, <1>7, <1>8, <1>9, <1>10, <1>11, <1>12,
       <1>13, <1>14, <1>15, <1>16, <1>17 DEF Next

LEMMA FlagIsRight == Spec => []IInv
  BY InitSound, StepSound, PTL DEF Spec

\* A handler is given a bullet only for a test of a bullet, however deep calls
\* nest, and never a variable that was not set: the property of the run, for any
\* number of operations.
THEOREM BulletsTold == Spec => []BulletsAreBullets
  <1>1. IInv => BulletsAreBullets
    BY DEF IInv, Sound, FrameSound, BulletsAreBullets
  <1> QED
    BY <1>1, FlagIsRight, PTL

=============================================================================
