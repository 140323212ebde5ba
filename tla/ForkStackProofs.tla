-------------------------- MODULE ForkStackProofs --------------------------
(***************************************************************************)
(* The relocation loop of sys_fork(), for stacks of any size, a fork from  *)
(* any depth and any contents of the memory below the stacks.              *)
(***************************************************************************)
EXTENDS ForkStack, SequenceTheorems, WellFoundedInduction, TLAPS

\* A chain of frames leads up the stack.
LEMMA ChainType ==
  ASSUME NEW f \in Chains
  PROVE  /\ Len(f) \in Nat /\ Len(f) >= 1 /\ DOMAIN f = 1..Len(f)
         /\ \A i \in 1..Len(f) : f[i] \in Nat /\ f[i] <= STACK_WDS - 4
         /\ \A i \in 1..(Len(f) - 1) : f[i] < f[i + 1]
  <1>1. PICK n \in 1..(STACK_WDS - 3) : f \in [1..n -> 0..(STACK_WDS - 4)]
    BY DEF Chains
  <1>2. n \in Nat /\ n >= 1 /\ STACK_WDS \in Nat
    BY ForkStackAssumption
  <1>3. f \in Seq(0..(STACK_WDS - 4)) /\ DOMAIN f = 1..n
    BY <1>1, <1>2, SeqDef
  <1>4. Len(f) = n
    BY <1>2, <1>3
  <1>5. \A i \in 1..(Len(f) - 1) : f[i] < f[i + 1]
    BY DEF Chains
  <1> QED  BY <1>1, <1>2, <1>3, <1>4, <1>5

LEMMA ChainRises ==
  ASSUME NEW f \in Chains, NEW i \in 1..Len(f), NEW j \in 1..Len(f), i < j
  PROVE  f[i] < f[j]
  <1>1. /\ Len(f) \in Nat /\ \A k \in 1..Len(f) : f[k] \in Nat
        /\ \A k \in 1..(Len(f) - 1) : f[k] < f[k + 1]
    BY ChainType
  <1> DEFINE T == {k \in Nat : k > i /\ k <= Len(f) /\ ~(f[i] < f[k])}
  <1> SUFFICES ASSUME T # {} PROVE FALSE
    BY <1>1
  <1>2. T \subseteq Nat
    OBVIOUS
  <1>3. PICK k \in T : \A y \in T : ~(<<y, k>> \in OpToRel(<, Nat))
    BY <1>2, NatLessThanWellFounded, WFMin, Zenon
  <1>4. \A y \in T : ~(y < k)
    BY <1>2, <1>3 DEF OpToRel
  <1>5. k - 1 \in Nat /\ k - 1 \in 1..(Len(f) - 1) /\ k \in 1..Len(f) /\ k - 1 >= i /\ (k - 1) + 1 = k
    BY <1>1
  <1>6. f[k - 1] < f[k] /\ f[k - 1] \in Nat /\ f[k] \in Nat /\ f[i] \in Nat
    BY <1>1, <1>5
  <1>7. k - 1 = i \/ f[i] < f[k - 1]
    BY <1>1, <1>4, <1>5
  <1> QED  BY <1>6, <1>7

\* The parent's saved EBPs.
LEMMA SavedEBP ==
  ASSUME NEW f \in Chains, NEW j \in 1..Len(f)
  PROVE  /\ j < Len(f) => ParentWord(f, f[j]) = Parent + f[j + 1]
         /\ j = Len(f) => ParentWord(f, f[j]) = 0
         /\ ParentWord(f, f[j]) \in Int
  <1>1. /\ Len(f) \in Nat /\ Len(f) >= 1 /\ DOMAIN f = 1..Len(f)
        /\ \A i \in 1..Len(f) : f[i] \in Nat
    BY ChainType
  <1>2. \A i \in 1..Len(f) : f[i] = f[j] => i = j
    <2> SUFFICES ASSUME NEW i \in 1..Len(f), f[i] = f[j], i # j PROVE FALSE
      OBVIOUS
    <2>1. CASE i < j
      <3>1. f[i] < f[j]
        BY <2>1, ChainRises
      <3> QED  BY <3>1, <1>1
    <2>2. CASE j < i
      <3>1. f[j] < f[i]
        BY <2>2, ChainRises
      <3> QED  BY <3>1, <1>1
    <2> QED  BY <2>1, <2>2, <1>1
  <1> DEFINE I == {k \in DOMAIN f : f[k] = f[j]}
  <1>3. I = {j}
    BY <1>1, <1>2
  <1>4. f[j] <= f[Len(f)]
    <2>1. CASE j = Len(f)
      BY <2>1, <1>1
    <2>2. CASE j < Len(f)
      <3>1. f[j] < f[Len(f)]
        BY <2>2, <1>1, ChainRises
      <3> QED  BY <3>1, <1>1
    <2>3. j = Len(f) \/ j < Len(f)
      <3>1. Len(f) \in Nat
        BY <1>1
      <3> QED  BY <3>1
    <2> QED  BY <2>1, <2>2, <2>3
  <1>5. f[j] # f[Len(f)] + 2
    BY <1>1, <1>4
  <1>6. ParentWord(f, f[j]) = IF \E k \in I : k < Len(f) THEN Parent + f[(CHOOSE k \in I : TRUE) + 1]
                              ELSE 0
    BY <1>5 DEF ParentWord
  <1>7. (CHOOSE k \in I : TRUE) = j
    BY <1>3
  <1> HIDE DEF I
  <1>8. ParentWord(f, f[j]) = IF j < Len(f) THEN Parent + f[j + 1] ELSE 0
    BY <1>3, <1>6, <1>7
  <1>9. Parent \in Int /\ (j < Len(f) => f[j + 1] \in Nat)
    BY <1>1, ForkStackAssumption DEF Parent
  <1>10. j = Len(f) => ~(j < Len(f))
    BY <1>1
  <1>11. CASE j < Len(f)
    BY <1>8, <1>9, <1>10, <1>11
  <1>12. CASE ~(j < Len(f))
    BY <1>8, <1>12
  <1> QED  BY <1>11, <1>12

-----------------------------------------------------------------------------
(* The inductive invariant *)

Copied == \A s \in 0..(STACK_WDS - 1) : mem[Parent + s] = ParentWord(frames, s)

\* What the loop has done after n steps, up to main()'s frame: also, it has not
\* touched the frames that are still to come.
Followed(n) ==
  /\ written = {Child + frames[i] : i \in 1..n}
  /\ bp = IF n < Len(frames) THEN Child + frames[n + 1] ELSE offset
  /\ \A i \in 1..n : i < Len(frames) => mem[Child + frames[i]] = Child + frames[i + 1]
  /\ Copied
  /\ \A i \in (n + 1)..Len(frames) : mem[Child + frames[i]] = ParentWord(frames, frames[i])

ChainInv ==
  /\ frames \in Chains /\ DOMAIN mem = Words
  /\ steps \in Nat
  /\ pc = "regs" => /\ steps = 0 /\ written = {} /\ ebp = Parent + frames[1] /\ Copied
                    /\ \A i \in 1..Len(frames) :
                         mem[Child + frames[i]] = ParentWord(frames, frames[i])
  /\ pc = "loop" /\ steps <= Len(frames) => Followed(steps)
  /\ pc = "done" => steps > Len(frames)

\* The layout of memory.
LEMMA Layout ==
  /\ STACK_WDS \in Nat /\ Parent \in Nat /\ Child = Parent + STACK_WDS /\ Child \in Nat
  /\ Parent > STACK_WDS /\ Size = Parent + 2 * STACK_WDS /\ Size \in Nat
  /\ offset = STACK_WDS /\ STACK_WDS >= 5
  /\ \A s \in 0..(STACK_WDS - 1) : Parent + s \in Words /\ Child + s \in Words
  BY ForkStackAssumption DEF Parent, Child, Size, offset, Words

LEMMA InitChain == Init => ChainInv
  <1> SUFFICES ASSUME Init PROVE ChainInv
    OBVIOUS
  <1>1. frames \in Chains /\ ebp = Parent + frames[1] /\ steps = 0 /\ written = {} /\ pc = "regs"
    BY DEF Init
  <1>2. PICK low \in [1..(LowWords - 1) -> Fill] :
          mem = [a \in Words |->
                   IF a \in StackAt(Parent) THEN ParentWord(frames, a - Parent)
                   ELSE IF a \in StackAt(Child) THEN ParentWord(frames, a - Child)
                   ELSE IF a = 0 THEN 0 ELSE low[a]]
    BY DEF Init
  <1>3. ASSUME NEW s \in 0..(STACK_WDS - 1)
        PROVE  mem[Parent + s] = ParentWord(frames, s) /\ mem[Child + s] = ParentWord(frames, s)
    <2>1. /\ Parent + s \in Words /\ Parent + s \in StackAt(Parent) /\ (Parent + s) - Parent = s
          /\ Child + s \in Words /\ Child + s \in StackAt(Child) /\ (Child + s) - Child = s
          /\ Child + s \notin StackAt(Parent)
      BY Layout DEF StackAt
    <2> QED  BY <2>1, <1>2
  <1>4. ASSUME NEW i \in 1..Len(frames) PROVE frames[i] \in 0..(STACK_WDS - 1)
    <2>1. frames[i] \in Nat /\ frames[i] <= STACK_WDS - 4
      BY <1>1, ChainType
    <2> QED  BY <2>1, Layout
  <1>5. Copied /\ \A i \in 1..Len(frames) :
                    mem[Child + frames[i]] = ParentWord(frames, frames[i])
    BY <1>3, <1>4 DEF Copied
  <1> QED  BY <1>1, <1>2, <1>5 DEF ChainInv

LEMMA RegistersChain == ChainInv /\ FixRegisters => ChainInv'
  <1> SUFFICES ASSUME ChainInv, FixRegisters PROVE ChainInv'
    OBVIOUS
  <1>1. /\ frames \in Chains /\ steps = 0 /\ written = {} /\ ebp = Parent + frames[1] /\ Copied
        /\ \A i \in 1..Len(frames) : mem[Child + frames[i]] = ParentWord(frames, frames[i])
        /\ DOMAIN mem = Words
    BY DEF ChainInv, FixRegisters
  <1>2. /\ bp' = ebp' /\ ebp' = (IF ebp # 0 THEN (ebp + offset) % Size ELSE ebp) /\ pc' = "loop"
        /\ frames' = frames /\ mem' = mem /\ steps' = steps /\ written' = written
    BY DEF FixRegisters
  <1>3. frames[1] \in Nat /\ frames[1] <= STACK_WDS - 4 /\ Len(frames) \in Nat /\ Len(frames) >= 1
    BY <1>1, ChainType
  <1>4. bp' = Child + frames[1]
    <2>1. ebp # 0 /\ ebp + offset = Child + frames[1] /\ Child + frames[1] \in 0..(Size - 1)
      BY <1>1, <1>3, Layout
    <2>2. (Child + frames[1]) % Size = Child + frames[1]
      BY <2>1, Layout
    <2> QED  BY <2>1, <2>2, <1>2
  <1>5. Followed(0)'
    <2>1. written' = {} /\ {Child + frames[i] : i \in 1..0} = {} /\ Copied'
      BY <1>1, <1>2 DEF Copied
    <2>2. bp' = IF 0 < Len(frames') THEN Child + frames'[0 + 1] ELSE offset
      BY <1>2, <1>3, <1>4
    <2>3. \A i \in (0 + 1)..Len(frames') :
            mem'[Child + frames'[i]] = ParentWord(frames', frames'[i])
      BY <1>1, <1>2
    <2>4. written' = {Child + frames'[i] : i \in 1..0}
      BY <2>1, <1>2
    <2>5. \A i \in 1..0 : FALSE
      OBVIOUS
    <2> QED  BY <2>1, <2>2, <2>3, <2>4, <2>5 DEF Followed
  <1> QED  BY <1>1, <1>2, <1>5 DEF ChainInv

LEMMA FollowStep == ChainInv /\ FollowChain => ChainInv'
  <1> SUFFICES ASSUME ChainInv, FollowChain PROVE ChainInv'
    OBVIOUS
  <1>1. frames \in Chains /\ DOMAIN mem = Words /\ steps \in Nat /\ pc = "loop"
        /\ (steps <= Len(frames) => Followed(steps))
    BY DEF ChainInv, FollowChain
  <1>2. /\ mem' = [mem EXCEPT ![bp] = (mem[bp] + offset) % Size] /\ written' = written \cup {bp}
        /\ bp' = mem'[bp] /\ steps' = steps + 1 /\ frames' = frames /\ pc' = "loop"
    BY <1>1 DEF FollowChain
  <1>3. /\ Len(frames) \in Nat /\ Len(frames) >= 1
        /\ \A i \in 1..Len(frames) : frames[i] \in Nat /\ frames[i] <= STACK_WDS - 4
    BY <1>1, ChainType
  <1>4. DOMAIN mem' = Words /\ steps' \in Nat
    BY <1>1, <1>2
  <1>k. PICK k \in Nat : k = steps + 1
    BY <1>1
  <1> SUFFICES ASSUME k <= Len(frames) PROVE Followed(k)'
    <2>1. steps' = k /\ Len(frames') = Len(frames) /\ pc' # "regs"
      BY <1>2, <1>k
    <2>2. Followed(k)' => Followed(steps)'
      BY <2>1 DEF Followed, Copied
    <2> QED  BY <2>1, <2>2, <1>1, <1>2, <1>4 DEF ChainInv
  <1>5. k \in 1..Len(frames) /\ k \in Nat /\ steps < Len(frames)
    BY <1>1, <1>3, <1>k
  <1>6. /\ written = {Child + frames[i] : i \in 1..steps} /\ bp = Child + frames[k]
        /\ \A i \in 1..steps : i < Len(frames) => mem[Child + frames[i]] = Child + frames[i + 1]
        /\ Copied
        /\ \A i \in k..Len(frames) : mem[Child + frames[i]] = ParentWord(frames, frames[i])
    BY <1>1, <1>3, <1>5, <1>k DEF Followed
  <1>7. mem[bp] = ParentWord(frames, frames[k]) /\ bp \in Words
    <2>1. k \in k..Len(frames) /\ frames[k] \in 0..(STACK_WDS - 1)
      BY <1>3, <1>5, Layout
    <2> QED  BY <2>1, <1>6, Layout
  <1>8. mem'[bp] = (ParentWord(frames, frames[k]) + offset) % Size
        /\ \A a \in Words : a # bp => mem'[a] = mem[a]
    BY <1>1, <1>2, <1>7
  <1>9. k < Len(frames) => mem'[bp] = Child + frames[k + 1] /\ bp' = Child + frames[k + 1]
    <2> SUFFICES ASSUME k < Len(frames) PROVE mem'[bp] = Child + frames[k + 1]
      BY <1>2
    <2>1. ParentWord(frames, frames[k]) = Parent + frames[k + 1]
      BY <1>1, <1>5, SavedEBP
    <2>2. k + 1 \in 1..Len(frames)
      BY <1>3, <1>5
    <2>3. frames[k + 1] \in Nat /\ frames[k + 1] <= STACK_WDS - 4
      BY <2>2, <1>3
    <2>4. /\ (Parent + frames[k + 1]) + offset = Child + frames[k + 1]
          /\ Child + frames[k + 1] \in 0..(Size - 1)
      BY <2>3, Layout
    <2>5. (Child + frames[k + 1]) % Size = Child + frames[k + 1]
      BY <2>4, Layout
    <2> QED  BY <2>1, <2>4, <2>5, <1>8
  <1>a. k = Len(frames) => bp' = offset
    <2> SUFFICES ASSUME k = Len(frames) PROVE mem'[bp] = offset
      BY <1>2
    <2>1. ParentWord(frames, frames[k]) = 0
      BY <1>1, <1>5, SavedEBP
    <2>2. (0 + offset) % Size = offset
      BY Layout
    <2> QED  BY <2>1, <2>2, <1>8
  <1>10. ASSUME NEW i \in 1..Len(frames), i # k
         PROVE  Child + frames[i] \in Words /\ Child + frames[i] # bp
    <2>1. frames[i] \in Nat /\ frames[k] \in Nat /\ frames[i] \in 0..(STACK_WDS - 1)
      BY <1>3, <1>5, Layout
    <2>2. frames[i] # frames[k]
      <3>1. CASE i < k
        <4>1. frames[i] < frames[k]
          BY <3>1, <1>1, <1>5, ChainRises
        <4> QED  BY <4>1, <2>1
      <3>2. CASE k < i
        <4>1. frames[k] < frames[i]
          BY <3>2, <1>1, <1>5, ChainRises
        <4> QED  BY <4>1, <2>1
      <3> QED  BY <3>1, <3>2, <1>3, <1>5, <1>10
    <2>3. bp = Child + frames[k] /\ Child \in Nat
      BY <1>6, Layout
    <2>4. Child + frames[i] \in Words
      BY <2>1, Layout
    <2> QED  BY <2>1, <2>2, <2>3, <2>4
  <1>11. written' = {Child + frames[i] : i \in 1..k}
    <2>1. 1..k = (1..steps) \cup {k}
      BY <1>1, <1>k
    <2> QED  BY <2>1, <1>2, <1>6
  <1>12. ASSUME NEW i \in 1..k, i < Len(frames)
         PROVE  mem'[Child + frames[i]] = Child + frames[i + 1]
    <2>1. CASE i = k
      BY <2>1, <1>6, <1>9, <1>12
    <2>2. CASE i # k
      <3>1. i \in 1..steps /\ i \in 1..Len(frames)
        BY <2>2, <1>1, <1>3, <1>5, <1>k
      <3>2. mem[Child + frames[i]] = Child + frames[i + 1]
        BY <3>1, <1>6, <1>12
      <3> QED  BY <3>1, <3>2, <2>2, <1>8, <1>10
    <2> QED  BY <2>1, <2>2
  <1>13. Copied'
    <2>1. ASSUME NEW s \in 0..(STACK_WDS - 1) PROVE mem'[Parent + s] = mem[Parent + s]
      <3>1. frames[k] \in Nat
        BY <1>3, <1>5
      <3>2. bp = Child + frames[k]
        BY <1>6
      <3>3. /\ Parent \in Nat /\ STACK_WDS \in Nat /\ Child = Parent + STACK_WDS
            /\ Parent + s \in Words
        BY Layout
      <3>4. Parent + s # Child + frames[k]
        BY <3>1, <3>3
      <3> QED  BY <3>2, <3>3, <3>4, <1>8
    <2> QED  BY <2>1, <1>2, <1>6 DEF Copied
  <1>14. ASSUME NEW i \in (k + 1)..Len(frames)
         PROVE  mem'[Child + frames[i]] = ParentWord(frames, frames[i])
    <2>1. i \in k..Len(frames) /\ i \in 1..Len(frames) /\ i # k
      BY <1>3, <1>5
    <2> QED  BY <2>1, <1>6, <1>8, <1>10
  <1>15. bp' = IF k < Len(frames) THEN Child + frames[k + 1] ELSE offset
    BY <1>3, <1>5, <1>9, <1>a
  <1> QED  BY <1>2, <1>11, <1>12, <1>13, <1>14, <1>15 DEF Followed

\* Followed with the parts that ChainFollowed states.
LEMMA ChainImplies == ChainInv => ChainFollowed
  BY DEF ChainInv, Followed, Copied, ChainFollowed

\* A fork from any depth: the loop visits the saved EBPs of the child, one after
\* the other, makes each point to the next frame of the child and leaves the
\* parent's stack alone; it does not end at main()'s frame, but goes on at the
\* word numbered offset, whatever lies there.
THEOREM FramesAreRelocated == Spec => []ChainFollowed
  <1>1. Init => ChainInv
    BY InitChain
  <1>2. ChainInv /\ [Next]_vars => ChainInv'
    <2> SUFFICES ASSUME ChainInv, [Next]_vars PROVE ChainInv'
      OBVIOUS
    <2>1. CASE FixRegisters
      BY <2>1, RegistersChain
    <2>2. CASE FollowChain
      BY <2>2, FollowStep
    <2>3. CASE FixArguments
      <3>1. /\ frames' = frames /\ steps' = steps /\ pc' = "done" /\ DOMAIN mem' = DOMAIN mem
            /\ pc = "loop" /\ bp = 0
        BY <2>3 DEF FixArguments
      <3>2. frames \in Chains /\ steps \in Nat
        BY DEF ChainInv
      <3>3. Len(frames) \in Nat /\ \A i \in 1..Len(frames) : frames[i] \in Nat
        BY <3>2, ChainType
      <3>4. steps > Len(frames)
        <4> SUFFICES ASSUME steps <= Len(frames) PROVE FALSE
          BY <3>2, <3>3
        <4>1. bp = IF steps < Len(frames) THEN Child + frames[steps + 1] ELSE offset
          BY <3>1 DEF ChainInv, Followed
        <4>2. steps < Len(frames) => frames[steps + 1] \in Nat
          BY <3>2, <3>3
        <4>3. Child \in Nat /\ Child > 0 /\ offset > 0
          BY Layout
        <4> QED  BY <3>1, <4>1, <4>2, <4>3
      <3> QED  BY <3>1, <3>4 DEF ChainInv
    <2>4. CASE UNCHANGED vars
      BY <2>4 DEF vars, ChainInv, Followed, Copied
    <2> QED  BY <2>1, <2>2, <2>3, <2>4 DEF Next
  <1>3. ChainInv => ChainFollowed
    BY ChainImplies
  <1> QED  BY <1>1, <1>2, <1>3, PTL DEF Spec
=============================================================================
