----------------------------- MODULE ForkStack -----------------------------
(***************************************************************************)
(* The second half of sys_fork(): the child's copy of the stack is         *)
(* relocated by adding the distance between the stacks to the saved frame  *)
(* pointers.  Memory is a small number of words, addressed modulo its size *)
(* as the processor's pointers are modulo 2^32.                            *)
(*                                                                         *)
(* The parent is a program whose main() was entered with EBP = 0 (its      *)
(* stack was cleared and stk_setup() leaves ebp alone) and which has called*)
(* fork() from some depth; -O0 code keeps a frame pointer in every frame.  *)
(***************************************************************************)
EXTENDS Integers, Sequences

CONSTANTS
  STACK_WDS,   \* words in a stack
  LowWords,    \* words below the stacks, the NULL address included
  Fill         \* what words outside the stacks may contain

ASSUME ForkStackAssumption ==
  /\ STACK_WDS \in Nat /\ STACK_WDS >= 5
  /\ LowWords \in Nat /\ LowWords > STACK_WDS
  /\ Fill \subseteq Nat

Size == LowWords + 2 * STACK_WDS
Words == 0..(Size - 1)
Parent == LowWords                 \* pcb->stack
Child == LowWords + STACK_WDS      \* stk
StackAt(base) == base..(base + STACK_WDS - 1)
offset == Child - Parent

VARIABLES
  frames,      \* offsets of the saved EBPs, the youngest frame first
  mem,
  ebp,         \* REG(new,ebp)
  bp, lastbp,
  steps,       \* iterations of the loop so far
  written,     \* where sys_fork() has stored a relocated word
  pc

vars == <<frames, mem, ebp, bp, lastbp, steps, written, pc>>

\* Above main()'s saved EBP lie its return address, the argument pointer and
\* the argument string.
main == frames[Len(frames)]
Chains == {f \in UNION {[1..n -> 0..(STACK_WDS - 4)] : n \in 1..(STACK_WDS - 3)} :
             \A i \in 1..(Len(f) - 1) : f[i] < f[i + 1]}
ParentWord(f, s) ==
  LET i == {j \in DOMAIN f : f[j] = s}
  IN  IF s = f[Len(f)] + 2 THEN Parent + f[Len(f)] + 3    \* avptr
      ELSE IF \E j \in i : j < Len(f)
           THEN Parent + f[(CHOOSE j \in i : TRUE) + 1]
      ELSE 0                       \* main()'s saved EBP, and everything else

\* A fork from any depth, with the parent's stack already copied by blkmov().
Init ==
  /\ frames \in Chains
  /\ \E low \in [1..(LowWords - 1) -> Fill] :
       mem = [a \in Words |->
                IF a \in StackAt(Parent) THEN ParentWord(frames, a - Parent)
                ELSE IF a \in StackAt(Child) THEN ParentWord(frames, a - Child)
                ELSE IF a = 0 THEN 0 ELSE low[a]]
  /\ ebp = Parent + frames[1]
  /\ bp = 0 /\ lastbp = 0 /\ steps = 0 /\ written = {} /\ pc = "regs"

\* REG(new,ebp) += offset, and the walk starts there.
FixRegisters ==
  /\ pc = "regs"
  /\ ebp' = IF ebp # 0 THEN (ebp + offset) % Size ELSE ebp
  /\ bp' = ebp'
  /\ pc' = "loop"
  /\ UNCHANGED <<frames, mem, lastbp, steps, written>>

\* Faulty: the walk goes on from the word as it was before it was relocated.
FollowChain_Stale ==
  /\ pc = "loop" /\ bp # 0
  /\ mem' = [mem EXCEPT ![bp] = (@ + offset) % Size]
  /\ written' = written \cup {bp}
  /\ lastbp' = bp
  /\ bp' = mem[bp]
  /\ steps' = steps + 1
  /\ UNCHANGED <<frames, ebp, pc>>

\* One iteration of the loop that follows the EBP chain.
FollowChain ==
  /\ pc = "loop" /\ bp # 0
  /\ steps < 2 * Size              \* bound
  /\ mem' = [mem EXCEPT ![bp] = (@ + offset) % Size]
  /\ written' = written \cup {bp}
  /\ lastbp' = bp
  /\ bp' = mem'[bp]
  /\ steps' = steps + 1
  /\ UNCHANGED <<frames, ebp, pc>>

\* The loop ends at a NULL pointer; the argument pointer is two words on.
FixArguments ==
  /\ pc = "loop" /\ bp = 0
  /\ LET a == (lastbp + 2) % Size
     IN  /\ mem' = [mem EXCEPT ![a] = (@ + offset) % Size]
         /\ written' = written \cup {a}
  /\ pc' = "done"
  /\ UNCHANGED <<frames, ebp, bp, lastbp, steps>>

Next == FixRegisters \/ FollowChain \/ FixArguments
Spec == Init /\ [][Next]_vars

-----------------------------------------------------------------------------
(* Correctness *)

\* The walk visits the saved EBPs of the child in order, leaves the parent's
\* stack alone and makes each saved EBP point to the next frame of the child.
\* It does not end there: main()'s saved EBP is 0, but is relocated before it
\* is tested, so the walk goes on at the word numbered offset and the loop is
\* never left with lastbp at main()'s frame, as the comment behind it says it is.
ChainFollowed ==
  /\ pc = "loop" /\ steps <= Len(frames) =>
       /\ written = {Child + frames[i] : i \in 1..steps}
       /\ bp = IF steps < Len(frames) THEN Child + frames[steps + 1] ELSE offset
       /\ \A i \in 1..steps : i < Len(frames) =>
            mem[Child + frames[i]] = Child + frames[i + 1]
       /\ \A s \in 0..(STACK_WDS - 1) : mem[Parent + s] = ParentWord(frames, s)
  /\ pc = "done" => steps > Len(frames)
=============================================================================
