------------------------------ MODULE JumpDemo ------------------------------
(***************************************************************************)
(* The demonstration of sigsetjmp and siglongjmp (ex2/demos/demo_jmp.c):   *)
(* two functions on stacks of their own, f that gives the processor up     *)
(* after every third line that it prints, g after every fifth.             *)
(***************************************************************************)
EXTENDS Integers

VARIABLES
  currentThread,
  env,       \* env[c], the stack and the place that siglongjmp(env[c]) goes to
  stack,     \* the stack that is used: 0 with f, 1 with g, 2 is main's
  pc,        \* the place in the function that runs
  i          \* i[c], the variable i on stack c: the lines that were printed

vars == << currentThread, env, stack, pc, i >>

Contexts == 0 .. 1
Lines(c) == IF c = 0 THEN 3 ELSE 5

Init ==
  /\ currentThread = 0
  /\ env = [ c \in Contexts |-> [ stack |-> 2, pc |-> "none" ] ]
  /\ stack = 2
  /\ pc = "setup"
  /\ i = [ c \in Contexts |-> 0 ]

\* The buffers are made to go to the beginnings of f and g.
setup ==
  /\ pc = "setup"
  /\ env' = [ c \in Contexts |-> [ stack |-> c, pc |-> "start" ] ]
  /\ pc' = "jump"
  /\ UNCHANGED << currentThread, stack, i >>

\* f and g.
Start ==
  /\ pc = "start"
  /\ i' = [ i EXCEPT ![stack] = 0 ]
  /\ pc' = "loop"
  /\ UNCHANGED << currentThread, env, stack >>

PrintLine ==
  /\ pc = "loop"
  /\ i' = [ i EXCEPT ![stack] = @ + 1 ]
  /\ pc' = IF i'[stack] % Lines(stack) = 0 THEN "switch" ELSE "loop"
  /\ UNCHANGED << currentThread, env, stack >>

\* switchThreads: sigsetjmp returns 0, and later once more 1.
SetJump ==
  /\ pc = "switch"
  /\ env' = [ env EXCEPT ![currentThread] = [ stack |-> stack, pc |-> "return" ] ]
  /\ currentThread' = 1 - currentThread
  /\ pc' = "jump"
  /\ UNCHANGED << stack, i >>

LongJump ==
  /\ pc = "jump"
  /\ stack' = env[currentThread].stack
  /\ pc' = env[currentThread].pc
  /\ UNCHANGED << currentThread, env, i >>

Return ==
  /\ pc = "return"
  /\ pc' = "loop"
  /\ UNCHANGED << currentThread, env, stack, i >>

Next == setup \/ Start \/ PrintLine \/ SetJump \/ LongJump \/ Return

Spec == Init /\ [][Next]_vars
-----------------------------------------------------------------------------
\* The function that runs is that of currentThread, the buffer of the other one
\* leads to the stack of the other one, and the functions take turns: f has
\* printed as many groups of lines as g, or one more.  So the variable i of each
\* survives the jumps.
TakesTurns ==
  /\ pc \notin { "setup", "jump" } =>
       /\ stack = currentThread
       /\ env[1 - stack].stack = 1 - stack
  /\ (i[0] \div 3) - (i[1] \div 5) \in 0 .. 1
  /\ i[0] % 3 # 0 => i[1] % 5 = 0
=============================================================================
