--------------------------- MODULE InstSelection ----------------------------
(***************************************************************************)
(* Which instructions of a module are fault injection targets: the opcodes *)
(* Controller.cpp makes of the include and exclude lists, the backward and *)
(* forward traces of FIInstSelector, and the intersection that             *)
(* FIInstSelectorManager takes of its selectors.                           *)
(*                                                                         *)
(* src[i] are the instructions that are operands of i; the graph may have  *)
(* cycles, through phi instructions.                                       *)
(***************************************************************************)
EXTENDS Integers, Sequences, FiniteSets, FiniteSetsExt

(* getOpcodeListofFIInsts: the names are read up to the first "all", and   *)
(* one that is not an opcode ends the compiler.                            *)
BadList(include, exclude, opcodes) ==
  \/ ~(exclude \subseteq opcodes)
  \/ \E k \in DOMAIN include :
       \A j \in 1 .. k : include[j] # "all" /\ (j = k => include[j] \notin opcodes)

OpcodeList(include, exclude, opcodes) ==
  {o \in opcodes : \E k \in DOMAIN include : include[k] \in {"all", o}} \ exclude

(* getInitFIInsts with isInstFITarget of InstTypeFIInstSelector.           *)
InitFIInsts(opcode, opcodelist) == {i \in DOMAIN opcode : opcode[i] \in opcodelist}

Users(src) == [i \in DOMAIN src |-> {j \in DOMAIN src : i \in src[j]}]

(* getBackwardTraceofInst over src, getForwardTraceofInst over its users:  *)
(* a neighbour not yet in the set is put there, and then visited.          *)
NeighboursOf(next, set) ==         \* mutant: the neighbours are not visited
  set \cup UNION {next[i] : i \in set}

(* What a step makes of the set so far, for one instruction after another. *)
InTurn(step, seen, set) == FoldSet(LAMBDA i, s : step[<<s, i>>], seen, set)

Visit(next) ==
  LET pairs == (SUBSET DOMAIN next) \X DOMAIN next
      visit[p \in pairs] ==
        InTurn([q \in pairs |-> IF q[2] \in q[1] THEN q[1]
                                ELSE visit[<<q[1] \cup {q[2]}, q[2]>>]],
               p[1], next[p[2]])
  IN visit

TraceOf(next, set) == InTurn(Visit(next), {}, set)

(* FIInstSelector.getFIInsts: both traces start from the initial set.      *)
SelectorInsts(init, src, backward, forward) ==
  init \cup (IF backward THEN TraceOf(src, init) ELSE {})
       \cup (IF forward THEN TraceOf(Users(src), init) ELSE {})

(* FIInstSelectorManager.getFIInsts: what every selector has, its traces   *)
(* included.                                                               *)
SelectedInsts(inits, src, backward, forward) ==
  {i \in DOMAIN src : \A init \in inits : i \in SelectorInsts(init, src, backward, forward)}
=============================================================================
