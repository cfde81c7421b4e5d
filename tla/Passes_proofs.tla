---------------------------- MODULE Passes_proofs ----------------------------
(***************************************************************************)
(* Proofs about the passes, for every instruction, every module and every  *)
(* function main_graph.  A recursive function is some solution of its      *)
(* equation: that it has one is proved first, and what it computes then    *)
(* follows from the equation, by way of the least counterexample.          *)
(***************************************************************************)
EXTENDS Passes, SequenceTheorems, FiniteSetTheorems, TLAPS

(* Induction, as the least counterexample. *)
LEMMA Least ==
  ASSUME NEW S, S \subseteq Nat, S # {}
  PROVE  \E n \in S : \A m \in S : n <= m
<1>1. IsWellFoundedOn(OpToRel(<, Nat), Nat)
  BY NatLessThanWellFounded
<1> DEFINE R == OpToRel(<, Nat)
<1>2. \A x, y \in Nat : x < y => <<x, y>> \in R
  BY DEF OpToRel
<1> HIDE DEF R
<1>3. IsWellFoundedOn(R, Nat)
  BY <1>1 DEF R
<1>4. PICK x \in S : \A y \in S : ~(<<y, x>> \in R)
  BY <1>3, WFMin
<1>5. ASSUME NEW m \in S PROVE x <= m
  <2>1. x \in Nat /\ m \in Nat /\ ~(m < x)
    BY <1>2, <1>4
  <2>2. QED
    BY <2>1
<1>6. QED
  BY <1>4, <1>5

(* A recursive definition has a solution: G gives the value at x of a      *)
(* function f, and depends on f only where r is smaller; T[x] is the set   *)
(* of the values f may have at x.                                          *)
Recursive(D, V, T, N, r, F, G) ==
  /\ T \in [D -> SUBSET V] /\ N \in Nat /\ r \in [D -> 0 .. N]
  /\ F = {f \in [D -> V] : \A x \in D : f[x] \in T[x]} /\ F # {}
  /\ G \in [D \X F -> V]
  /\ \A x \in D, f \in F : G[<<x, f>>] \in T[x]
  /\ \A x \in D, f, g \in F :
       (\A y \in D : r[y] < r[x] => f[y] = g[y]) => G[<<x, f>>] = G[<<x, g>>]

LEMMA Recursion ==
  ASSUME NEW D, NEW V, NEW T, NEW N, NEW r, NEW F, NEW G, Recursive(D, V, T, N, r, F, G)
  PROVE  \E f \in F : \A x \in D : f[x] = G[<<x, f>>]
<1>0. /\ T \in [D -> SUBSET V] /\ N \in Nat /\ r \in [D -> 0 .. N]
      /\ F = {f \in [D -> V] : \A x \in D : f[x] \in T[x]} /\ F # {}
      /\ G \in [D \X F -> V]
      /\ \A x \in D, f \in F : G[<<x, f>>] \in T[x]
      /\ \A x \in D, f, g \in F :
           (\A y \in D : r[y] < r[x] => f[y] = g[y]) => G[<<x, f>>] = G[<<x, g>>]
  BY DEF Recursive
<1>a. \A x \in D, f, g \in F :
         (\A y \in D : r[y] < r[x] => f[y] = g[y]) => G[<<x, f>>] = G[<<x, g>>]
  BY <1>0
<1> DEFINE Solves(f, n) == \A x \in D : r[x] < n => f[x] = G[<<x, f>>]
           Bad == {n \in Nat : ~\E f \in F : Solves(f, n)}
<1>1. \A x \in D : r[x] \in Nat /\ r[x] < N + 1
  BY <1>0
<1>2. Bad = {}
  <2> SUFFICES ASSUME Bad # {} PROVE FALSE
    OBVIOUS
  <2>1. PICK n \in Bad : \A m \in Bad : n <= m
    BY Least
  <2>2. n # 0
    BY <1>0, <1>1
  <2>3. n \in Nat /\ n - 1 \in Nat /\ ~(n <= n - 1) /\ n - 1 < n
    BY <2>2
  <2>4. n - 1 \notin Bad
    BY <2>1, <2>3
  <2>5. PICK f \in F : Solves(f, n - 1)
    BY <2>3, <2>4
  <2> DEFINE g == [x \in D |-> IF r[x] < n - 1 THEN f[x] ELSE G[<<x, f>>]]
  <2>6. g \in F
    BY <1>0
  <2>7. \A x \in D : r[x] < n - 1 => g[x] = f[x]
    OBVIOUS
  <2>8. \A x \in D : r[x] < n => g[x] = G[<<x, f>>]
    BY <2>5
  <2> HIDE DEF g
  <2>9. ASSUME NEW x \in D, r[x] < n PROVE g[x] = G[<<x, g>>]
    <3>1. ASSUME NEW y \in D, r[y] < r[x] PROVE f[y] = g[y]
      <4>1. r[y] < n - 1
        BY <1>1, <2>3, <2>9, <3>1
      <4>2. QED
        BY <2>7, <4>1
    <3>2. \A y \in D : r[y] < r[x] => f[y] = g[y]
      BY <3>1
    <3>3. G[<<x, f>>] = G[<<x, g>>]
      BY <1>a, <2>6, <3>2
    <3>4. QED
      BY <2>8, <2>9, <3>3
  <2>10. QED
    BY <2>6, <2>9
<1>3. PICK f \in F : Solves(f, N + 1)
  <2>1. N + 1 \in Nat
    BY <1>0
  <2>2. N + 1 \notin Bad
    BY <1>2
  <2>3. QED
    BY <2>1, <2>2
<1>4. QED
  BY <1>1, <1>3

-----------------------------------------------------------------------------
(* Kept: its equation and its type. *)
LEMMA KeptEquation ==
  ASSUME NEW E, NEW s \in Seq(E), NEW set
  PROVE  /\ KeptBy(s, set)[0] = << >>
         /\ \A k \in 1 .. Len(s) :
              KeptBy(s, set)[k] = IF s[k] \in set THEN Append(KeptBy(s, set)[k - 1], s[k])
                                  ELSE KeptBy(s, set)[k - 1]
         /\ \A k \in 0 .. Len(s) : KeptBy(s, set)[k] \in Seq(E)
<1> DEFINE D == 0 .. Len(s)
           Next0(f, k) == IF k = 0 THEN << >>
                          ELSE IF s[k] \in set THEN Append(f[k - 1], s[k]) ELSE f[k - 1]
           Solves(f) == f = [k \in D |-> Next0(f, k)]
<1>0. Len(s) \in Nat /\ \A k \in D : k # 0 => k - 1 \in D /\ k - 1 < k /\ s[k] \in E
  OBVIOUS
<1>1. \E f : Solves(f)
  <2> DEFINE F == [D -> Seq(E)]
             T == [k \in D |-> Seq(E)]
             r == [k \in D |-> k]
             G == [p \in D \X F |-> Next0(p[2], p[1])]
  <2>1. ASSUME NEW k \in D, NEW f \in F PROVE Next0(f, k) \in Seq(E) /\ G[<<k, f>>] = Next0(f, k)
    <3>1. << >> \in Seq(E)
      BY EmptySeq
    <3>2. QED
      BY <1>0, <3>1
  <2>2. ASSUME NEW k \in D, NEW f \in F, NEW g \in F, \A j \in D : r[j] < r[k] => f[j] = g[j]
        PROVE  G[<<k, f>>] = G[<<k, g>>]
    <3>1. k # 0 => f[k - 1] = g[k - 1]
      BY <1>0, <2>2
    <3>2. Next0(f, k) = Next0(g, k)
      BY <3>1
    <3>3. QED
      BY <2>1, <3>2
  <2>3. /\ F = {f \in [D -> Seq(E)] : \A k \in D : f[k] \in T[k]}
        /\ T \in [D -> SUBSET Seq(E)] /\ r \in [D -> 0 .. Len(s)]
    OBVIOUS
  <2>4. F # {}
    <3>1. [k \in D |-> << >>] \in F
      BY EmptySeq
    <3>2. QED
      BY <3>1
  <2>5. G \in [D \X F -> Seq(E)]
    BY <2>1
  <2>6. \A k \in D, f \in F : G[<<k, f>>] \in T[k]
    BY <2>1
  <2> HIDE DEF F, T, r, G, D
  <2>7. \A k \in D, f, g \in F :
          (\A j \in D : r[j] < r[k] => f[j] = g[j]) => G[<<k, f>>] = G[<<k, g>>]
    BY <2>2
  <2>8. PICK f \in F : \A k \in D : f[k] = G[<<k, f>>]
    <3>1. Recursive(D, Seq(E), T, Len(s), r, F, G)
      BY <1>0, <2>3, <2>4, <2>5, <2>6, <2>7 DEF Recursive
    <3>2. QED
      BY <3>1, Recursion
  <2>9. f = [k \in D |-> Next0(f, k)]
    <3>1. f = [k \in D |-> f[k]]
      BY DEF F
    <3>2. QED
      BY <2>1, <2>8, <3>1
  <2>10. QED
    BY <2>9
<1>2. Solves(KeptBy(s, set))
  <2>1. KeptBy(s, set) = CHOOSE f : Solves(f)
    BY DEF KeptBy
  <2> HIDE DEF Solves
  <2>2. QED
    BY <1>1, <2>1
<1> HIDE DEF Solves
<1> DEFINE kept == KeptBy(s, set)
<1>3. \A k \in D : kept[k] = Next0(kept, k)
  BY <1>2 DEF Solves
<1> HIDE DEF kept
<1>4. ASSUME NEW k \in D, kept[k] \notin Seq(E) PROVE FALSE
  <2> DEFINE Bad == {j \in D : kept[j] \notin Seq(E)}
  <2>1. PICK j \in Bad : \A i \in Bad : j <= i
    <3>1. Bad \subseteq Nat /\ Bad # {}
      BY <1>0, <1>4
    <3> HIDE DEF Bad
    <3>2. QED
      BY <3>1, Least
  <2>2. << >> \in Seq(E)
    BY EmptySeq
  <2>3. j # 0
    BY <1>3, <2>1, <2>2
  <2>4. kept[j - 1] \in Seq(E)
    BY <1>0, <2>1, <2>3
  <2>5. kept[j] \in Seq(E)
    <3>1. kept[j] = IF s[j] \in set THEN Append(kept[j - 1], s[j]) ELSE kept[j - 1]
      BY <1>3, <2>1, <2>3
    <3>2. s[j] \in E
      BY <1>0, <2>1, <2>3
    <3>3. Append(kept[j - 1], s[j]) \in Seq(E)
      BY <2>4, <3>2, AppendProperties
    <3>4. QED
      BY <2>4, <3>1, <3>3
  <2>6. QED
    BY <2>1, <2>5
<1>5. QED
  BY <1>0, <1>3, <1>4 DEF kept

(* One more element read. *)
LEMMA KeptAppend ==
  ASSUME NEW E, NEW s \in Seq(E), NEW e \in E, NEW set
  PROVE  /\ Kept(s, set) \in Seq(E)
         /\ Kept(Append(s, e), set) = IF e \in set THEN Append(Kept(s, set), e)
                                      ELSE Kept(s, set)
<1> DEFINE t == Append(s, e)
           a == KeptBy(s, set)
           b == KeptBy(t, set)
<1>1. /\ t \in Seq(E) /\ Len(t) = Len(s) + 1 /\ Len(s) \in Nat
      /\ \A k \in 1 .. Len(s) : t[k] = s[k]
      /\ t[Len(s) + 1] = e
  OBVIOUS
<1> HIDE DEF t
<1>2. a[0] = << >> /\ b[0] = << >>
  BY <1>1, KeptEquation
<1>3. /\ \A k \in 1 .. Len(s) : a[k] = IF s[k] \in set THEN Append(a[k - 1], s[k]) ELSE a[k - 1]
      /\ \A k \in 1 .. Len(t) : b[k] = IF t[k] \in set THEN Append(b[k - 1], t[k]) ELSE b[k - 1]
  BY <1>1, KeptEquation
<1>4. a[Len(s)] \in Seq(E)
  BY <1>1, KeptEquation
<1> HIDE DEF a, b
<1>5. a[Len(s)] = b[Len(s)]
  <2> SUFFICES ASSUME a[Len(s)] # b[Len(s)] PROVE FALSE
    OBVIOUS
  <2> DEFINE Bad == {j \in 0 .. Len(s) : a[j] # b[j]}
  <2>1. PICK j \in Bad : \A i \in Bad : j <= i
    <3>1. Bad \subseteq Nat /\ Bad # {}
      BY <1>1
    <3> HIDE DEF Bad
    <3>2. QED
      BY <3>1, Least
  <2>2. j # 0
    BY <1>2, <2>1
  <2>3. j \in 1 .. Len(s) /\ j - 1 \in 0 .. Len(s) /\ ~(j <= j - 1)
    BY <1>1, <2>1, <2>2
  <2>4. a[j - 1] = b[j - 1]
    BY <2>1, <2>3
  <2>5. a[j] = b[j]
    BY <1>1, <1>3, <2>3, <2>4
  <2>6. QED
    BY <2>1, <2>5
<1>6. b[Len(t)] = IF e \in set THEN Append(b[Len(s)], e) ELSE b[Len(s)]
  BY <1>1, <1>3
<1>7. QED
  BY <1>4, <1>5, <1>6 DEF Kept, a, b, t

-----------------------------------------------------------------------------
(* The registers of an instruction and the calls around it. *)
LEMMA KeptNothing ==
  ASSUME NEW E, NEW s \in Seq(E)
  PROVE  Kept(s, {}) = << >>
<1> DEFINE kept == KeptBy(s, {})
<1>1. kept[0] = << >> /\ \A k \in 1 .. Len(s) : kept[k] = kept[k - 1]
  BY KeptEquation
<1>2. Len(s) \in Nat
  OBVIOUS
<1> HIDE DEF kept
<1>3. kept[Len(s)] = << >>
  <2> SUFFICES ASSUME kept[Len(s)] # << >> PROVE FALSE
    OBVIOUS
  <2> DEFINE Bad == {j \in 0 .. Len(s) : kept[j] # << >>}
  <2>1. PICK j \in Bad : \A i \in Bad : j <= i
    <3>1. Bad \subseteq Nat /\ Bad # {}
      BY <1>2
    <3> HIDE DEF Bad
    <3>2. QED
      BY <3>1, Least
  <2>2. j \in 1 .. Len(s) /\ j - 1 \in 0 .. Len(s) /\ ~(j <= j - 1)
    BY <1>1, <1>2, <2>1
  <2>3. QED
    BY <1>1, <2>1, <2>2
<1>4. QED
  BY <1>3 DEF Kept, kept

LEMMA SrcListType ==
  ASSUME NEW inst, NEW regloc, inst.nsrc \in Nat
  PROVE  /\ SrcList(inst, regloc) \in Seq(Nat)
         /\ regloc[1] = "dstreg" => SrcList(inst, regloc) = << >>
<1> DEFINE positions == [k \in 1 .. inst.nsrc |-> k - 1]
           targets   == {pos \in 0 .. inst.nsrc - 1 : /\ SrcTarget(inst, regloc, pos)
                                                      /\ SrcInjectable(inst, pos)}
<1>1. positions \in Seq(Nat) /\ Len(positions) = inst.nsrc
  <2>1. positions \in [1 .. inst.nsrc -> Nat]
    OBVIOUS
  <2>2. QED
    BY <2>1, IsASeq
<1>2. SrcList(inst, regloc) = Kept(positions, targets)
  BY DEF SrcList
<1>3. regloc[1] = "dstreg" => targets = {}
  BY DEF SrcTarget
<1> HIDE DEF positions, targets
<1>4. Kept(positions, targets) \in Seq(Nat)
  BY <1>1, KeptEquation DEF Kept
<1>5. Kept(positions, {}) = << >>
  BY <1>1, KeptNothing
<1>6. QED
  BY <1>2, <1>3, <1>4, <1>5

(* The destination, if it is in the list, comes first; a position is never *)
(* mistaken for it.                                                        *)
LEMMA RegListForm ==
  ASSUME NEW inst, NEW regloc, inst.nsrc \in Nat, inst.self # {} => inst.kind = "phi"
  PROVE  LET regs == RegList(inst, regloc)
         IN /\ regs \in Seq(Int) /\ Len(regs) \in Nat
            /\ regs[1] = DST_REG_POS /\ regs # << >> /\ regloc[1] # "allreg"
                 => Len(regs) = 1 \/ EndsCompiler(inst, regloc)
<1> DEFINE src == SrcList(inst, regloc)
<1>1. src \in Seq(Nat) /\ src \in Seq(Int) /\ Len(src) \in Nat
  <2>1. src \in Seq(Nat)
    BY SrcListType
  <2> HIDE DEF src
  <2>2. QED
    BY <2>1
<1>2. regloc[1] = "dstreg" => src = << >>
  BY SrcListType
<1> HIDE DEF src
<1>3. CASE DstTarget(inst, regloc) /\ inst.dst
  <2>1. RegList(inst, regloc) = <<DST_REG_POS>> \o src
    BY <1>3 DEF RegList, src
  <2>2. <<DST_REG_POS>> \in Seq(Int) /\ Len(<<DST_REG_POS>>) = 1
    BY DEF DST_REG_POS
  <2>3. RegList(inst, regloc) \in Seq(Int) /\ Len(RegList(inst, regloc)) = 1 + Len(src)
    BY <1>1, <2>1, <2>2, ConcatProperties
  <2>4. regloc[1] # "allreg" => Len(src) = 0 \/ EndsCompiler(inst, regloc)
    <3>1. regloc[1] = "srcreg" => inst.kind = "phi"
      BY <1>3 DEF DstTarget
    <3>2. src = << >> => Len(src) = 0
      BY EmptySeq
    <3>3. regloc[1] = "srcreg" => src = << >> \/ EndsCompiler(inst, regloc)
      BY <3>1 DEF EndsCompiler, src
    <3>4. regloc[1] # "allreg" => regloc[1] \in {"dstreg", "srcreg"}
      BY <1>3 DEF DstTarget
    <3>5. QED
      BY <1>2, <3>2, <3>3, <3>4
  <2>5. QED
    BY <1>1, <2>3, <2>4
<1>4. CASE ~(DstTarget(inst, regloc) /\ inst.dst)
  <2>1. RegList(inst, regloc) = << >> \o src
    BY <1>4 DEF RegList, src
  <2>2. RegList(inst, regloc) = src
    BY <1>1, <2>1
  <2>3. src # << >> => src[1] \in Nat
    BY <1>1
  <2>4. QED
    BY <1>1, <2>2, <2>3 DEF DST_REG_POS
<1>5. QED
  BY <1>3, <1>4

(* The calls around an instruction that gets any.                          *)
Instrumented(inst, regloc) ==
  /\ Selected(inst, regloc) /\ ~EndsCompiler(inst, regloc)
  /\ ~Skipped(inst, RegList(inst, regloc)) /\ ~Intrinsic(inst)

LEMMA CallsForm ==
  ASSUME NEW inst, NEW regloc, inst.nsrc \in Nat, inst.self # {} => inst.kind = "phi"
  PROVE  LET regs  == RegList(inst, regloc)
             calls == CallsAround(inst, regloc)
             n     == Len(regs)
         IN /\ ~Instrumented(inst, regloc) => calls = << >>
            /\ Instrumented(inst, regloc) =>
                 /\ n > 0 /\ calls \in Seq(Nat) /\ Len(calls) = n
                 /\ \/ \A k \in 1 .. n : calls[k] = k - 1
                    \/ regs[1] = DST_REG_POS /\ calls[n] = 0 /\ \A k \in 1 .. n - 1 : calls[k] = k
<1> DEFINE regs == RegList(inst, regloc)
           calls == CallsAround(inst, regloc)
           n == Len(regs)
<1>1. regs \in Seq(Int) /\ n \in Nat
  BY RegListForm
<1>2. CASE ~Instrumented(inst, regloc)
  BY <1>2 DEF Instrumented, CallsAround
<1>3. CASE Instrumented(inst, regloc) /\ regs[1] = DST_REG_POS
  <2>1. calls = [k \in 1 .. n - 1 |-> k] \o <<0>>
    BY <1>3 DEF Instrumented, CallsAround
  <2>2. regs # << >>
    BY <1>3 DEF Instrumented, Selected
  <2> HIDE DEF calls, regs
  <2>3. n > 0 /\ n - 1 \in Nat
    BY <1>1, <2>2
  <2> DEFINE sources == [k \in 1 .. n - 1 |-> k]
  <2>4. sources \in Seq(Nat) /\ Len(sources) = n - 1 /\ \A k \in 1 .. n - 1 : sources[k] = k
    <3>1. sources \in [1 .. n - 1 -> Nat]
      OBVIOUS
    <3>2. QED
      BY <2>3, <3>1, IsASeq
  <2> HIDE DEF sources
  <2>5. <<0>> \in Seq(Nat) /\ Len(<<0>>) = 1 /\ <<0>>[1] = 0
    OBVIOUS
  <2>6. /\ sources \o <<0>> \in Seq(Nat) /\ Len(sources \o <<0>>) = n
        /\ \A k \in 1 .. n - 1 : (sources \o <<0>>)[k] = k
        /\ (sources \o <<0>>)[n] = 0
    <3>1. n \in Nat /\ n - 1 + 1 = n /\ n - (n - 1) = 1 /\ ~(n <= n - 1) /\ 1 \in 1 .. 1
      BY <1>1
    <3>2. /\ sources \o <<0>> \in Seq(Nat) /\ Len(sources \o <<0>>) = n - 1 + 1
          /\ \A k \in 1 .. n - 1 + 1 :
               (sources \o <<0>>)[k] = IF k <= n - 1 THEN sources[k] ELSE <<0>>[k - (n - 1)]
      BY <2>4, <2>5, ConcatProperties
    <3>3. QED
      BY <2>3, <2>4, <2>5, <3>1, <3>2
  <2>7. QED
    BY <1>3, <2>1, <2>3, <2>6 DEF regs, calls, sources
<1>4. CASE Instrumented(inst, regloc) /\ regs[1] # DST_REG_POS
  <2>1. calls = [k \in 1 .. n |-> k - 1]
    BY <1>4 DEF Instrumented, CallsAround
  <2>2. regs # << >>
    BY <1>4 DEF Instrumented, Selected
  <2> HIDE DEF calls, regs
  <2>3. n > 0
    BY <1>1, <2>2
  <2>4. calls \in [1 .. n -> Nat]
    BY <1>1, <2>1
  <2>5. calls \in Seq(Nat) /\ Len(calls) = n
    BY <1>1, <2>4, IsASeq, LenProperties
  <2>6. \A k \in 1 .. n : calls[k] = k - 1
    BY <2>1
  <2>7. QED
    BY <1>4, <2>3, <2>5, <2>6 DEF regs, calls
<1>5. QED
  BY <1>2, <1>3, <1>4

(* The input stays what it was. *)
InputFits ==
  /\ pass = "registers" => input \in RegisterInputs
  /\ pass = "selection" => input \in SelectionInputs
  /\ pass = "operators" => input \in OperatorInputs
  /\ pass = "duplication" => input \in DuplicationInputs

LEMMA InputStays == PassSpec => []InputFits
<1>1. PassInit => InputFits
  BY DEF PassInit, InputFits
<1>2. InputFits /\ [PassNext]_<<pass, input>> => InputFits'
  BY DEF InputFits, PassNext
<1>3. QED
  BY <1>1, <1>2, PTL DEF PassSpec

(* The calls around an instruction name each register of its list once.    *)
THEOREM EachRegisterOnceCorrect == PassSpec => []EachRegisterOnce
<1>1. ASSUME InputFits PROVE EachRegisterOnce
  <2> SUFFICES ASSUME pass = "registers"
               PROVE  /\ Len(Calls) \in {0, Len(RegList(input.inst, input.regloc))}
                      /\ {Calls[k] : k \in 1 .. Len(Calls)} = 0 .. Len(Calls) - 1
    BY DEF EachRegisterOnce
  <2>1. input.inst.nsrc \in Nat /\ (input.inst.self # {} => input.inst.kind = "phi")
    BY <1>1, RegisterAssumption DEF InputFits
  <2> DEFINE n == Len(RegList(input.inst, input.regloc))
  <2>2. n \in Nat
    BY <2>1, RegListForm
  <2>3. /\ ~Instrumented(input.inst, input.regloc) => Calls = << >>
        /\ Instrumented(input.inst, input.regloc) =>
             /\ n > 0 /\ Len(Calls) = n
             /\ \/ \A k \in 1 .. n : Calls[k] = k - 1
                \/ Calls[n] = 0 /\ \A k \in 1 .. n - 1 : Calls[k] = k
    BY <2>1, CallsForm DEF Calls
  <2> HIDE DEF n
  <2>4. CASE Calls = << >>
    <3>1. Len(Calls) = 0 /\ 1 .. Len(Calls) = {} /\ 0 .. Len(Calls) - 1 = {}
      BY <2>4
    <3>2. QED
      BY <3>1
  <2>5. CASE Len(Calls) = n /\ n > 0 /\ \A k \in 1 .. n : Calls[k] = k - 1
    <3>1. \A j \in 0 .. n - 1 : j + 1 \in 1 .. n /\ Calls[j + 1] = j
      BY <2>2, <2>5
    <3>2. {Calls[k] : k \in 1 .. n} = 0 .. n - 1
      BY <2>2, <2>5, <3>1
    <3>3. QED
      BY <2>5, <3>2 DEF n
  <2>6. CASE Len(Calls) = n /\ n > 0 /\ Calls[n] = 0 /\ \A k \in 1 .. n - 1 : Calls[k] = k
    <3>1. \A k \in 1 .. n : Calls[k] \in 0 .. n - 1
      BY <2>2, <2>6
    <3>2. \A j \in 0 .. n - 1 : \E k \in 1 .. n : Calls[k] = j
      BY <2>2, <2>6
    <3>3. {Calls[k] : k \in 1 .. n} = 0 .. n - 1
      BY <3>1, <3>2
    <3>4. QED
      BY <2>6, <3>3 DEF n
  <2>7. QED
    BY <2>3, <2>4, <2>5, <2>6
<1>2. QED
  BY <1>1, InputStays, PTL

(* Under every location but allreg the calls are in the order of their     *)
(* registers: OneSidedProgram, which the proofs about the runtime assume.  *)
THEOREM OneSidedUnlessAllCorrect == PassSpec => []OneSidedUnlessAll
<1>1. ASSUME InputFits PROVE OneSidedUnlessAll
  <2> SUFFICES ASSUME pass = "registers", input.regloc # <<"allreg", 0>>
               PROVE  \A k \in 1 .. Len(Calls) : Calls[k] = k - 1
    BY DEF OneSidedUnlessAll
  <2>1. /\ input.inst.nsrc \in Nat /\ (input.inst.self # {} => input.inst.kind = "phi")
        /\ input.regloc[1] # "allreg"
    BY <1>1, RegisterAssumption DEF InputFits
  <2> DEFINE regs == RegList(input.inst, input.regloc)
             n    == Len(regs)
  <2>2. /\ n \in Nat
        /\ regs[1] = DST_REG_POS /\ regs # << >>
             => n = 1 \/ EndsCompiler(input.inst, input.regloc)
    BY <2>1, RegListForm
  <2>3. /\ ~Instrumented(input.inst, input.regloc) => Calls = << >>
        /\ Instrumented(input.inst, input.regloc) =>
             /\ n > 0 /\ Len(Calls) = n
             /\ \/ \A k \in 1 .. n : Calls[k] = k - 1
                \/ regs[1] = DST_REG_POS /\ Calls[n] = 0 /\ \A k \in 1 .. n - 1 : Calls[k] = k
    BY <2>1, CallsForm DEF Calls
  <2>4. Instrumented(input.inst, input.regloc) =>
          regs # << >> /\ ~EndsCompiler(input.inst, input.regloc)
    BY DEF Instrumented, Selected
  <2> HIDE DEF regs
  <2>5. CASE ~Instrumented(input.inst, input.regloc)
    <3>1. Len(Calls) = 0
      BY <2>3, <2>5
    <3>2. QED
      BY <3>1
  <2>6. CASE Instrumented(input.inst, input.regloc)
    BY <2>2, <2>3, <2>4, <2>6
  <2>7. QED
    BY <2>5, <2>6
<1>2. QED
  BY <1>1, InputStays, PTL

(* What is profiled and no intrinsic is instrumented, and nothing else is. *)
THEOREM PassesAgreeCorrect == PassSpec => []PassesAgree
<1>1. ASSUME InputFits PROVE PassesAgree
  <2> SUFFICES ASSUME pass = "registers", ~Intrinsic(input.inst),
                      ~EndsCompiler(input.inst, input.regloc)
               PROVE  Profiled(input.inst, input.regloc) = (Calls # << >>)
    BY DEF PassesAgree
  <2>1. input.inst.nsrc \in Nat /\ (input.inst.self # {} => input.inst.kind = "phi")
    BY <1>1, RegisterAssumption DEF InputFits
  <2>2. Instrumented(input.inst, input.regloc) <=> Calls # << >>
    <3>1. Instrumented(input.inst, input.regloc) => Len(Calls) > 0
      BY <2>1, CallsForm DEF Calls
    <3>2. ~Instrumented(input.inst, input.regloc) => Calls = << >>
      BY <2>1, CallsForm DEF Calls
    <3>3. QED
      BY <3>1, <3>2
  <2>3. Profiled(input.inst, input.regloc) <=> Instrumented(input.inst, input.regloc)
    BY DEF Profiled, Instrumented
  <2>4. Profiled(input.inst, input.regloc) \in BOOLEAN
    BY DEF Profiled, Selected
  <2>5. QED
    BY <2>2, <2>3, <2>4
<1>2. QED
  BY <1>1, InputStays, PTL

-----------------------------------------------------------------------------
(* The scan for tensor operators: after k items the flag is set if and     *)
(* only if a start the layers name is among them, and no end behind it.    *)
Within(main, layers, k) ==
  \E j \in 1 .. k : /\ IsPoint(main, j, Before) /\ shouldInjectFault(main, j, layers)
                    /\ \A e \in j .. k : ~IsPoint(main, e, After)

LEMMA WithinStep ==
  ASSUME NEW main, NEW layers, NEW k \in Nat, k # 0
  PROVE  Within(main, layers, k) =
           IF IsPoint(main, k, Before) /\ shouldInjectFault(main, k, layers) THEN TRUE
           ELSE IF IsPoint(main, k, After) THEN FALSE ELSE Within(main, layers, k - 1)
<1>0. k - 1 \in Nat /\ 1 .. k = (1 .. k - 1) \cup {k}
  OBVIOUS
<1>1. \A j \in 1 .. k - 1 : j .. k = (j .. k - 1) \cup {k}
  OBVIOUS
<1>2. ~(IsPoint(main, k, Before) /\ IsPoint(main, k, After))
  BY DEF IsPoint, Before, After
<1>3. k .. k = {k}
  OBVIOUS
<1> DEFINE Set0 == {j \in 1 .. k : IsPoint(main, j, Before) /\ shouldInjectFault(main, j, layers)}
           End0 == {j \in 1 .. k : IsPoint(main, j, After)}
<1>4. k \in Set0 => k \notin End0
  BY <1>2
<1>5. Within(main, layers, k) <=> \E j \in Set0 : \A e \in j .. k : e \notin End0
  BY DEF Within
<1>6. Within(main, layers, k - 1) <=>
        \E j \in Set0 : j # k /\ \A e \in j .. k - 1 : e \notin End0
  BY <1>0 DEF Within
<1>7. /\ k \in Set0 <=> IsPoint(main, k, Before) /\ shouldInjectFault(main, k, layers)
      /\ k \in End0 <=> IsPoint(main, k, After)
      /\ Set0 \subseteq 1 .. k
  BY <1>0
<1> HIDE DEF Set0, End0
<1>8. ASSUME NEW j \in Set0, \A e \in j .. k : e \notin End0, j # k
      PROVE  k \notin End0 /\ \A e \in j .. k - 1 : e \notin End0
  BY <1>1, <1>7, <1>8
<1>9. ASSUME NEW j \in Set0, j # k, \A e \in j .. k - 1 : e \notin End0, k \notin End0
      PROVE  \A e \in j .. k : e \notin End0
  BY <1>1, <1>7, <1>9
<1> DEFINE now == Within(main, layers, k)
           old == Within(main, layers, k - 1)
<1>10. now \in BOOLEAN /\ old \in BOOLEAN
  BY DEF Within
<1> HIDE DEF now, old
<1>11. now <=> k \in Set0 \/ (k \notin End0 /\ old)
  BY <1>3, <1>4, <1>5, <1>6, <1>7, <1>8, <1>9 DEF now, old
<1>12. now = IF k \in Set0 THEN TRUE ELSE IF k \in End0 THEN FALSE ELSE old
  BY <1>10, <1>11
<1>13. QED
  BY <1>7, <1>12 DEF now, old

LEMMA ScanEquation ==
  ASSUME NEW main, NEW layers, Len(main) \in Nat
  PROVE  \A k \in 0 .. Len(main) :
           isCustomTensorOperator(main, layers)[k] = Within(main, layers, k)
<1> DEFINE D == 0 .. Len(main)
           Sets(k) == IsPoint(main, k, Before) /\ shouldInjectFault(main, k, layers)
           Ends(k) == IsPoint(main, k, After)
           Next0(f, k) == IF k = 0 THEN FALSE
                          ELSE IF Sets(k) THEN TRUE ELSE IF Ends(k) THEN FALSE ELSE f[k - 1]
           Solves(f) == f = [k \in D |-> Next0(f, k)]
           W(k) == Within(main, layers, k)
<1>0. \A k \in D : k # 0 => k - 1 \in D /\ k - 1 < k
  OBVIOUS
<1>1. ASSUME NEW k \in D PROVE W(k) = IF k = 0 THEN FALSE
                                        ELSE IF Sets(k) THEN TRUE
                                        ELSE IF Ends(k) THEN FALSE ELSE W(k - 1)
  <2>1. CASE k = 0
    <3>1. W(k) = FALSE
      BY <2>1 DEF Within
    <3> HIDE DEF W
    <3>2. QED
      BY <2>1, <3>1
  <2>2. CASE k # 0
    <3>1. k \in Nat
      OBVIOUS
    <3>2. W(k) = IF Sets(k) THEN TRUE ELSE IF Ends(k) THEN FALSE ELSE W(k - 1)
      BY <2>2, <3>1, WithinStep, Zenon
    <3> HIDE DEF W, Sets, Ends
    <3>3. QED
      BY <2>2, <3>2
  <2>3. QED
    BY <2>1, <2>2
<1> HIDE DEF W, Sets, Ends
<1>2. ASSUME NEW f, NEW k \in D, k # 0 => f[k - 1] = W(k - 1)
      PROVE  Next0(f, k) = W(k)
  BY <1>1, <1>2
<1>3. \E f : Solves(f)
  <2> DEFINE f == [k \in D |-> W(k)]
  <2>1. \A k \in D : k # 0 => f[k - 1] = W(k - 1)
    BY <1>0
  <2>2. \A k \in D : f[k] = Next0(f, k)
    <3>1. \A k \in D : f[k] = W(k)
      OBVIOUS
    <3> HIDE DEF f, Next0
    <3>2. QED
      BY <1>2, <2>1, <3>1
  <2>3. Solves(f)
    <3>1. f = [k \in D |-> f[k]]
      OBVIOUS
    <3> HIDE DEF f, Next0
    <3>2. QED
      BY <2>2, <3>1, Zenon
  <2>4. QED
    BY <2>3
<1>4. Solves(isCustomTensorOperator(main, layers))
  <2>1. isCustomTensorOperator(main, layers) = CHOOSE f : Solves(f)
    BY DEF isCustomTensorOperator, Sets, Ends
  <2> HIDE DEF Solves
  <2>2. QED
    BY <1>3, <2>1
<1> DEFINE on == isCustomTensorOperator(main, layers)
<1>5. \A k \in D : on[k] = Next0(on, k)
  BY <1>4
<1> HIDE DEF Next0, Solves, on
<1>6. ASSUME NEW k \in D, on[k] # W(k) PROVE FALSE
  <2> DEFINE Bad == {j \in D : on[j] # W(j)}
  <2>1. PICK j \in Bad : \A i \in Bad : j <= i
    <3>1. Bad \subseteq Nat /\ Bad # {}
      BY <1>6
    <3> HIDE DEF Bad
    <3>2. QED
      BY <3>1, Least
  <2>2. j # 0 => on[j - 1] = W(j - 1)
    <3>1. j # 0 => j - 1 \in D /\ ~(j <= j - 1)
      BY <2>1
    <3>2. QED
      BY <2>1, <3>1
  <2>3. on[j] = W(j)
    BY <1>2, <1>5, <2>1, <2>2
  <2>4. QED
    BY <2>1, <2>3
<1>7. QED
  BY <1>6 DEF on, W

(* The targets are the arithmetic and the comparisons in the occurrences   *)
(* of the operators that the layers name.                                  *)
THEOREM TargetsInLayersCorrect == PassSpec => []TargetsInLayers
<1>1. ASSUME InputFits PROVE TargetsInLayers
  <2> SUFFICES ASSUME pass = "operators" PROVE TargetsInLayers
    BY DEF TargetsInLayers
  <2> DEFINE main == input.main
             layers == input.layers
             Starting(op) == {j \in DOMAIN main : main[j] = Point(op, Before)}
             Nth(op, n) == {j \in Starting(op) : n \in {0, Cardinality(Starting(op) \cap 1 .. j)}}
             Asked == UNION {Nth(l[1], l[2]) : l \in layers}
             Every == {j \in DOMAIN main : IsPoint(main, j, Before)}
             Named0 == IF <<"all", 0>> \in layers THEN Every ELSE Asked
  <2>1. StraightLine(main) /\ \A l \in layers : l = <<l[1], l[2]>>
    BY <1>1, OperatorAssumption DEF InputFits
  <2>2. Len(main) \in Nat /\ DOMAIN main = 1 .. Len(main)
    BY <2>1 DEF StraightLine
  <2> HIDE DEF main, layers
  <2>3. ASSUME NEW j \in DOMAIN main, IsPoint(main, j, Before)
        PROVE  main[j] = Point(main[j].op, Before)
    <3>1. main[j].kind = "point" /\ main[j].flag = Before
      BY <2>3 DEF IsPoint
    <3>2. \/ main[j] = Point(main[j].op, main[j].flag)
          \/ main[j] = Instr(main[j].kind, main[j].uses) /\ main[j].kind # "point"
      BY <2>1, <2>2, <3>1 DEF StraightLine, Emitted
    <3>3. QED
      BY <3>1, <3>2
  <2>4. ASSUME NEW op, NEW j \in DOMAIN main
        PROVE  main[j] = Point(op, Before) <=> IsPoint(main, j, Before) /\ main[j].op = op
    <3>1. main[j] = Point(op, Before) => IsPoint(main, j, Before) /\ main[j].op = op
      BY DEF IsPoint, Point
    <3>2. QED
      BY <2>3, <3>1
  <2>5. ASSUME NEW j \in Every
        PROVE  Cardinality(Starting(main[j].op) \cap 1 .. j) = Occurrence(main, j)
    <3>1. j \in 1 .. Len(main) /\ 1 .. j \subseteq DOMAIN main
      BY <2>2
    <3>2. Starting(main[j].op) \cap 1 .. j =
            {i \in 1 .. j : IsPoint(main, i, Before) /\ main[i].op = main[j].op}
      BY <2>4, <3>1
    <3>3. QED
      BY <3>2 DEF Occurrence
  <2>6. ASSUME NEW j \in Every
        PROVE  j \in Named0 <=> shouldInjectFault(main, j, layers)
    <3>1. CASE <<"all", 0>> \in layers
      BY <3>1 DEF shouldInjectFault
    <3>2. CASE <<"all", 0>> \notin layers
      <4>1. \A l \in layers : j \in Nth(l[1], l[2]) <=>
              l[1] = main[j].op /\ l[2] \in {0, Occurrence(main, j)}
        BY <2>4, <2>5
      <4>2. j \in Asked <=> \E l \in layers : l[1] = main[j].op /\ l[2] \in {0, Occurrence(main, j)}
        <5> HIDE DEF Nth
        <5>1. QED
          BY <4>1
      <4>3. (\E l \in layers : l[1] = main[j].op /\ l[2] \in {0, Occurrence(main, j)})
              <=> \E n \in {0, Occurrence(main, j)} : <<main[j].op, n>> \in layers
        BY <2>1
      <4> HIDE DEF Asked
      <4>4. QED
        BY <3>2, <4>2, <4>3 DEF shouldInjectFault
    <3>3. QED
      BY <3>1, <3>2
  <2>7. Named0 \subseteq Every
    <3>1. ASSUME NEW j \in Asked PROVE j \in Every
      <4>1. PICK l \in layers : j \in Nth(l[1], l[2])
        <5> HIDE DEF Nth
        <5>1. QED
          OBVIOUS
      <4>2. j \in DOMAIN main /\ main[j] = Point(l[1], Before)
        BY <4>1
      <4>3. QED
        BY <2>4, <4>2
    <3>2. QED
      BY <3>1
  <2> HIDE DEF Named0
  <2>8. ASSUME NEW k \in DOMAIN main
        PROVE  isCustomTensorOperator(main, layers)[k] <=> Starts(main, k) \cap Named0 # {}
    <3>1. k \in 0 .. Len(main) /\ 1 .. k \subseteq DOMAIN main
      BY <2>2
    <3>2. Within(main, layers, k) <=> Starts(main, k) \cap Named0 # {}
      <4>1. \A j \in 1 .. k : IsPoint(main, j, Before) =>
              (j \in Named0 <=> shouldInjectFault(main, j, layers))
        BY <2>6, <3>1
      <4>2. QED
        BY <4>1 DEF Within, Starts
    <3>3. isCustomTensorOperator(main, layers)[k] = Within(main, layers, k)
      BY <2>2, <3>1, ScanEquation
    <3>4. QED
      BY <3>2, <3>3
  <2>9. TensorTargets(main, layers) =
          {k \in DOMAIN main : main[k].kind \in {"arith", "fcmp"} /\ Starts(main, k) \cap Named0 # {}}
    BY <2>8 DEF TensorTargets
  <2>10. QED
    BY <2>9 DEF TargetsInLayers, Named0, main, layers
<1>2. QED
  BY <1>1, InputStays, PTL

-----------------------------------------------------------------------------
(* What an item reads of another, what its clone reads, and the values of  *)
(* an item, from the values of the items before it.                        *)
ReadOf(main, opt, value, j, k) ==
  IF j \in ComparisonsRead(main, opt, k) THEN compareFloatValues(value[j].orig, value[j].dup)
  ELSE value[j].orig

RemappedOf(main, opt, value, j, k) ==
  IF SameChain(main, opt, j, k) THEN value[j].dup ELSE ReadOf(main, opt, value, j, k)

OrigOf(main, opt, fault, value, k) ==
  LET new == Operation({ReadOf(main, opt, value, j, k) : j \in main[k].uses})
  IN IF fault = <<"orig", k>> THEN Struck(new) ELSE new

DupOf(main, opt, fault, value, k) ==
  LET new == Operation({RemappedOf(main, opt, value, j, k) : j \in main[k].uses})
  IN IF fault = <<"dup", k>> THEN Struck(new) ELSE new

LEMMA ValuesEquation ==
  ASSUME NEW main, NEW opt, NEW fault, StraightLine(main)
  PROVE  \A k \in DOMAIN main :
           ValuesOf(main, opt, fault)[k] =
             [orig |-> OrigOf(main, opt, fault, ValuesOf(main, opt, fault), k),
              dup  |-> DupOf(main, opt, fault, ValuesOf(main, opt, fault), k)]
<1> DEFINE n == Len(main)
           D == DOMAIN main
           State == {"clean", "raised", "wrong"}
           V == [orig : State, dup : State]
           Item(value, k) == [orig |-> OrigOf(main, opt, fault, value, k),
                              dup  |-> DupOf(main, opt, fault, value, k)]
           Solves(f) == f = [k \in D |-> Item(f, k)]
<1>1. n \in Nat /\ D = 1 .. n /\ \A k \in D : main[k].uses \in SUBSET (1 .. k - 1)
  BY DEF StraightLine, Point, Emitted
<1>2. ASSUME NEW value, NEW k PROVE Item(value, k) \in V
  <2>1. /\ \A values : Operation(values) \in State
        /\ \A v : Struck(v) \in State
    BY DEF Operation, Struck
  <2>2. OrigOf(main, opt, fault, value, k) \in State
    BY <2>1 DEF OrigOf
  <2>3. DupOf(main, opt, fault, value, k) \in State
    BY <2>1 DEF DupOf
  <2>4. QED
    BY <2>2, <2>3
<1>3. ASSUME NEW f, NEW g, NEW k \in D, \A j \in D : j < k => f[j] = g[j]
      PROVE  Item(f, k) = Item(g, k)
  <2>1. \A j \in main[k].uses : f[j] = g[j]
    BY <1>1, <1>3
  <2>2. \A j \in main[k].uses : ReadOf(main, opt, f, j, k) = ReadOf(main, opt, g, j, k)
    BY <2>1 DEF ReadOf
  <2>3. \A j \in main[k].uses : RemappedOf(main, opt, f, j, k) = RemappedOf(main, opt, g, j, k)
    BY <2>1, <2>2 DEF RemappedOf
  <2>4. {ReadOf(main, opt, f, j, k) : j \in main[k].uses}
          = {ReadOf(main, opt, g, j, k) : j \in main[k].uses}
    BY <2>2
  <2>5. {RemappedOf(main, opt, f, j, k) : j \in main[k].uses}
          = {RemappedOf(main, opt, g, j, k) : j \in main[k].uses}
    BY <2>3
  <2>6. QED
    BY <2>4, <2>5 DEF OrigOf, DupOf
<1>4. \E f : Solves(f)
  <2> DEFINE F == [D -> V]
             T == [k \in D |-> V]
             r == [k \in D |-> k]
             G == [p \in D \X F |-> Item(p[2], p[1])]
  <2> HIDE DEF V, Item
  <2>1. \A k \in D, f \in F : G[<<k, f>>] = Item(f, k)
    OBVIOUS
  <2>2. /\ F = {f \in [D -> V] : \A k \in D : f[k] \in T[k]}
        /\ T \in [D -> SUBSET V] /\ r \in [D -> 0 .. n] /\ \A k \in D : r[k] = k
    BY <1>1
  <2>3. G \in [D \X F -> V] /\ \A k \in D, f \in F : G[<<k, f>>] \in T[k]
    BY <1>2
  <2>4. F # {}
    <3>1. [k \in D |-> Item(fault, k)] \in F
      BY <1>2
    <3>2. QED
      BY <3>1
  <2> HIDE DEF F, T, r, G, D
  <2>5. \A k \in D, f, g \in F :
          (\A j \in D : r[j] < r[k] => f[j] = g[j]) => G[<<k, f>>] = G[<<k, g>>]
    <3> SUFFICES ASSUME NEW k \in D, NEW f \in F, NEW g \in F,
                        \A j \in D : r[j] < r[k] => f[j] = g[j]
                 PROVE  G[<<k, f>>] = G[<<k, g>>]
      OBVIOUS
    <3>1. Item(f, k) = Item(g, k)
      BY <1>3, <2>2
    <3>2. QED
      BY <2>1, <3>1
  <2>6. PICK f \in F : \A k \in D : f[k] = G[<<k, f>>]
    <3>1. Recursive(D, V, T, n, r, F, G)
      BY <1>1, <2>2, <2>3, <2>4, <2>5 DEF Recursive
    <3>2. QED
      BY <3>1, Recursion
  <2>7. f = [k \in D |-> Item(f, k)]
    <3>1. f = [k \in D |-> f[k]]
      BY DEF F
    <3>2. QED
      BY <2>1, <2>6, <3>1
  <2>8. QED
    BY <2>7
<1>5. Solves(ValuesOf(main, opt, fault))
  <2>1. ValuesOf(main, opt, fault) = CHOOSE f : Solves(f)
    BY DEF ValuesOf, OrigOf, DupOf, ReadOf, RemappedOf
  <2> HIDE DEF Solves
  <2>2. QED
    BY <1>4, <2>1
<1> DEFINE value == ValuesOf(main, opt, fault)
<1> HIDE DEF Item
<1>6. \A k \in D : value[k] = Item(value, k)
  BY <1>5
<1>7. QED
  BY <1>6 DEF Item

(* Nobody reads anything bad up to an item n, if no call up to it uses a   *)
(* struck original, and it lies before the struck item, or before the end  *)
(* of its chain if the struck copy is a duplicate, or the struck item has  *)
(* a comparison of its own.                                                *)
LEMMA CleanReads ==
  ASSUME NEW main, NEW opt, NEW copy \in {"orig", "dup"}, NEW at, NEW n,
         StraightLine(main), at \in Duplicated(main, opt), n \in DOMAIN main,
         opt.chain \in BOOLEAN,
         \/ at \in ComparedAt(main, opt)
         \/ n < at
         \/ copy = "dup" /\ at .. n \cap ComparedAt(main, opt) = {},
         copy = "orig" => \A c \in 1 .. n : main[c].kind = "call" => at \notin main[c].uses
  PROVE  \A k \in 1 .. n : Visible(main, opt, <<copy, at>>, k) = "clean"
<1> DEFINE fault == <<copy, at>>
           value == ValuesOf(main, opt, fault)
           Compared == ComparedAt(main, opt)
           Read(j, k) == ReadOf(main, opt, value, j, k)
           Remapped(j, k) == RemappedOf(main, opt, value, j, k)
           Seen(k) == IF k \in Compared THEN compareFloatValues(value[k].orig, value[k].dup)
                      ELSE value[k].orig
           Fine(k) == /\ Seen(k) = "clean"
                      /\ k # at \/ copy = "dup" => value[k].orig = "clean"
                      /\ k # at /\ (k < at \/ at \in Compared) => value[k].dup = "clean"
<1>0. /\ Len(main) \in Nat /\ DOMAIN main = 1 .. Len(main) /\ at \in 1 .. Len(main)
      /\ \A k \in DOMAIN main : main[k].uses \in SUBSET (1 .. k - 1)
  BY DEF StraightLine, Point, Emitted, Duplicated
<1>1. ASSUME NEW k \in 1 .. n, \A j \in 1 .. k - 1 : Fine(j) PROVE Fine(k)
  <2>1. value[k] = [orig |-> OrigOf(main, opt, fault, value, k),
                    dup  |-> DupOf(main, opt, fault, value, k)]
    <3>1. k \in DOMAIN main
      BY <1>0
    <3>2. \A f : \A i \in DOMAIN main :
            ValuesOf(main, opt, f)[i] = [orig |-> OrigOf(main, opt, f, ValuesOf(main, opt, f), i),
                                         dup  |-> DupOf(main, opt, f, ValuesOf(main, opt, f), i)]
      BY ValuesEquation
    <3>3. QED
      BY <3>1, <3>2
  <2> HIDE DEF value
  <2>2. \A j \in main[k].uses : j \in 1 .. k - 1
    BY <1>0
  <2>3. ASSUME NEW j \in main[k].uses PROVE Read(j, k) = "clean"
    <3>1. Fine(j)
      BY <1>1, <2>2
    <3>2. CASE main[k].kind = "call"
      <4>1. j # at \/ copy = "dup"
        BY <3>2
      <4>2. value[j].orig = "clean"
        BY <3>1, <4>1
      <4>3. QED
        BY <3>2, <4>2 DEF ReadOf, ComparisonsRead
    <3>3. CASE main[k].kind # "call"
      <4>1. Read(j, k) = Seen(j)
        BY <3>3 DEF ReadOf, ComparisonsRead
      <4>2. QED
        BY <3>1, <4>1
    <3>4. QED
      BY <3>2, <3>3
  <2>3a. Operation({Read(j, k) : j \in main[k].uses}) = "clean"
    <3> HIDE DEF Read
    <3>1. QED
      BY <2>3 DEF Operation
  <2>4. value[k].orig = IF fault = <<"orig", k>> THEN "raised" ELSE "clean"
    <3>1. value[k].orig = OrigOf(main, opt, fault, value, k)
      BY <2>1
    <3> HIDE DEF fault
    <3>2. QED
      BY <2>3a, <3>1 DEF OrigOf, Struck
  <2>5. CASE k <= at \/ at \in Compared
    <3>1. ASSUME NEW j \in main[k].uses PROVE Remapped(j, k) = "clean"
      <4>1. Fine(j) /\ j \in Nat /\ j < k /\ Read(j, k) = "clean"
        BY <1>1, <2>2, <2>3
      <4>2. CASE j = at
        <5>1. at \in Compared /\ at + 1 \in at .. k
          BY <1>0, <2>5, <4>1, <4>2
        <5>2. ~SameChain(main, opt, at, k)
          BY <5>1 DEF SameChain, ComparedAt
        <5>3. QED
          BY <4>1, <4>2, <5>2 DEF RemappedOf
      <4>3. CASE j # at
        <5>1. value[j].dup = "clean"
          BY <1>0, <2>5, <4>1, <4>3
        <5>2. QED
          BY <4>1, <5>1 DEF RemappedOf
      <4>4. QED
        BY <4>2, <4>3
    <3>2. Operation({Remapped(j, k) : j \in main[k].uses}) = "clean"
      BY <3>1 DEF Operation
    <3>3. value[k].dup = IF fault = <<"dup", k>> THEN "raised" ELSE "clean"
      <4>1. value[k].dup = DupOf(main, opt, fault, value, k)
        BY <2>1
      <4> HIDE DEF fault
      <4>2. QED
        BY <3>2, <4>1 DEF DupOf, Struck
    <3>4. k # at => value[k].orig = "clean" /\ value[k].dup = "clean"
      BY <2>4, <3>3
    <3>5. k = at => {value[k].orig, value[k].dup} = {"clean", "raised"}
      BY <2>4, <3>3
    <3>6. k \in Compared => Seen(k) = "clean"
      BY <3>4, <3>5 DEF compareFloatValues
    <3>7. k \notin Compared => Seen(k) = "clean"
      BY <1>0, <2>4, <2>5
    <3>8. k = at /\ copy = "dup" => value[k].orig = "clean"
      BY <2>4
    <3>9. QED
      BY <3>4, <3>6, <3>7, <3>8
  <2>6. CASE at < k /\ at \notin Compared
    <3>1. k \notin Compared
      BY <1>0, <2>6
    <3>2. Seen(k) = "clean" /\ value[k].orig = "clean"
      BY <1>0, <2>4, <2>6, <3>1
    <3>3. QED
      BY <1>0, <2>6, <3>2
  <2>7. QED
    BY <1>0, <2>5, <2>6
<1> HIDE DEF Fine
<1>2. ASSUME NEW k \in 1 .. n, ~Fine(k) PROVE FALSE
  <2> DEFINE Bad == {j \in 1 .. n : ~Fine(j)}
  <2>1. PICK j \in Bad : \A i \in Bad : j <= i
    <3>1. Bad \subseteq Nat /\ Bad # {}
      BY <1>0, <1>2
    <3> HIDE DEF Bad
    <3>2. QED
      BY <3>1, Least
  <2>2. \A i \in 1 .. j - 1 : i \in 1 .. n /\ ~(j <= i)
    BY <1>0, <2>1
  <2>3. \A i \in 1 .. j - 1 : Fine(i)
    BY <2>1, <2>2
  <2>4. QED
    BY <1>1, <2>1, <2>3
<1>3. \A k \in 1 .. n : Visible(main, opt, fault, k) = Seen(k)
  BY DEF Visible
<1>4. QED
  BY <1>2, <1>3 DEF Fine

(* Whatever is duplicated: bits raised in one copy of one instruction      *)
(* reach others only from inside a chain, or through a call that uses the  *)
(* original.                                                               *)
THEOREM RaisedBitsMaskedCorrect == PassSpec => []RaisedBitsMasked
<1>1. ASSUME InputFits PROVE RaisedBitsMasked
  <2> DEFINE main == input.main
             opt  == input.opt
             Dup  == Duplicated(main, opt)
  <2> SUFFICES ASSUME pass = "duplication",
                      NEW copy \in {"orig", "dup"}, NEW at \in Dup, NEW k \in DOMAIN main,
                      Visible(main, opt, <<copy, at>>, k) # "clean"
               PROVE  \/ /\ opt.chain /\ at + 1 \in Dup
                         /\ IF copy = "orig" THEN k >= at
                            ELSE \E last \in at + 1 .. k :
                                   SameChain(main, opt, at, last) /\ last + 1 \notin Dup
                      \/ /\ copy = "orig"
                         /\ \E c \in at + 1 .. k : main[c].kind = "call" /\ at \in main[c].uses
    BY DEF RaisedBitsMasked
  <2> SUFFICES ASSUME copy = "orig" =>
                        \A c \in at + 1 .. k : main[c].kind = "call" => at \notin main[c].uses
               PROVE  /\ opt.chain /\ at + 1 \in Dup
                      /\ IF copy = "orig" THEN k >= at
                         ELSE \E last \in at + 1 .. k :
                                SameChain(main, opt, at, last) /\ last + 1 \notin Dup
    OBVIOUS
  <2>1. StraightLine(main) /\ opt.chain \in BOOLEAN
    BY <1>1, DuplicationAssumption DEF InputFits
  <2>2. /\ Len(main) \in Nat /\ DOMAIN main = 1 .. Len(main)
        /\ k \in 1 .. k /\ k \in Nat /\ at \in Nat
    BY <2>1 DEF StraightLine, Duplicated
  <2> HIDE DEF main, opt
  <2>2a. copy = "orig" =>
           \A c \in 1 .. k : main[c].kind = "call" => at \notin main[c].uses
    <3> SUFFICES ASSUME copy = "orig", NEW c \in 1 .. k, main[c].kind = "call",
                        at \in main[c].uses
                 PROVE  FALSE
      OBVIOUS
    <3>1. main[c].uses \in SUBSET (1 .. c - 1)
      <4>1. c \in 1 .. Len(main)
        BY <2>2
      <4>2. QED
        BY <2>1, <4>1 DEF StraightLine, Point, Emitted
    <3>2. c \in at + 1 .. k
      BY <2>2, <3>1
    <3>3. QED
      BY <3>2
  <2>3. /\ at \notin ComparedAt(main, opt) /\ ~(k < at)
        /\ ~(copy = "dup" /\ at .. k \cap ComparedAt(main, opt) = {})
    <3> SUFFICES ASSUME \/ at \in ComparedAt(main, opt)
                        \/ k < at
                        \/ copy = "dup" /\ at .. k \cap ComparedAt(main, opt) = {}
                 PROVE  FALSE
      OBVIOUS
    <3>1. \A l \in 1 .. k : Visible(main, opt, <<copy, at>>, l) = "clean"
      BY <2>1, <2>2a, CleanReads
    <3>2. QED
      BY <2>2, <3>1
  <2>4. opt.chain /\ at + 1 \in Dup
    BY <2>1, <2>3 DEF ComparedAt
  <2>5. ASSUME copy = "dup"
        PROVE  \E last \in at + 1 .. k : SameChain(main, opt, at, last) /\ last + 1 \notin Dup
    <3> DEFINE Ends == {l \in at .. k : l + 1 \notin Dup}
    <3>1. PICK last \in Ends : \A l \in Ends : last <= l
      <4>1. Ends \subseteq Nat
        BY <2>2
      <4>2. Ends # {}
        BY <2>3, <2>5 DEF ComparedAt
      <4> HIDE DEF Ends
      <4>3. QED
        BY <4>1, <4>2, Least
    <3>2. last \in at + 1 .. k /\ last + 1 \notin Dup
      BY <2>2, <2>4, <3>1
    <3>3. ASSUME NEW l \in at .. last PROVE l \in Dup
      <4>1. CASE l = at
        BY <4>1
      <4>2. CASE l # at
        <5>1. l - 1 \in at .. k /\ ~(last <= l - 1) /\ (l - 1) + 1 = l
          BY <2>2, <3>2, <4>2
        <5>2. QED
          BY <3>1, <5>1
      <4>3. QED
        BY <4>1, <4>2
    <3>4. QED
      BY <2>4, <3>2, <3>3 DEF SameChain
  <2>6. QED
    BY <2>2, <2>3, <2>4, <2>5
<1>2. QED
  BY <1>1, InputStays, PTL

-----------------------------------------------------------------------------
(* The trace of a set: InTurn as the iteration it is.                      *)
Chosen(s) == CHOOSE x \in s : TRUE

Turns(it, step, seen, set) ==
  it = [s \in SUBSET set |-> IF s = {} THEN seen
                             ELSE step[<<it[s \ {Chosen(s)}], Chosen(s)>>]]

Grows(D, step, seen, set) ==
  /\ IsFiniteSet(D) /\ seen \in SUBSET D /\ set \in SUBSET D
  /\ step \in [(SUBSET D) \X D -> SUBSET D]
  /\ \A s \in SUBSET D, j \in D : s \subseteq step[<<s, j>>]

Iterates(D, it, step, seen, set) ==
  /\ it \in [SUBSET set -> SUBSET D] /\ \A s \in SUBSET set : seen \subseteq it[s]
  /\ Turns(it, step, seen, set)

LEMMA Rank ==
  ASSUME NEW D, IsFiniteSet(D)
  PROVE  /\ Cardinality(D) \in Nat
         /\ \A s \in SUBSET D : Cardinality(s) \in 0 .. Cardinality(D)
         /\ \A s, t \in SUBSET D : s \subseteq t /\ s # t => Cardinality(s) < Cardinality(t)
<1>1. Cardinality(D) \in Nat
  BY FS_CardinalityType
<1>2. ASSUME NEW s \in SUBSET D
      PROVE  /\ IsFiniteSet(s) /\ Cardinality(s) \in Nat
             /\ Cardinality(s) <= Cardinality(D)
  BY FS_CardinalityType, FS_Subset
<1>3. ASSUME NEW s \in SUBSET D, NEW t \in SUBSET D, s \subseteq t, s # t
      PROVE  Cardinality(s) < Cardinality(t)
  <2>1. Cardinality(s) <= Cardinality(t) /\ (Cardinality(t) = Cardinality(s) => t = s)
    BY <1>2, <1>3, FS_Subset
  <2>2. QED
    BY <1>2, <1>3, <2>1
<1>4. QED
  BY <1>1, <1>2, <1>3

(* Induction over the subsets of a finite set.                             *)
LEMMA Fewest ==
  ASSUME NEW D, IsFiniteSet(D), NEW B \in SUBSET SUBSET D, B # {}
  PROVE  \E s \in B : \A t \in B : ~(t \subseteq s /\ t # s)
<1> DEFINE S == {Cardinality(s) : s \in B}
<1>1. S \subseteq Nat /\ S # {}
  BY Rank
<1>2. PICK n \in S : \A m \in S : n <= m
  BY <1>1, Least
<1>3. PICK s \in B : Cardinality(s) = n
  BY <1>2
<1>4. ASSUME NEW t \in B, t \subseteq s, t # s PROVE FALSE
  <2>1. Cardinality(t) < Cardinality(s) /\ Cardinality(t) \in S
    BY <1>4, Rank
  <2>2. QED
    BY <1>1, <1>2, <1>3, <2>1
<1>5. QED
  BY <1>4

LEMMA TurnsExist ==
  ASSUME NEW D, NEW step, NEW seen, NEW set, Grows(D, step, seen, set)
  PROVE  \E it : Iterates(D, it, step, seen, set)
<1>0. IsFiniteSet(D) /\ seen \in SUBSET D /\ set \in SUBSET D
  BY DEF Grows
<1> DEFINE Sets == SUBSET set
           V == SUBSET D
           T == [s \in Sets |-> {R \in V : seen \subseteq R}]
           F == {f \in [Sets -> V] : \A s \in Sets : f[s] \in T[s]}
           N == Cardinality(set)
           r == [s \in Sets |-> Cardinality(s)]
           G == [p \in Sets \X F |->
                   IF p[1] = {} THEN seen ELSE step[<<p[2][p[1] \ {Chosen(p[1])}], Chosen(p[1])>>]]
<1>1. /\ N \in Nat /\ r \in [Sets -> 0 .. N]
      /\ \A s, t \in Sets : s \subseteq t /\ s # t => r[s] < r[t]
  BY <1>0, Rank, FS_Subset
<1>2. ASSUME NEW s \in Sets, s # {}
      PROVE  /\ Chosen(s) \in s /\ Chosen(s) \in D
             /\ s \ {Chosen(s)} \in Sets /\ s \ {Chosen(s)} # s
             /\ s \ {Chosen(s)} \subseteq s
  <2>1. Chosen(s) \in s
    BY <1>2 DEF Chosen
  <2>2. QED
    BY <1>0, <2>1
<1>3. ASSUME NEW s \in Sets, NEW f \in F
      PROVE  /\ G[<<s, f>>] = IF s = {} THEN seen ELSE step[<<f[s \ {Chosen(s)}], Chosen(s)>>]
             /\ G[<<s, f>>] \in T[s]
  <2>1. G[<<s, f>>] = IF s = {} THEN seen ELSE step[<<f[s \ {Chosen(s)}], Chosen(s)>>]
    OBVIOUS
  <2> HIDE DEF G
  <2>2. CASE s = {}
    BY <1>0, <2>1, <2>2
  <2>3. CASE s # {}
    <3> DEFINE old == f[s \ {Chosen(s)}]
    <3>1. old \in SUBSET D /\ seen \subseteq old
      BY <1>2, <2>3
    <3> HIDE DEF old
    <3>2. Chosen(s) \in D
      BY <1>2, <2>3
    <3>3. step[<<old, Chosen(s)>>] \in SUBSET D /\ old \subseteq step[<<old, Chosen(s)>>]
      BY <3>1, <3>2 DEF Grows
    <3>4. QED
      BY <2>1, <2>3, <3>1, <3>3 DEF old
  <2>4. QED
    BY <2>1, <2>2, <2>3
<1>4. T \in [Sets -> SUBSET V] /\ F = {f \in [Sets -> V] : \A s \in Sets : f[s] \in T[s]}
  OBVIOUS
<1>5. F # {}
  <2>1. [s \in Sets |-> D] \in F
    BY <1>0
  <2>2. QED
    BY <2>1
<1>6. G \in [Sets \X F -> V]
  <2>1. \A s \in Sets, f \in F : G[<<s, f>>] \in V
    BY <1>3
  <2>2. G = [p \in Sets \X F |-> G[p]]
    OBVIOUS
  <2> HIDE DEF G, F, Sets, V
  <2>3. \A p \in Sets \X F : p = <<p[1], p[2]>> /\ p[1] \in Sets /\ p[2] \in F
    OBVIOUS
  <2>4. \A p \in Sets \X F : G[p] \in V
    BY <2>1, <2>3
  <2>5. QED
    BY <2>2, <2>4
<1> HIDE DEF r, G, F
<1>7. ASSUME NEW s \in Sets, NEW f \in F, NEW g \in F,
             \A t \in Sets : r[t] < r[s] => f[t] = g[t]
      PROVE  G[<<s, f>>] = G[<<s, g>>]
  <2>1. s # {} => f[s \ {Chosen(s)}] = g[s \ {Chosen(s)}]
    BY <1>1, <1>2, <1>7
  <2>2. QED
    BY <1>3, <2>1
<1>8. PICK f \in F : \A s \in Sets : f[s] = G[<<s, f>>]
  <2>1. \A s \in Sets, f \in F : G[<<s, f>>] \in T[s]
    BY <1>3
  <2> HIDE DEF Sets, V, T, N
  <2>2. Recursive(Sets, V, T, N, r, F, G)
    BY <1>1, <1>4, <1>5, <1>6, <1>7, <2>1 DEF Recursive
  <2>3. QED
    BY <2>2, Recursion
<1>9. f \in [Sets -> V] /\ \A s \in Sets : seen \subseteq f[s]
  BY <1>4
<1>10. Turns(f, step, seen, set)
  <2>1. f = [s \in Sets |-> f[s]]
    BY <1>9
  <2>2. \A s \in Sets : f[s] = IF s = {} THEN seen ELSE step[<<f[s \ {Chosen(s)}], Chosen(s)>>]
    BY <1>3, <1>8
  <2>3. QED
    BY <2>1, <2>2 DEF Turns
<1>11. QED
  BY <1>9, <1>10 DEF Iterates

(* It is the iteration of any step that is the same where it is taken.     *)
LEMMA TurnsSame ==
  ASSUME NEW D, NEW step, NEW seen, NEW set, Grows(D, step, seen, set),
         NEW it, Iterates(D, it, step, seen, set),
         NEW step2,
         \A s \in SUBSET D, j \in set : seen \subseteq s => step2[<<s, j>>] = step[<<s, j>>]
  PROVE  InTurn(step2, seen, set) = it[set]
<1>0. /\ IsFiniteSet(D) /\ seen \in SUBSET D /\ set \in SUBSET D
      /\ it \in [SUBSET set -> SUBSET D] /\ \A s \in SUBSET set : seen \subseteq it[s]
      /\ Turns(it, step, seen, set)
  BY DEF Grows, Iterates
<1>1. ASSUME NEW s \in SUBSET set, s # {}
      PROVE  /\ Chosen(s) \in set /\ s \ {Chosen(s)} \in SUBSET set
             /\ s \ {Chosen(s)} # s /\ s \ {Chosen(s)} \subseteq s
             /\ step2[<<it[s \ {Chosen(s)}], Chosen(s)>>] = step[<<it[s \ {Chosen(s)}], Chosen(s)>>]
  <2>1. Chosen(s) \in s
    BY <1>1 DEF Chosen
  <2>2. Chosen(s) \in set /\ s \ {Chosen(s)} \in SUBSET set
    BY <2>1
  <2>3. it[s \ {Chosen(s)}] \in SUBSET D /\ seen \subseteq it[s \ {Chosen(s)}]
    BY <1>0, <2>2
  <2>4. QED
    BY <2>1, <2>2, <2>3
<1>2. \A s \in SUBSET set :
        it[s] = IF s = {} THEN seen ELSE step[<<it[s \ {Chosen(s)}], Chosen(s)>>]
  BY <1>0 DEF Turns
<1>3. Turns(it, step2, seen, set)
  <2>1. it = [s \in SUBSET set |-> it[s]]
    BY <1>0
  <2>2. \A s \in SUBSET set :
          it[s] = IF s = {} THEN seen ELSE step2[<<it[s \ {Chosen(s)}], Chosen(s)>>]
    BY <1>1, <1>2
  <2>3. QED
    BY <2>1, <2>2 DEF Turns
<1>4. PICK h : h = (CHOOSE g : Turns(g, step2, seen, set)) /\ Turns(h, step2, seen, set)
  BY <1>3
<1>5. InTurn(step2, seen, set) = h[set]
  BY <1>4 DEF InTurn, FoldSet, MapThenFoldSet, Turns, Chosen
<1>6. \A s \in SUBSET set :
        h[s] = IF s = {} THEN seen ELSE step2[<<h[s \ {Chosen(s)}], Chosen(s)>>]
  BY <1>4 DEF Turns
<1> DEFINE Bad == {s \in SUBSET set : h[s] # it[s]}
<1>7. ASSUME Bad # {} PROVE FALSE
  <2>1. IsFiniteSet(set)
    BY <1>0, FS_Subset
  <2>2. PICK s \in Bad : \A t \in Bad : ~(t \subseteq s /\ t # s)
    <3>1. Bad \in SUBSET SUBSET set
      OBVIOUS
    <3> HIDE DEF Bad
    <3>2. QED
      BY <1>7, <2>1, <3>1, Fewest
  <2>3. s # {} => h[s \ {Chosen(s)}] = it[s \ {Chosen(s)}]
    BY <1>1, <2>2
  <2>4. h[s] = it[s]
    <3>1. s \in SUBSET set
      BY <2>2
    <3>2. CASE s = {}
      BY <1>2, <1>6, <3>1, <3>2
    <3>3. CASE s # {}
      <4> DEFINE c == Chosen(s)
      <4>1. h[s \ {c}] = it[s \ {c}] /\ step2[<<it[s \ {c}], c>>] = step[<<it[s \ {c}], c>>]
        BY <1>1, <2>3, <3>1, <3>3
      <4>2. h[s] = step2[<<h[s \ {c}], c>>] /\ it[s] = step[<<it[s \ {c}], c>>]
        BY <1>2, <1>6, <3>1, <3>3
      <4> HIDE DEF c
      <4>3. QED
        BY <4>1, <4>2
    <3>4. QED
      BY <3>2, <3>3
  <2>5. QED
    BY <2>2, <2>4
<1>8. QED
  BY <1>5, <1>7

(* What a step that adds X to what was seen must do, and what the steps    *)
(* for all of a set do together.                                           *)
Visited(next, seen, X, R) ==
  /\ R \in SUBSET DOMAIN next /\ seen \subseteq R /\ X \subseteq R
  /\ \A i \in R : i \in seen \/ next[i] \subseteq R
  /\ \A C \in SUBSET DOMAIN next : X \subseteq C /\ Closed(next, C) => R \subseteq seen \cup C

LEMMA TurnVisits ==
  ASSUME NEW D, IsFiniteSet(D), NEW next \in [D -> SUBSET D], NEW X \in [D -> SUBSET D],
         NEW step, NEW seen, NEW set, Grows(D, step, seen, set),
         \A s \in SUBSET D, j \in set :
           seen \subseteq s => Visited(next, s, X[j], step[<<s, j>>])
  PROVE  Visited(next, seen, UNION {X[j] : j \in set}, InTurn(step, seen, set))
<1> DEFINE R == InTurn(step, seen, set)
<1>0. IsFiniteSet(D) /\ seen \in SUBSET D /\ set \in SUBSET D
  BY DEF Grows
<1>1. PICK it : /\ it \in [SUBSET set -> SUBSET D] /\ Turns(it, step, seen, set)
                /\ \A s \in SUBSET set : seen \subseteq it[s]
                /\ R = it[set]
  <2>1. PICK it : Iterates(D, it, step, seen, set)
    BY TurnsExist
  <2>2. R = it[set]
    BY <2>1, TurnsSame
  <2>3. QED
    BY <2>1, <2>2 DEF Iterates
<1> HIDE DEF R
<1> DEFINE Fine(s) == Visited(next, seen, UNION {X[j] : j \in s}, it[s])
<1>3. ASSUME NEW s \in SUBSET set, s # {}, Fine(s \ {Chosen(s)}) PROVE Fine(s)
  <2> DEFINE c == Chosen(s)
             t == s \ {c}
             A == UNION {X[j] : j \in t}
  <2>1. c \in s /\ c \in set /\ c \in D
    BY <1>0, <1>3 DEF Chosen
  <2>2. t \in SUBSET set /\ UNION {X[j] : j \in s} = A \cup X[c]
    BY <2>1
  <2>3. it[t] \in SUBSET D /\ seen \subseteq it[t]
    BY <1>1, <2>2
  <2>4. Visited(next, it[t], X[c], step[<<it[t], c>>])
    BY <2>1, <2>3
  <2>5. it[s] = step[<<it[t], c>>]
    BY <1>1, <1>3 DEF Turns
  <2>6. Visited(next, it[t], X[c], it[s])
    BY <2>4, <2>5
  <2>7. Visited(next, seen, A, it[t])
    BY <1>3
  <2>8. X[c] \in SUBSET D
    BY <2>1
  <2> HIDE DEF A, c, t
  <2>9. Visited(next, seen, A \cup X[c], it[s])
    BY <2>6, <2>7, <2>8 DEF Visited
  <2>10. QED
    BY <2>2, <2>9
<1>4. Fine({})
  <2>1. it[{}] = seen
    BY <1>1 DEF Turns
  <2>2. UNION {X[j] : j \in {}} = {}
    OBVIOUS
  <2>3. Visited(next, seen, {}, seen)
    BY <1>0 DEF Visited
  <2>4. QED
    BY <2>1, <2>2, <2>3
<1> HIDE DEF Fine
<1> DEFINE Bad == {s \in SUBSET set : ~Fine(s)}
<1>5. ASSUME Bad # {} PROVE FALSE
  <2>1. IsFiniteSet(set)
    BY <1>0, FS_Subset
  <2>2. PICK s \in Bad : \A t \in Bad : ~(t \subseteq s /\ t # s)
    <3>1. Bad \in SUBSET SUBSET set
      OBVIOUS
    <3> HIDE DEF Bad
    <3>2. QED
      BY <1>5, <2>1, <3>1, Fewest
  <2>3. s # {}
    BY <1>4, <2>2
  <2>4. Chosen(s) \in s
    BY <2>3 DEF Chosen
  <2>5. s \ {Chosen(s)} \in SUBSET set /\ Fine(s \ {Chosen(s)})
    BY <2>2, <2>4
  <2>6. QED
    BY <1>3, <2>2, <2>3, <2>5
<1>6. Fine(set)
  BY <1>5
<1>7. QED
  BY <1>1, <1>6 DEF Fine, R

(* The recursion through the neighbours: at each level, one more           *)
(* instruction has been seen.                                              *)
Stepping(next, visit) ==
  [q \in (SUBSET DOMAIN next) \X DOMAIN next |->
     IF q[2] \in q[1] THEN q[1] ELSE visit[<<q[1] \cup {q[2]}, q[2]>>]]

Visits(next, visit) ==
  visit = [p \in (SUBSET DOMAIN next) \X DOMAIN next |->
             InTurn(Stepping(next, visit), p[1], next[p[2]])]

(* Instructions that lead to instructions.                                 *)
UsesIn(next) == IsFiniteSet(DOMAIN next) /\ next \in [DOMAIN next -> SUBSET DOMAIN next]

(* Any function f on these pairs that keeps what was seen gives a step     *)
(* that grows; two that agree where more was seen give the same result.    *)
Keeps(next, f) ==
  /\ f \in [(SUBSET DOMAIN next) \X DOMAIN next -> SUBSET DOMAIN next]
  /\ \A s \in SUBSET DOMAIN next, i \in DOMAIN next : s \subseteq f[<<s, i>>]

LEMMA SteppingGrows ==
  ASSUME NEW next, UsesIn(next), NEW f, Keeps(next, f),
         NEW s \in SUBSET DOMAIN next, NEW i \in DOMAIN next
  PROVE  /\ Grows(DOMAIN next, Stepping(next, f), s, next[i])
         /\ InTurn(Stepping(next, f), s, next[i]) \in SUBSET DOMAIN next
         /\ s \subseteq InTurn(Stepping(next, f), s, next[i])
<1> DEFINE D == DOMAIN next
           step == Stepping(next, f)
<1>1. /\ IsFiniteSet(D) /\ next[i] \in SUBSET D /\ s \in SUBSET D
      /\ f \in [(SUBSET D) \X D -> SUBSET D]
      /\ \A t \in SUBSET D, j \in D : t \subseteq f[<<t, j>>]
  BY DEF UsesIn, Keeps
<1> HIDE DEF D
<1>2. ASSUME NEW t \in SUBSET D, NEW j \in D
      PROVE  step[<<t, j>>] \in SUBSET D /\ t \subseteq step[<<t, j>>]
  <2>1. step[<<t, j>>] = IF j \in t THEN t ELSE f[<<t \cup {j}, j>>]
    BY DEF Stepping, D
  <2>2. t \cup {j} \in SUBSET D
    OBVIOUS
  <2>3. f[<<t \cup {j}, j>>] \in SUBSET D /\ t \cup {j} \subseteq f[<<t \cup {j}, j>>]
    BY <1>1, <2>2
  <2> HIDE DEF step
  <2>4. QED
    BY <2>1, <2>3
<1>3. step \in [(SUBSET D) \X D -> SUBSET D]
  <2>1. step = [q \in (SUBSET D) \X D |-> step[q]]
    BY DEF Stepping, D
  <2>2. \A q \in (SUBSET D) \X D : q = <<q[1], q[2]>> /\ q[1] \in SUBSET D /\ q[2] \in D
    OBVIOUS
  <2> HIDE DEF step
  <2>3. \A q \in (SUBSET D) \X D : step[q] \in SUBSET D
    BY <1>2, <2>2
  <2>4. QED
    BY <2>1, <2>3
<1> HIDE DEF step
<1>4. Grows(D, step, s, next[i])
  BY <1>1, <1>2, <1>3 DEF Grows
<1>5. PICK it : Iterates(D, it, step, s, next[i])
  BY <1>4, TurnsExist
<1>6. InTurn(step, s, next[i]) = it[next[i]]
  BY <1>4, <1>5, TurnsSame
<1>7. it[next[i]] \in SUBSET D /\ s \subseteq it[next[i]]
  BY <1>5 DEF Iterates
<1>8. QED
  BY <1>4, <1>6, <1>7 DEF D, step

LEMMA SteppingSame ==
  ASSUME NEW next, UsesIn(next), NEW f, Keeps(next, f), NEW g,
         NEW s \in SUBSET DOMAIN next, NEW i \in DOMAIN next,
         \A t \in SUBSET DOMAIN next, j \in DOMAIN next :
           s \subseteq t /\ s # t => g[<<t, j>>] = f[<<t, j>>]
  PROVE  InTurn(Stepping(next, g), s, next[i]) = InTurn(Stepping(next, f), s, next[i])
<1> DEFINE D == DOMAIN next
<1>1. next[i] \in SUBSET D
  BY DEF UsesIn
<1>2. Grows(D, Stepping(next, f), s, next[i])
  BY SteppingGrows
<1>3. ASSUME NEW t \in SUBSET D, NEW j \in next[i], s \subseteq t
      PROVE  Stepping(next, g)[<<t, j>>] = Stepping(next, f)[<<t, j>>]
  <2>1. j \in D
    BY <1>1
  <2>2. /\ Stepping(next, g)[<<t, j>>] = IF j \in t THEN t ELSE g[<<t \cup {j}, j>>]
        /\ Stepping(next, f)[<<t, j>>] = IF j \in t THEN t ELSE f[<<t \cup {j}, j>>]
    BY <2>1 DEF Stepping
  <2>3. j \notin t => g[<<t \cup {j}, j>>] = f[<<t \cup {j}, j>>]
    <3>1. t \cup {j} \in SUBSET D /\ s \subseteq t \cup {j} /\ (j \notin t => s # t \cup {j})
      BY <1>3, <2>1
    <3>2. QED
      BY <2>1, <3>1
  <2>4. QED
    BY <2>2, <2>3
<1>4. PICK it : Iterates(D, it, Stepping(next, f), s, next[i])
  BY <1>2, TurnsExist
<1>5. InTurn(Stepping(next, f), s, next[i]) = it[next[i]]
  BY <1>2, <1>4, TurnsSame
<1>6. InTurn(Stepping(next, g), s, next[i]) = it[next[i]]
  <2> HIDE DEF D
  <2>1. QED
    BY <1>2, <1>3, <1>4, TurnsSame
<1>7. QED
  BY <1>5, <1>6

LEMMA VisitExists ==
  ASSUME NEW next, UsesIn(next)
  PROVE  \E f : Keeps(next, f) /\ Visits(next, f)
<1> DEFINE D == DOMAIN next
           Pairs == (SUBSET D) \X D
           V == SUBSET D
           T == [p \in Pairs |-> {R \in V : p[1] \subseteq R}]
           F == {f \in [Pairs -> V] : \A p \in Pairs : f[p] \in T[p]}
           N == Cardinality(D)
           r == [p \in Pairs |-> Cardinality(D \ p[1])]
           G == [q \in Pairs \X F |-> InTurn(Stepping(next, q[2]), q[1][1], next[q[1][2]])]
<1>0. IsFiniteSet(D) /\ next \in [D -> SUBSET D]
  BY DEF UsesIn
<1> HIDE DEF D
<1>1. /\ N \in Nat /\ r \in [Pairs -> 0 .. N]
      /\ \A s, t \in SUBSET D, i, j \in D :
           t \subseteq s /\ t # s => r[<<s, j>>] < r[<<t, i>>]
  <2>1. \A s \in SUBSET D : Cardinality(D \ s) \in 0 .. N
    BY <1>0, Rank
  <2>2. N \in Nat
    BY <1>0, Rank
  <2>3. \A p \in Pairs : p[1] \in SUBSET D
    OBVIOUS
  <2>4. ASSUME NEW s \in SUBSET D, NEW t \in SUBSET D, NEW i \in D, NEW j \in D,
               t \subseteq s, t # s
        PROVE  r[<<s, j>>] < r[<<t, i>>]
    <3>1. r[<<s, j>>] = Cardinality(D \ s) /\ r[<<t, i>>] = Cardinality(D \ t)
      OBVIOUS
    <3>2. D \ s \subseteq D \ t /\ D \ s # D \ t
      BY <2>4
    <3>3. Cardinality(D \ s) < Cardinality(D \ t)
      BY <1>0, <3>2, Rank
    <3>4. QED
      BY <3>1, <3>3
  <2> HIDE DEF N
  <2>5. r \in [Pairs -> 0 .. N]
    <3>1. \A p \in Pairs : r[p] \in 0 .. N
      BY <2>1, <2>3
    <3>2. QED
      BY <3>1
  <2>6. QED
    BY <2>2, <2>4, <2>5
<1>2. \A p \in Pairs : p = <<p[1], p[2]>> /\ p[1] \in SUBSET D /\ p[2] \in D
  OBVIOUS
<1>3. \A f \in F : Keeps(next, f)
  <2>1. \A f \in F, s \in SUBSET D, i \in D : f[<<s, i>>] \in T[<<s, i>>]
    OBVIOUS
  <2>2. \A f \in F, s \in SUBSET D, i \in D : s \subseteq f[<<s, i>>]
    BY <2>1
  <2>3. QED
    BY <2>2 DEF Keeps, D
<1>4. ASSUME NEW s \in SUBSET D, NEW i \in D, NEW f \in F
      PROVE  /\ G[<<<<s, i>>, f>>] = InTurn(Stepping(next, f), s, next[i])
             /\ G[<<<<s, i>>, f>>] \in T[<<s, i>>]
             /\ G[<<<<s, i>>, f>>] \in V
  <2>1. <<s, i>> \in Pairs /\ G[<<<<s, i>>, f>>] = InTurn(Stepping(next, f), s, next[i])
    OBVIOUS
  <2> HIDE DEF G, F
  <2>2. /\ InTurn(Stepping(next, f), s, next[i]) \in SUBSET D
        /\ s \subseteq InTurn(Stepping(next, f), s, next[i])
    BY <1>3, SteppingGrows DEF D
  <2>3. QED
    BY <2>1, <2>2
<1>5. T \in [Pairs -> SUBSET V] /\ F = {f \in [Pairs -> V] : \A p \in Pairs : f[p] \in T[p]}
  OBVIOUS
<1>6. F # {}
  <2>1. [p \in Pairs |-> D] \in F
    OBVIOUS
  <2>2. QED
    BY <2>1
<1>7. G = [q \in Pairs \X F |-> G[q]]
  OBVIOUS
<1> HIDE DEF G, F, T, r
<1>8. ASSUME NEW p \in Pairs, NEW f \in F
      PROVE  /\ G[<<p, f>>] = InTurn(Stepping(next, f), p[1], next[p[2]])
             /\ G[<<p, f>>] \in T[p] /\ G[<<p, f>>] \in V
  <2>1. p = <<p[1], p[2]>> /\ p[1] \in SUBSET D /\ p[2] \in D
    BY <1>2
  <2> HIDE DEF Pairs, V
  <2>2. QED
    BY <1>4, <2>1
<1>9. G \in [Pairs \X F -> V]
  <2> HIDE DEF Pairs, V
  <2>1. \A q \in Pairs \X F : q = <<q[1], q[2]>> /\ q[1] \in Pairs /\ q[2] \in F
    OBVIOUS
  <2>2. \A q \in Pairs \X F : G[q] \in V
    BY <1>8, <2>1
  <2>3. QED
    BY <1>7, <2>2
<1>10. ASSUME NEW p \in Pairs, NEW f \in F, NEW g \in F,
              \A q \in Pairs : r[q] < r[p] => f[q] = g[q]
       PROVE  G[<<p, f>>] = G[<<p, g>>]
  <2> DEFINE s == p[1]
             i == p[2]
  <2>1. p = <<s, i>> /\ s \in SUBSET D /\ i \in D
    BY <1>2
  <2> HIDE DEF s, i
  <2>2. ASSUME NEW t \in SUBSET D, NEW j \in D, s \subseteq t, s # t
        PROVE  g[<<t, j>>] = f[<<t, j>>]
    <3>1. <<t, j>> \in Pairs /\ r[<<t, j>>] < r[<<s, i>>]
      BY <1>1, <2>1, <2>2
    <3>2. QED
      BY <1>10, <2>1, <3>1
  <2>3. Keeps(next, f)
    BY <1>3
  <2>4. InTurn(Stepping(next, g), s, next[i]) = InTurn(Stepping(next, f), s, next[i])
    BY <2>1, <2>2, <2>3, SteppingSame DEF D
  <2>5. QED
    BY <1>8, <2>4 DEF s, i
<1>11. PICK f \in F : \A p \in Pairs : f[p] = G[<<p, f>>]
  <2> HIDE DEF Pairs, V, N
  <2>1. Recursive(Pairs, V, T, N, r, F, G)
    BY <1>1, <1>5, <1>6, <1>8, <1>9, <1>10 DEF Recursive
  <2>2. QED
    BY <2>1, Recursion
<1>12. Visits(next, f)
  <2>1. f = [p \in Pairs |-> f[p]]
    BY DEF F
  <2>2. \A p \in Pairs : f[p] = InTurn(Stepping(next, f), p[1], next[p[2]])
    BY <1>8, <1>11
  <2>3. QED
    BY <2>1, <2>2 DEF Visits, D
<1>13. QED
  BY <1>3, <1>12

(* Induction over what was seen, from all of it down.                      *)
LEMMA Most ==
  ASSUME NEW D, IsFiniteSet(D), NEW B \in SUBSET SUBSET D, B # {}
  PROVE  \E s \in B : \A t \in B : ~(s \subseteq t /\ t # s)
<1> DEFINE C == {D \ s : s \in B}
<1>1. \A s \in B : s \in SUBSET D /\ D \ s \in C
  OBVIOUS
<1>2. \A c \in C : \E s \in B : c = D \ s
  OBVIOUS
<1> HIDE DEF C
<1>3. C \in SUBSET SUBSET D /\ C # {}
  <2>1. C \in SUBSET SUBSET D
    BY <1>2
  <2>2. C # {}
    BY <1>1
  <2>3. QED
    BY <2>1, <2>2
<1>4. PICK c \in C : \A d \in C : ~(d \subseteq c /\ d # c)
  BY <1>3, Fewest
<1>5. PICK s \in B : c = D \ s
  BY <1>2
<1>6. ASSUME NEW t \in B, s \subseteq t, t # s PROVE FALSE
  <2>1. D \ t \in C /\ D \ t \subseteq D \ s
    BY <1>1, <1>6
  <2>2. D \ t # D \ s
    BY <1>1, <1>6
  <2>3. QED
    BY <1>4, <1>5, <2>1, <2>2
<1>7. QED
  BY <1>6

LEMMA VisitSolves ==
  ASSUME NEW next, UsesIn(next)
  PROVE  Keeps(next, Visit(next)) /\ Visits(next, Visit(next))
<1> DEFINE D == DOMAIN next
           v == Visit(next)
<1>1. PICK f : Keeps(next, f) /\ Visits(next, f)
  BY VisitExists
<1>2. Visits(next, v)
  <2>1. v = CHOOSE visit : Visits(next, visit)
    BY DEF Visit, Visits, Stepping
  <2>2. QED
    BY <1>1, <2>1
<1> HIDE DEF v
<1> DEFINE Bad == {s \in SUBSET D : \E i \in D : v[<<s, i>>] # f[<<s, i>>]}
<1>3. \A s \in SUBSET D, i \in D :
        /\ v[<<s, i>>] = InTurn(Stepping(next, v), s, next[i])
        /\ f[<<s, i>>] = InTurn(Stepping(next, f), s, next[i])
  BY <1>1, <1>2 DEF Visits
<1>4. ASSUME Bad # {} PROVE FALSE
  <2>1. PICK s \in Bad : \A t \in Bad : ~(s \subseteq t /\ t # s)
    <3>1. IsFiniteSet(D) /\ Bad \in SUBSET SUBSET D
      BY DEF UsesIn
    <3> HIDE DEF Bad, D
    <3>2. QED
      BY <1>4, <3>1, Most
  <2>2. s \in SUBSET D
    OBVIOUS
  <2>3. ASSUME NEW t \in SUBSET D, NEW j \in D, s \subseteq t, s # t
        PROVE  v[<<t, j>>] = f[<<t, j>>]
    BY <2>1, <2>3
  <2>4. ASSUME NEW i \in D PROVE v[<<s, i>>] = f[<<s, i>>]
    <3>1. InTurn(Stepping(next, v), s, next[i]) = InTurn(Stepping(next, f), s, next[i])
      BY <1>1, <2>2, <2>3, SteppingSame
    <3>2. QED
      BY <1>3, <2>2, <3>1
  <2>5. QED
    BY <2>1, <2>4
<1>5. v = f
  <2>1. \A s \in SUBSET D, i \in D : v[<<s, i>>] = f[<<s, i>>]
    BY <1>4
  <2>2. /\ v = [p \in (SUBSET D) \X D |-> v[p]]
        /\ f = [p \in (SUBSET D) \X D |-> f[p]]
    BY <1>1, <1>2 DEF Visits
  <2> HIDE DEF D
  <2>3. \A p \in (SUBSET D) \X D : p = <<p[1], p[2]>> /\ p[1] \in SUBSET D /\ p[2] \in D
    OBVIOUS
  <2>4. \A p \in (SUBSET D) \X D : v[p] = f[p]
    BY <2>1, <2>3
  <2>5. QED
    BY <2>2, <2>4
<1>6. QED
  BY <1>1, <1>5 DEF v

(* What one visit does.                                                    *)
LEMMA VisitVisits ==
  ASSUME NEW next, UsesIn(next)
  PROVE  \A s \in SUBSET DOMAIN next, i \in DOMAIN next :
           Visited(next, s, next[i], Visit(next)[<<s, i>>])
<1> DEFINE D == DOMAIN next
           v == Visit(next)
           step == Stepping(next, v)
           Bad == {s \in SUBSET D : \E i \in D : ~Visited(next, s, next[i], v[<<s, i>>])}
<1>1. Keeps(next, v) /\ Visits(next, v)
  BY VisitSolves
<1> HIDE DEF v
<1>2. /\ IsFiniteSet(D) /\ next \in [D -> SUBSET D]
      /\ \A s \in SUBSET D, i \in D : v[<<s, i>>] = InTurn(step, s, next[i])
      /\ \A s \in SUBSET D, i \in D : v[<<s, i>>] \in SUBSET D /\ s \subseteq v[<<s, i>>]
  BY <1>1 DEF UsesIn, Visits, Keeps
<1>3. \A s \in SUBSET D, j \in D :
        step[<<s, j>>] = IF j \in s THEN s ELSE v[<<s \cup {j}, j>>]
  BY DEF Stepping
<1>4. \A s \in SUBSET D, i \in D : Grows(D, step, s, next[i])
  BY <1>1, SteppingGrows
<1> HIDE DEF D, step
<1>5. ASSUME Bad # {} PROVE FALSE
  <2>1. PICK s \in Bad : \A t \in Bad : ~(s \subseteq t /\ t # s)
    <3>1. Bad \in SUBSET SUBSET D
      OBVIOUS
    <3> HIDE DEF Bad
    <3>2. QED
      BY <1>2, <1>5, <3>1, Most
  <2>2. s \in SUBSET D
    OBVIOUS
  <2>3. ASSUME NEW t \in SUBSET D, NEW j \in D, s \subseteq t, s # t
        PROVE  Visited(next, t, next[j], v[<<t, j>>])
    BY <2>1, <2>3
  <2> DEFINE X == [j \in D |-> {j}]
  <2>4. ASSUME NEW t \in SUBSET D, NEW j \in D, s \subseteq t
        PROVE  Visited(next, t, X[j], step[<<t, j>>])
    <3>1. CASE j \in t
      <4>1. step[<<t, j>>] = t /\ X[j] = {j}
        BY <1>3, <3>1
      <4>2. Visited(next, t, {j}, t)
        BY <3>1 DEF Visited, D
      <4>3. QED
        BY <4>1, <4>2
    <3>2. CASE j \notin t
      <4> DEFINE u == t \cup {j}
                 R == v[<<u, j>>]
      <4>1. u \in SUBSET D /\ s \subseteq u /\ s # u
        BY <2>4, <3>2
      <4>2. Visited(next, u, next[j], R)
        BY <2>3, <4>1
      <4>3. step[<<t, j>>] = R /\ X[j] = {j}
        BY <1>3, <3>2
      <4> HIDE DEF R
      <4>4. Visited(next, t, {j}, R)
        <5>1. R \in SUBSET D /\ u \subseteq R /\ next[j] \subseteq R
          BY <4>2 DEF Visited, D
        <5>2. \A i \in R : i \in t \/ next[i] \subseteq R
          BY <4>2, <5>1 DEF Visited
        <5>3. ASSUME NEW C \in SUBSET D, {j} \subseteq C, Closed(next, C)
              PROVE  R \subseteq t \cup C
          <6>1. next[j] \subseteq C
            BY <5>3 DEF Closed
          <6>2. R \subseteq u \cup C
            BY <4>2, <5>3, <6>1 DEF Visited, D
          <6>3. QED
            BY <5>3, <6>2
        <5>4. QED
          BY <5>1, <5>2, <5>3 DEF Visited, D
      <4>5. QED
        BY <4>3, <4>4
    <3>3. QED
      BY <3>1, <3>2
  <2>5. ASSUME NEW i \in D PROVE Visited(next, s, next[i], v[<<s, i>>])
    <3>1. next[i] \in SUBSET D
      BY <1>2
    <3>2. Visited(next, s, UNION {X[j] : j \in next[i]}, InTurn(step, s, next[i]))
      <4>1. Grows(D, step, s, next[i]) /\ X \in [D -> SUBSET D]
        BY <1>4, <2>2
      <4>2. \A t \in SUBSET D, j \in next[i] :
              s \subseteq t => Visited(next, t, X[j], step[<<t, j>>])
        BY <2>4, <3>1
      <4> HIDE DEF X
      <4>3. QED
        BY <1>2, <4>1, <4>2, TurnVisits
    <3>3. UNION {X[j] : j \in next[i]} = next[i]
      BY <3>1
    <3>4. v[<<s, i>>] = InTurn(step, s, next[i])
      BY <1>2, <2>2
    <3>5. QED
      BY <3>2, <3>3, <3>4
  <2>6. QED
    BY <2>1, <2>5
<1>6. QED
  BY <1>5 DEF D, v

(* The trace of a set is the least closed set that has what the elements   *)
(* of the set lead to, directly.                                           *)
LEMMA TraceLeast ==
  ASSUME NEW next, UsesIn(next), NEW set \in SUBSET DOMAIN next
  PROVE  /\ TraceOf(next, set) \in SUBSET DOMAIN next
         /\ Closed(next, TraceOf(next, set))
         /\ \A j \in set : next[j] \subseteq TraceOf(next, set)
         /\ \A C \in SUBSET DOMAIN next :
              (\A j \in set : next[j] \subseteq C) /\ Closed(next, C) => TraceOf(next, set) \subseteq C
<1> DEFINE D == DOMAIN next
           v == Visit(next)
           R == InTurn(v, {}, set)
           A == UNION {next[j] : j \in set}
<1>1. IsFiniteSet(D) /\ next \in [D -> SUBSET D]
  BY DEF UsesIn
<1>2. Grows(D, v, {}, set)
  BY <1>1, VisitSolves DEF Keeps, Grows
<1>3. \A s \in SUBSET D, j \in set : Visited(next, s, next[j], v[<<s, j>>])
  BY VisitVisits
<1>4. Visited(next, {}, A, R)
  <2> HIDE DEF D, v
  <2>1. \A s \in SUBSET D, j \in set : {} \subseteq s => Visited(next, s, next[j], v[<<s, j>>])
    BY <1>3
  <2>2. QED
    BY <1>1, <1>2, <2>1, TurnVisits
<1>5. R = TraceOf(next, set)
  BY DEF TraceOf
<1> HIDE DEF R
<1>6. \A C : A \subseteq C <=> \A j \in set : next[j] \subseteq C
  OBVIOUS
<1> HIDE DEF A
<1>7. QED
  BY <1>4, <1>5, <1>6 DEF Visited, Closed

(* What an instruction leads to is closed, and least of its kind.          *)
LEMMA ReachedLeast ==
  ASSUME NEW next, UsesIn(next), NEW j \in DOMAIN next
  PROVE  /\ Reached(next, j) \in SUBSET DOMAIN next
         /\ next[j] \subseteq Reached(next, j)
         /\ Closed(next, Reached(next, j))
         /\ \A C \in SUBSET DOMAIN next :
              next[j] \subseteq C /\ Closed(next, C) => Reached(next, j) \subseteq C
<1> DEFINE D == DOMAIN next
           R == Reached(next, j)
<1>1. next \in [D -> SUBSET D]
  BY DEF UsesIn
<1>2. \A i : i \in R <=> i \in D /\ \A C \in SUBSET D :
                                     next[j] \subseteq C /\ Closed(next, C) => i \in C
  BY DEF Reached
<1> HIDE DEF R
<1>3. R \in SUBSET D /\ next[j] \subseteq R
  BY <1>1, <1>2
<1>4. ASSUME NEW i \in R, NEW k \in next[i] PROVE k \in R
  <2>1. k \in D /\ i \in D
    BY <1>1, <1>3, <1>4
  <2>2. ASSUME NEW C \in SUBSET D, next[j] \subseteq C, Closed(next, C) PROVE k \in C
    <3>1. i \in C
      BY <1>2, <1>4, <2>2
    <3>2. QED
      BY <1>4, <2>2, <3>1 DEF Closed
  <2>3. QED
    BY <1>2, <2>1, <2>2
<1>5. \A C \in SUBSET D : next[j] \subseteq C /\ Closed(next, C) => R \subseteq C
  BY <1>2
<1>6. QED
  BY <1>3, <1>4, <1>5 DEF Closed, R

LEMMA TraceIsReached ==
  ASSUME NEW next, UsesIn(next), NEW set \in SUBSET DOMAIN next
  PROVE  TraceOf(next, set) = UNION {Reached(next, j) : j \in set}
<1> DEFINE D == DOMAIN next
           R == TraceOf(next, set)
           U == UNION {Reached(next, j) : j \in set}
<1>1. /\ R \in SUBSET D /\ Closed(next, R)
      /\ \A j \in set : next[j] \subseteq R
      /\ \A C \in SUBSET D :
           (\A j \in set : next[j] \subseteq C) /\ Closed(next, C) => R \subseteq C
  BY TraceLeast
<1>2. ASSUME NEW j \in set
      PROVE  /\ Reached(next, j) \in SUBSET D /\ next[j] \subseteq Reached(next, j)
             /\ Closed(next, Reached(next, j)) /\ Reached(next, j) \subseteq R
  <2>1. j \in D /\ next[j] \subseteq R
    BY <1>1
  <2>2. QED
    BY <1>1, <2>1, ReachedLeast
<1> HIDE DEF R
<1>3. U \subseteq R
  BY <1>2
<1>4. R \subseteq U
  <2>1. U \in SUBSET D /\ \A j \in set : next[j] \subseteq U
    BY <1>2
  <2>2. Closed(next, U)
    <3> SUFFICES ASSUME NEW i \in U PROVE next[i] \subseteq U
      BY DEF Closed
    <3>1. PICK j \in set : i \in Reached(next, j)
      OBVIOUS
    <3>2. next[i] \subseteq Reached(next, j)
      BY <1>2, <3>1 DEF Closed
    <3>3. QED
      BY <3>2
  <2> HIDE DEF U
  <2>3. QED
    BY <1>1, <2>1, <2>2
<1>5. QED
  BY <1>3, <1>4 DEF R

(* An instruction leads to another through users if and only if the other  *)
(* leads to it through operands.                                           *)
LEMMA UsersGraph ==
  ASSUME NEW src, UsesIn(src)
  PROVE  /\ UsesIn(Users(src)) /\ DOMAIN Users(src) = DOMAIN src
         /\ Users(Users(src)) = src
         /\ \A i, j \in DOMAIN src : j \in Users(src)[i] <=> i \in src[j]
<1> DEFINE D == DOMAIN src
<1>1. IsFiniteSet(D) /\ src \in [D -> SUBSET D]
  BY DEF UsesIn
<1>2. Users(src) \in [D -> SUBSET D] /\ DOMAIN Users(src) = D
  BY DEF Users
<1>3. \A i, j \in D : j \in Users(src)[i] <=> i \in src[j]
  BY DEF Users
<1>4. Users(Users(src)) = src
  <2>1. /\ Users(Users(src)) \in [D -> SUBSET D]
        /\ \A i, j \in D : j \in Users(Users(src))[i] <=> i \in Users(src)[j]
    BY <1>2 DEF Users
  <2>2. ASSUME NEW i \in D PROVE Users(Users(src))[i] = src[i]
    <3>1. Users(Users(src))[i] \subseteq D /\ src[i] \subseteq D
      BY <1>1, <2>1
    <3>2. \A j \in D : j \in Users(Users(src))[i] <=> j \in src[i]
      BY <1>3, <2>1
    <3>3. QED
      BY <3>1, <3>2
  <2>3. QED
    BY <1>1, <2>1, <2>2
<1>5. QED
  BY <1>1, <1>2, <1>3, <1>4 DEF UsesIn

LEMMA UsersReach ==
  ASSUME NEW src, UsesIn(src), NEW i \in DOMAIN src, NEW j \in DOMAIN src,
         i \in Reached(Users(src), j)
  PROVE  j \in Reached(src, i)
<1> DEFINE D == DOMAIN src
           S == {k \in D : j \in Reached(src, k)}
<1>1. src \in [D -> SUBSET D]
  BY DEF UsesIn
<1>2. UsesIn(Users(src)) /\ DOMAIN Users(src) = D
  BY UsersGraph
<1>3. ASSUME NEW k \in D, NEW m \in Users(src)[k]
      PROVE  /\ m \in D /\ k \in Reached(src, m)
             /\ Reached(src, k) \subseteq Reached(src, m)
  <2>1. m \in D
    BY <1>2 DEF UsesIn
  <2>2. k \in src[m]
    BY <2>1, UsersGraph
  <2>3. /\ Reached(src, m) \in SUBSET D /\ src[m] \subseteq Reached(src, m)
        /\ Closed(src, Reached(src, m))
    BY <2>1, ReachedLeast
  <2>4. k \in Reached(src, m) /\ src[k] \subseteq Reached(src, m)
    BY <2>2, <2>3 DEF Closed
  <2>5. Reached(src, k) \subseteq Reached(src, m)
    BY <2>3, <2>4, ReachedLeast
  <2>6. QED
    BY <2>1, <2>4, <2>5
<1>4. Users(src)[j] \subseteq S /\ S \in SUBSET D
  BY <1>3
<1>5. Closed(Users(src), S)
  BY <1>3 DEF Closed
<1>6. Reached(Users(src), j) \subseteq S
  <2> HIDE DEF S
  <2>1. QED
    BY <1>2, <1>4, <1>5, ReachedLeast
<1>7. QED
  BY <1>6

(* Whatever the graph of uses, with loops or without: the instructions     *)
(* selected are those TracedSelection describes.                           *)
THEOREM TracedSelectionCorrect == PassSpec => []TracedSelection
<1>1. ASSUME InputFits PROVE TracedSelection
  <2> DEFINE src == input.src
             b == input.backward
             f == input.forward
             opcodes == OpcodeList(input.include, input.exclude, OpcodeNames)
             inits == {InitFIInsts(OpcodeOf, opcodes)} \cup input.other
             D == DOMAIN OpcodeOf
  <2> SUFFICES ASSUME pass = "selection"
               PROVE  SelectedInsts(inits, src, b, f) =
                        {i \in D : \A init \in inits : \E j \in init :
                           \/ i = j
                           \/ b /\ i \in Reached(src, j)
                           \/ f /\ j \in Reached(src, i)}
    BY DEF TracedSelection
  <2>1. /\ IsFiniteSet(D) /\ src \in [D -> SUBSET D]
        /\ \A init \in inits : init \in SUBSET D
    BY <1>1, SelectionAssumption DEF InputFits, InitFIInsts
  <2> HIDE DEF src, b, f, inits, D
  <2>2. UsesIn(src) /\ DOMAIN src = D
    BY <2>1 DEF UsesIn
  <2>3. UsesIn(Users(src)) /\ DOMAIN Users(src) = D /\ Users(Users(src)) = src
    BY <2>2, UsersGraph
  <2>4. \A i, j \in D : i \in Reached(Users(src), j) <=> j \in Reached(src, i)
    <3>1. ASSUME NEW i \in D, NEW j \in D, i \in Reached(Users(src), j)
          PROVE  j \in Reached(src, i)
      BY <2>2, <3>1, UsersReach
    <3>2. ASSUME NEW i \in D, NEW j \in D, j \in Reached(src, i)
          PROVE  i \in Reached(Users(src), j)
      BY <2>3, <3>2, UsersReach
    <3>3. QED
      BY <3>1, <3>2
  <2>5. ASSUME NEW init \in inits, NEW i \in D
        PROVE  i \in SelectorInsts(init, src, b, f) <=>
                 \E j \in init : \/ i = j
                                 \/ b /\ i \in Reached(src, j)
                                 \/ f /\ j \in Reached(src, i)
    <3>1. init \in SUBSET D
      BY <2>1
    <3>2. /\ TraceOf(src, init) = UNION {Reached(src, j) : j \in init}
          /\ TraceOf(Users(src), init) = UNION {Reached(Users(src), j) : j \in init}
      BY <2>2, <2>3, <3>1, TraceIsReached
    <3>3. i \in TraceOf(src, init) <=> \E j \in init : i \in Reached(src, j)
      BY <3>2
    <3>4. i \in TraceOf(Users(src), init) <=> \E j \in init : j \in Reached(src, i)
      BY <2>4, <3>1, <3>2
    <3>5. i \in SelectorInsts(init, src, b, f) <=>
            i \in init \/ (b /\ i \in TraceOf(src, init)) \/ (f /\ i \in TraceOf(Users(src), init))
      BY DEF SelectorInsts
    <3>6. QED
      BY <3>3, <3>4, <3>5
  <2>6. SelectedInsts(inits, src, b, f) =
          {i \in D : \A init \in inits : i \in SelectorInsts(init, src, b, f)}
    BY <2>2 DEF SelectedInsts
  <2>7. QED
    BY <2>5, <2>6
<1>2. QED
  BY <1>1, InputStays, PTL
=============================================================================
