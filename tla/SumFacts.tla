------------------------------ MODULE SumFacts ------------------------------
(***************************************************************************)
(* What the sums of the models do, for every function and finite set: the  *)
(* order in which the community module's fold picks the elements does not  *)
(* matter, sums of naturals are naturals, and they grow with the set.      *)
(*                                                                         *)
(* The induction is by a smallest counterexample, which the library's      *)
(* theorems give for a set of sets (WFMin over the strict inclusion): a    *)
(* theorem with a predicate for a parameter cannot be instantiated, one    *)
(* with a set can.                                                         *)
(***************************************************************************)
EXTENDS Integers, Functions, FiniteSetTheorems, WellFoundedInduction, TLAPS

Pick(s) == CHOOSE x \in s : TRUE

Value(g, f, s) == IF s = {} THEN 0 ELSE f[Pick(s)] + g[s \ {Pick(s)}]

(* g sums f over the subsets of S. *)
Sums(g, f, S) == \A s \in SUBSET S : g[s] = Value(g, f, s)

LEMMA PickIsIn ==
  ASSUME NEW s, s # {}
  PROVE  Pick(s) \in s
  BY DEF Pick

(* A set of subsets of a finite set has a smallest element. *)
LEMMA Smallest ==
  ASSUME NEW S, IsFiniteSet(S), NEW Bad, Bad \subseteq SUBSET S, Bad # {}
  PROVE  \E s \in Bad : \A t \in Bad : t \subseteq s => t = s
  <1>1. IsWellFoundedOn(StrictSubsetOrdering(S), SUBSET S)
    BY FS_StrictSubsetOrderingWellFounded, FS_FiniteSubsetsOfFinite
  <1>2. PICK s \in Bad : \A t \in Bad : ~(<<t, s>> \in StrictSubsetOrdering(S))
    BY <1>1, WFMin
  <1>3. \A t \in Bad : t \subseteq s => t = s
    BY <1>2 DEF StrictSubsetOrdering
  <1> QED BY <1>3

(* There is at most one such function. *)
LEMMA SumsAgree ==
  ASSUME NEW f, NEW S, IsFiniteSet(S), NEW g, NEW h, Sums(g, f, S), Sums(h, f, S)
  PROVE  g[S] = h[S]
  <1> DEFINE Bad == {s \in SUBSET S : g[s] # h[s]}
  <1>1. SUFFICES ASSUME Bad # {} PROVE FALSE
    OBVIOUS
  <1>2. PICK s \in Bad : \A t \in Bad : t \subseteq s => t = s
    <2>1. Bad \subseteq SUBSET S
      OBVIOUS
    <2> HIDE DEF Bad
    <2> QED BY <1>1, <2>1, Smallest
  <1>3. g[s] = Value(g, f, s) /\ h[s] = Value(h, f, s)
    BY <1>2 DEF Sums
  <1>4. CASE s = {}
    BY <1>2, <1>3, <1>4 DEF Value
  <1>5. CASE s # {}
    <2>1. s \ {Pick(s)} \subseteq s /\ s \ {Pick(s)} # s
      BY <1>5, PickIsIn
    <2>2. g[s \ {Pick(s)}] = h[s \ {Pick(s)}]
      BY <1>2, <2>1
    <2> QED BY <1>2, <1>3, <1>5, <2>2 DEF Value
  <1> QED BY <1>4, <1>5

(* There is one. *)
LEMMA SumsExist ==
  ASSUME NEW f, NEW S, IsFiniteSet(S)
  PROVE  \E g : Sums(g, f, S)
  <1> DEFINE Bad == {T \in SUBSET S : ~\E g : Sums(g, f, T)}
  <1>1. SUFFICES ASSUME Bad # {} PROVE FALSE
    OBVIOUS
  <1>2. PICK T \in Bad : \A U \in Bad : U \subseteq T => U = T
    <2>1. Bad \subseteq SUBSET S
      OBVIOUS
    <2> HIDE DEF Bad
    <2> QED BY <1>1, <2>1, Smallest
  <1> DEFINE G(U) == CHOOSE g : Sums(g, f, U)
  <1>3. ASSUME NEW U \in SUBSET T, U # T PROVE Sums(G(U), f, U) /\ IsFiniteSet(U)
    <2>1. U \in SUBSET S /\ U \notin Bad
      BY <1>2, <1>3
    <2>2. \E g : Sums(g, f, U)
      BY <2>1
    <2> QED BY <2>1, <2>2, FS_Subset
  <1>4. ASSUME NEW U \in SUBSET T, U # T, NEW V \in SUBSET U PROVE G(U)[V] = G(V)[V]
    <2>1. Sums(G(U), f, V)
      BY <1>3, <1>4 DEF Sums
    <2>2. V \in SUBSET T /\ V # T
      BY <1>4
    <2>3. Sums(G(V), f, V) /\ IsFiniteSet(V)
      BY <1>3, <2>2
    <2> QED BY <2>1, <2>3, SumsAgree
  <1> DEFINE h == [s \in SUBSET T |-> IF s = {} THEN 0
                                      ELSE f[Pick(s)] + G(s \ {Pick(s)})[s \ {Pick(s)}]]
  <1>5. ASSUME NEW s \in SUBSET T, s # T PROVE h[s] = G(s)[s]
    <2>1. G(s)[s] = Value(G(s), f, s)
      BY <1>3, <1>5 DEF Sums
    <2>2. CASE s = {}
      BY <2>1, <2>2 DEF Value
    <2>3. CASE s # {}
      <3>1. PICK u : u = s \ {Pick(s)}
        OBVIOUS
      <3>2. G(s)[u] = G(u)[u]
        BY <1>4, <1>5, <3>1
      <3>3. h[s] = f[Pick(s)] + G(u)[u]
        BY <2>3, <3>1
      <3>4. G(s)[s] = f[Pick(s)] + G(s)[u]
        BY <2>1, <2>3, <3>1 DEF Value
      <3> QED BY <3>2, <3>3, <3>4
    <2> QED BY <2>2, <2>3
  <1>6. ASSUME NEW s \in SUBSET T PROVE h[s] = Value(h, f, s)
    <2>1. CASE s = {}
      BY <2>1 DEF Value
    <2>2. CASE s # {}
      <3>1. PICK u : u = s \ {Pick(s)}
        OBVIOUS
      <3>2. u \in SUBSET T /\ u # T
        BY <2>2, <3>1, PickIsIn
      <3>3. h[u] = G(u)[u]
        BY <1>5, <3>2
      <3>4. h[s] = f[Pick(s)] + G(u)[u]
        BY <2>2, <3>1
      <3> QED BY <2>2, <3>1, <3>3, <3>4 DEF Value
    <2> QED BY <2>1, <2>2
  <1>7. Sums(h, f, T)
    BY <1>6 DEF Sums
  <1> HIDE DEF h
  <1> QED BY <1>2, <1>7

(* The fold of the community module is that function's value. *)
LEMMA SumIsValue ==
  ASSUME NEW f, NEW S, IsFiniteSet(S), NEW g, Sums(g, f, S)
  PROVE  SumFunctionOnSet(f, S) = g[S]
  <1> DEFINE Fold(k) == k = [s \in SUBSET S |-> IF s = {} THEN 0
                                                ELSE f[Pick(s)] + k[s \ {Pick(s)}]]
             k0 == CHOOSE k : Fold(k)
             g0 == [s \in SUBSET S |-> g[s]]
  <1>1. SumFunctionOnSet(f, S) = k0[S]
    BY DEF SumFunctionOnSet, FoldFunctionOnSet, MapThenFoldSet, Pick
  <1>2. ASSUME NEW s \in SUBSET S
        PROVE  g0[s] = IF s = {} THEN 0 ELSE f[Pick(s)] + g0[s \ {Pick(s)}]
    <2>1. g0[s] = g[s] /\ g[s] = Value(g, f, s)
      BY DEF Sums
    <2>2. g0[s \ {Pick(s)}] = g[s \ {Pick(s)}]
      OBVIOUS
    <2> HIDE DEF g0
    <2> QED BY <2>1, <2>2 DEF Value
  <1>3. Fold(g0)
    BY <1>2
  <1>4. Fold(k0)
    <2> HIDE DEF g0, Fold
    <2> QED BY <1>3
  <1>5. Sums(k0, f, S)
    <2> SUFFICES ASSUME NEW s \in SUBSET S PROVE k0[s] = Value(k0, f, s)
      BY DEF Sums
    <2> HIDE DEF k0
    <2> QED BY <1>4 DEF Value
  <1> HIDE DEF k0
  <1> QED BY <1>1, <1>5, SumsAgree

-----------------------------------------------------------------------------
LEMMA SumStep ==
  ASSUME NEW f, NEW S, IsFiniteSet(S)
  PROVE  /\ S = {} => SumFunctionOnSet(f, S) = 0
         /\ S # {} => /\ Pick(S) \in S
                      /\ SumFunctionOnSet(f, S)
                           = f[Pick(S)] + SumFunctionOnSet(f, S \ {Pick(S)})
  <1>1. PICK g : Sums(g, f, S)
    BY SumsExist
  <1>2. SumFunctionOnSet(f, S) = g[S] /\ g[S] = Value(g, f, S)
    BY <1>1, SumIsValue DEF Sums
  <1>3. PICK T : T = S \ {Pick(S)}
    OBVIOUS
  <1>4. IsFiniteSet(T) /\ Sums(g, f, T)
    BY <1>1, <1>3, FS_Subset DEF Sums
  <1>5. SumFunctionOnSet(f, T) = g[T]
    BY <1>4, SumIsValue
  <1> QED BY <1>2, <1>3, <1>5, PickIsIn DEF Value

(* Sums of naturals are naturals. *)
LEMMA SumIsNat ==
  ASSUME NEW f, NEW S, IsFiniteSet(S), \A x \in S : f[x] \in Nat
  PROVE  SumFunctionOnSet(f, S) \in Nat
  <1> DEFINE Bad == {T \in SUBSET S : SumFunctionOnSet(f, T) \notin Nat}
  <1>1. SUFFICES ASSUME Bad # {} PROVE FALSE
    OBVIOUS
  <1>2. PICK T \in Bad : \A U \in Bad : U \subseteq T => U = T
    <2>1. Bad \subseteq SUBSET S
      OBVIOUS
    <2> HIDE DEF Bad
    <2> QED BY <1>1, <2>1, Smallest
  <1>3. T \in SUBSET S /\ IsFiniteSet(T) /\ SumFunctionOnSet(f, T) \notin Nat
    BY <1>2, FS_Subset
  <1>4. T # {}
    <2>1. T = {} => SumFunctionOnSet(f, T) = 0
      BY <1>3, SumStep
    <2> QED BY <1>3, <2>1
  <1>5. PICK x \in T : SumFunctionOnSet(f, T) = f[x] + SumFunctionOnSet(f, T \ {x})
    BY <1>3, <1>4, SumStep
  <1>6. T \ {x} \subseteq T /\ T \ {x} # T /\ T \ {x} \in SUBSET S
    BY <1>3
  <1>7. SumFunctionOnSet(f, T \ {x}) \in Nat
    BY <1>2, <1>6
  <1> QED BY <1>3, <1>5, <1>7

(* It does not matter which element is taken first. *)
LEMMA SumTakes ==
  ASSUME NEW f, NEW S, IsFiniteSet(S), \A y \in S : f[y] \in Nat, NEW x \in S
  PROVE  SumFunctionOnSet(f, S) = f[x] + SumFunctionOnSet(f, S \ {x})
  <1> DEFINE Bad == {T \in SUBSET S : \E y \in T :
                       SumFunctionOnSet(f, T) # f[y] + SumFunctionOnSet(f, T \ {y})}
  <1>1. SUFFICES ASSUME Bad # {} PROVE FALSE
    OBVIOUS
  <1>2. PICK T \in Bad : \A U \in Bad : U \subseteq T => U = T
    <2>1. Bad \subseteq SUBSET S
      OBVIOUS
    <2> HIDE DEF Bad
    <2> QED BY <1>1, <2>1, Smallest
  <1>3. PICK y \in T : SumFunctionOnSet(f, T) # f[y] + SumFunctionOnSet(f, T \ {y})
    BY <1>2
  <1>4. T \in SUBSET S /\ IsFiniteSet(T) /\ T # {}
    BY <1>2, <1>3, FS_Subset
  <1>5. PICK c \in T : SumFunctionOnSet(f, T) = f[c] + SumFunctionOnSet(f, T \ {c})
    BY <1>4, SumStep
  <1>6. c # y
    BY <1>3, <1>5
  <1>7. ASSUME NEW U \in SUBSET T, U # T, NEW z \in U
        PROVE  SumFunctionOnSet(f, U) = f[z] + SumFunctionOnSet(f, U \ {z})
    <2>1. U \in SUBSET S /\ U \notin Bad
      BY <1>2, <1>4, <1>7
    <2> QED BY <1>7, <2>1
  <1>8. SumFunctionOnSet(f, T \ {c}) = f[y] + SumFunctionOnSet(f, (T \ {c}) \ {y})
    BY <1>6, <1>7
  <1>9. SumFunctionOnSet(f, T \ {y}) = f[c] + SumFunctionOnSet(f, (T \ {y}) \ {c})
    BY <1>6, <1>7
  <1>10. PICK V \in SUBSET T : V = (T \ {c}) \ {y} /\ V = (T \ {y}) \ {c}
    OBVIOUS
  <1>11. SumFunctionOnSet(f, V) \in Nat
    BY <1>4, FS_Subset, SumIsNat
  <1>12. f[c] \in Nat /\ f[y] \in Nat
    BY <1>4
  <1>13. SumFunctionOnSet(f, T) = f[c] + (f[y] + SumFunctionOnSet(f, V))
    BY <1>5, <1>8, <1>10
  <1>14. f[y] + SumFunctionOnSet(f, T \ {y}) = f[y] + (f[c] + SumFunctionOnSet(f, V))
    BY <1>9, <1>10
  <1>15. f[c] + (f[y] + SumFunctionOnSet(f, V)) = f[y] + (f[c] + SumFunctionOnSet(f, V))
    BY <1>11, <1>12
  <1> QED BY <1>3, <1>13, <1>14, <1>15

LEMMA SumAdds ==
  ASSUME NEW f, NEW S, IsFiniteSet(S), \A y \in S : f[y] \in Nat, NEW x, f[x] \in Nat, x \notin S
  PROVE  SumFunctionOnSet(f, S \cup {x}) = f[x] + SumFunctionOnSet(f, S)
  <1>1. IsFiniteSet(S \cup {x}) /\ (S \cup {x}) \ {x} = S
    BY FS_AddElement
  <1> QED BY <1>1, SumTakes

(* A sum looks at the summands in its set only. *)
LEMMA SumLooks ==
  ASSUME NEW f, NEW g, NEW S, IsFiniteSet(S), \A x \in S : f[x] = g[x]
  PROVE  SumFunctionOnSet(f, S) = SumFunctionOnSet(g, S)
  <1>1. PICK h : Sums(h, f, S)
    BY SumsExist
  <1>2. Sums(h, g, S)
    <2> SUFFICES ASSUME NEW s \in SUBSET S PROVE h[s] = Value(h, g, s)
      BY DEF Sums
    <2>1. h[s] = Value(h, f, s)
      BY <1>1 DEF Sums
    <2> QED BY <2>1, PickIsIn DEF Value
  <1> QED BY <1>1, <1>2, SumIsValue

(* Sums of naturals grow with the set. *)
LEMMA SumGrows ==
  ASSUME NEW f, NEW S, IsFiniteSet(S), \A x \in S : f[x] \in Nat, NEW T \in SUBSET S
  PROVE  SumFunctionOnSet(f, T) <= SumFunctionOnSet(f, S)
  <1> DEFINE Bad == {U \in SUBSET S :
                       T \subseteq U /\ ~(SumFunctionOnSet(f, T) <= SumFunctionOnSet(f, U))}
  <1>1. SUFFICES ASSUME Bad # {} PROVE FALSE
    OBVIOUS
  <1>2. PICK U \in Bad : \A V \in Bad : V \subseteq U => V = U
    <2>1. Bad \subseteq SUBSET S
      OBVIOUS
    <2> HIDE DEF Bad
    <2> QED BY <1>1, <2>1, Smallest
  <1>3. /\ U \in SUBSET S /\ T \subseteq U /\ IsFiniteSet(U)
        /\ ~(SumFunctionOnSet(f, T) <= SumFunctionOnSet(f, U))
    BY <1>2, FS_Subset
  <1>4. \A V \in SUBSET S : SumFunctionOnSet(f, V) \in Nat
    BY FS_Subset, SumIsNat
  <1>5. PICK x \in U : x \notin T
    BY <1>3, <1>4
  <1>6. SumFunctionOnSet(f, U) = f[x] + SumFunctionOnSet(f, U \ {x})
    BY <1>3, SumTakes
  <1>7. U \ {x} \in SUBSET S /\ U \ {x} \notin Bad
    BY <1>2, <1>3
  <1>8. SumFunctionOnSet(f, T) <= SumFunctionOnSet(f, U \ {x})
    BY <1>3, <1>5, <1>7
  <1> QED BY <1>3, <1>4, <1>6, <1>7, <1>8
=============================================================================
