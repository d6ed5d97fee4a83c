------------------------------- MODULE Sumas -------------------------------
(***************************************************************************)
(* Sums over finite sets, as MapThenSumSet of the community modules adds   *)
(* them up: a recursion over the subsets of a finite set exists, and the   *)
(* sum does not depend on the order in which it chooses the elements.      *)
(* Induction is by a least counterexample, which is a fact about sets.     *)
(***************************************************************************)
EXTENDS Totales, FiniteSetTheorems, WellFoundedInduction, TLAPS

\* every set of naturals has a least element
LEMMA Minimo ==
  ASSUME NEW T \in SUBSET Nat, T # {}
  PROVE  \E x \in T : \A y \in T : x <= y
<1> DEFINE R == {p \in Nat \X Nat : p[1] < p[2]}
<1>1. IsWellFoundedOn(R, Nat)
  BY NatLessThanWellFounded, Zenon DEF OpToRel
<1>2. PICK x \in T : \A y \in T : <<y, x>> \notin R
  <2> HIDE DEF R
  <2> QED BY <1>1, WFMin
<1>3. \A y \in T : ~(y < x)
  BY <1>2
<1> QED BY <1>3

\* induction over the subsets of a finite set: M has those whose strict subsets it has
LEMMA PorSubconjuntos ==
  ASSUME NEW S, IsFiniteSet(S), NEW M,
         \A T \in SUBSET S : (\A U \in SUBSET T : U # T => U \in M) => T \in M
  PROVE  \A T \in SUBSET S : T \in M
<1> DEFINE Malos == {T \in SUBSET S : T \notin M}
           R == StrictSubsetOrdering(S)
<1>1. IsWellFoundedOn(R, SUBSET S)
  BY FS_StrictSubsetOrderingWellFounded, FS_FiniteSubsetsOfFinite
<1>2. SUFFICES ASSUME Malos # {} PROVE FALSE
  OBVIOUS
<1>3. PICK T \in Malos : \A U \in Malos : <<U, T>> \notin R
  <2>1. Malos \subseteq SUBSET S
    OBVIOUS
  <2> HIDE DEF R, Malos
  <2> QED BY <1>1, <1>2, <2>1, WFMin
<1>4. \A U \in SUBSET T : U # T => U \in M
  BY <1>3 DEF StrictSubsetOrdering
<1> QED BY <1>3, <1>4

\* A recursion over the subsets of S takes one element after another off them, by
\* elige, and makes its values in V out of base and of paso.
Elige(elige, S) == \A s \in SUBSET S : s # {} => elige[s] \in s
Pasa(paso, S, V) == \A s \in SUBSET S : \A v \in V : paso[<<s, v>>] \in V
Recorre(it, S, base, elige, paso) ==
  \A s \in SUBSET S : it[s] = IF s = {} THEN base ELSE paso[<<s, it[s \ {elige[s]}]>>]

\* over a finite set, such a recursion defines a function
LEMMA Recorrido ==
  ASSUME NEW S, IsFiniteSet(S), NEW V, NEW base \in V, NEW elige, NEW paso,
         Elige(elige, S), Pasa(paso, S, V)
  PROVE  \E it \in [SUBSET S -> V] : Recorre(it, S, base, elige, paso)
<1> USE DEF Elige, Pasa, Recorre
<1> DEFINE Hasta(n) == {s \in SUBSET S : Cardinality(s) <= n}
           Llega(n) == \E it \in [Hasta(n) -> V] :
                         \A s \in Hasta(n) :
                           it[s] = IF s = {} THEN base ELSE paso[<<s, it[s \ {elige[s]}]>>]
           Malos == {n \in Nat : ~Llega(n)}
<1>1. \A s \in SUBSET S : IsFiniteSet(s) /\ Cardinality(s) \in Nat
  BY FS_Subset, FS_CardinalityType
<1>2. \A s \in SUBSET S : s # {} =>
        /\ s \ {elige[s]} \in SUBSET S
        /\ Cardinality(s \ {elige[s]}) = Cardinality(s) - 1
  BY <1>1, FS_RemoveElement
<1>3. Malos = {}
  <2>1. SUFFICES ASSUME Malos # {} PROVE FALSE
    OBVIOUS
  <2>2. PICK n \in Malos : \A m \in Malos : n <= m
    <3> HIDE DEF Malos
    <3>1. Malos \in SUBSET Nat
      BY DEF Malos
    <3> QED BY <2>1, <3>1, Minimo
  <2>3. n # 0
    <3>1. \A s \in Hasta(0) : s = {}
      BY <1>1, FS_EmptySet
    <3>2. Llega(0)
      <4> DEFINE it == [s \in Hasta(0) |-> base]
      <4>1. it \in [Hasta(0) -> V] /\ \A s \in Hasta(0) : it[s] = base
        OBVIOUS
      <4> HIDE DEF it, Hasta
      <4> QED BY <3>1, <4>1
    <3> HIDE DEF Llega
    <3> QED BY <2>2, <3>2
  <2>4. n - 1 \in Nat /\ Llega(n - 1)
    <3> HIDE DEF Llega
    <3>1. n - 1 \in Nat /\ ~(n <= n - 1)
      BY <2>2, <2>3
    <3> QED BY <2>2, <3>1
  <2>5. PICK antes \in [Hasta(n - 1) -> V] :
          \A s \in Hasta(n - 1) :
            antes[s] = IF s = {} THEN base ELSE paso[<<s, antes[s \ {elige[s]}]>>]
    BY <2>4
  <2> DEFINE it == [s \in Hasta(n) |->
                      IF s = {} THEN base ELSE paso[<<s, antes[s \ {elige[s]}]>>]]
  <2>6. \A s \in Hasta(n) : s # {} => s \ {elige[s]} \in Hasta(n - 1) /\ s \in SUBSET S
    BY <1>1, <1>2, <2>2
  <2>7. it \in [Hasta(n) -> V]
    BY <2>5, <2>6
  <2>8. \A s \in Hasta(n - 1) : s \in Hasta(n) /\ it[s] = antes[s]
    BY <1>1, <2>2, <2>5
  <2>9. \A s \in Hasta(n) :
          it[s] = IF s = {} THEN base ELSE paso[<<s, it[s \ {elige[s]}]>>]
    BY <2>6, <2>8
  <2>10. Llega(n)
    <3> HIDE DEF it, Hasta
    <3> QED BY <2>7, <2>9
  <2> QED BY <2>2, <2>10
<1>4. Llega(Cardinality(S))
  BY <1>1, <1>3
<1>5. Hasta(Cardinality(S)) = SUBSET S
  BY FS_Subset
<1> QED BY <1>4, <1>5

(***************************************************************************)
(* Suma(g, S) is the sum of g over S, and Parcial the function of its      *)
(* recursion, on the subsets of S.                                         *)
(***************************************************************************)
Elegido(s) == CHOOSE x \in s : TRUE
Parcial(g, S) ==
  CHOOSE it : it = [s \in SUBSET S |->
                      IF s = {} THEN 0 ELSE g[Elegido(s)] + it[s \ {Elegido(s)}]]

LEMMA SumaEsParcial ==
  ASSUME NEW g, NEW S
  PROVE  Suma(g, S) = Parcial(g, S)[S]
BY Zenon DEF Suma, MapThenSumSet, MapThenFoldSet, Parcial, Elegido

\* the recursion of a sum is one: it takes the chosen elements off one after another
LEMMA ParcialRecorre ==
  ASSUME NEW S, IsFiniteSet(S), NEW g, \A x \in S : g[x] \in Int
  PROVE  /\ Parcial(g, S) \in [SUBSET S -> Int]
         /\ \A s \in SUBSET S :
              Parcial(g, S)[s] =
                IF s = {} THEN 0 ELSE g[Elegido(s)] + Parcial(g, S)[s \ {Elegido(s)}]
<1> DEFINE elige == [s \in SUBSET S |-> Elegido(s)]
           paso == [p \in (SUBSET S) \X Int |-> IF p[1] = {} THEN 0 ELSE g[Elegido(p[1])] + p[2]]
           Cuerpo(it, s) == IF s = {} THEN 0 ELSE g[Elegido(s)] + it[s \ {Elegido(s)}]
           Es(it) == it = [s \in SUBSET S |-> Cuerpo(it, s)]
<1>1. \A s \in SUBSET S : s # {} => Elegido(s) \in s /\ elige[s] = Elegido(s)
  BY DEF Elegido
<1>2. ASSUME NEW s \in SUBSET S, NEW v \in Int
      PROVE  /\ paso[<<s, v>>] = IF s = {} THEN 0 ELSE g[Elegido(s)] + v
             /\ paso[<<s, v>>] \in Int
  <2>1. <<s, v>> \in (SUBSET S) \X Int
    OBVIOUS
  <2>2. paso[<<s, v>>] = IF s = {} THEN 0 ELSE g[Elegido(s)] + v
    BY <2>1
  <2>3. s # {} => g[Elegido(s)] \in Int
    BY <1>1
  <2> HIDE DEF paso
  <2> QED BY <2>2, <2>3
<1>3. PICK it \in [SUBSET S -> Int] : Recorre(it, S, 0, elige, paso)
  <2>1. Elige(elige, S)
    BY <1>1 DEF Elige
  <2>2. Pasa(paso, S, Int)
    <3> HIDE DEF paso
    <3> QED BY <1>2 DEF Pasa
  <2>3. 0 \in Int
    OBVIOUS
  <2> HIDE DEF elige, paso
  <2> QED BY <2>1, <2>2, <2>3, Recorrido, Zenon
<1>4. Es(it)
  <2>1. \A s \in SUBSET S : it[s] = Cuerpo(it, s)
    <3> HIDE DEF elige, paso
    <3> QED BY <1>1, <1>2, <1>3 DEF Recorre
  <2> HIDE DEF Cuerpo
  <2> QED BY <2>1
<1>5. Es(Parcial(g, S))
  <2>1. \E f : f = [s \in SUBSET S |-> IF s = {} THEN 0 ELSE g[Elegido(s)] + f[s \ {Elegido(s)}]]
    BY <1>4
  <2> QED BY <2>1 DEF Parcial
<1>6. \A s \in SUBSET S : Parcial(g, S)[s] = Cuerpo(Parcial(g, S), s)
  <2> HIDE DEF Cuerpo
  <2> QED BY <1>5
<1>7. \A s \in SUBSET S : Parcial(g, S)[s] \in Int
  <2> DEFINE M == {s \in SUBSET S : Parcial(g, S)[s] \in Int}
  <2>1. ASSUME NEW T \in SUBSET S, \A U \in SUBSET T : U # T => U \in M PROVE T \in M
    <3>1. CASE T = {}
      <4>1. Parcial(g, S)[T] = 0
        BY <1>6, <3>1
      <4> QED BY <4>1
    <3>2. CASE T # {}
      <4>1. Elegido(T) \in T /\ g[Elegido(T)] \in Int /\ T \ {Elegido(T)} \in M
        BY <1>1, <2>1, <3>2
      <4>2. Parcial(g, S)[T] = g[Elegido(T)] + Parcial(g, S)[T \ {Elegido(T)}]
        BY <1>6, <3>2
      <4> QED BY <4>1, <4>2
    <3> QED BY <3>1, <3>2
  <2> HIDE DEF M
  <2>2. \A T \in SUBSET S : T \in M
    BY <2>1, PorSubconjuntos
  <2> QED BY <2>2 DEF M
<1>8. Parcial(g, S) = [s \in SUBSET S |-> Parcial(g, S)[s]]
  <2> HIDE DEF Cuerpo
  <2> QED BY <1>5
<1> QED BY <1>6, <1>7, <1>8

\* any element may be the first
LEMMA ParcialQuita ==
  ASSUME NEW S, IsFiniteSet(S), NEW g, \A x \in S : g[x] \in Int
  PROVE  \A s \in SUBSET S : \A x \in s :
           Parcial(g, S)[s] = g[x] + Parcial(g, S)[s \ {x}]
<1> DEFINE P == Parcial(g, S)
           M == {s \in SUBSET S : \A x \in s : P[s] = g[x] + P[s \ {x}]}
<1>1. /\ \A s \in SUBSET S : P[s] \in Int
      /\ \A s \in SUBSET S : P[s] = IF s = {} THEN 0 ELSE g[Elegido(s)] + P[s \ {Elegido(s)}]
  BY ParcialRecorre
<1> HIDE DEF P
<1>2. ASSUME NEW T \in SUBSET S, \A U \in SUBSET T : U # T => U \in M, NEW x \in T
      PROVE  P[T] = g[x] + P[T \ {x}]
  <2> DEFINE c == Elegido(T)
  <2>1. c \in T /\ P[T] = g[c] + P[T \ {c}]
    BY <1>1, <1>2 DEF Elegido
  <2> HIDE DEF c
  <2>2. CASE x = c
    BY <2>1, <2>2
  <2>3. CASE x # c
    <3>1. T \ {c} \in M /\ T \ {x} \in M /\ x \in T \ {c} /\ c \in T \ {x}
      BY <1>2, <2>1, <2>3
    <3>2. P[T \ {c}] = g[x] + P[(T \ {c}) \ {x}] /\ P[T \ {x}] = g[c] + P[(T \ {x}) \ {c}]
      BY <3>1
    <3>3. (T \ {c}) \ {x} = (T \ {x}) \ {c} /\ (T \ {c}) \ {x} \in SUBSET S
      OBVIOUS
    <3>4. g[x] \in Int /\ g[c] \in Int /\ P[(T \ {c}) \ {x}] \in Int
      BY <1>1, <1>2, <2>1, <3>3
    <3> DEFINE z == P[(T \ {c}) \ {x}]
    <3>5. P[T \ {c}] = g[x] + z /\ P[T \ {x}] = g[c] + z /\ z \in Int
      BY <3>2, <3>3, <3>4
    <3> HIDE DEF z
    <3> QED BY <2>1, <3>4, <3>5
  <2> QED BY <2>2, <2>3
<1>3. \A T \in SUBSET S : (\A U \in SUBSET T : U # T => U \in M) => T \in M
  BY <1>2
<1> HIDE DEF M
<1>4. \A T \in SUBSET S : T \in M
  BY <1>3, PorSubconjuntos
<1> QED BY <1>4 DEF M, P

\* a part of the sum is the sum of the part
LEMMA ParcialEsSuma ==
  ASSUME NEW S, IsFiniteSet(S), NEW g, \A x \in S : g[x] \in Int, NEW Z \in SUBSET S
  PROVE  Suma(g, Z) = Parcial(g, S)[Z]
<1> DEFINE P == Parcial(g, S)
           Q == Parcial(g, Z)
           M == {s \in SUBSET Z : P[s] = Q[s]}
<1>1. IsFiniteSet(Z)
  BY FS_Subset
<1>2. \A s \in SUBSET S : P[s] = IF s = {} THEN 0 ELSE g[Elegido(s)] + P[s \ {Elegido(s)}]
  BY ParcialRecorre
<1>3. \A s \in SUBSET Z : Q[s] = IF s = {} THEN 0 ELSE g[Elegido(s)] + Q[s \ {Elegido(s)}]
  BY <1>1, ParcialRecorre
<1> HIDE DEF P, Q
<1>4. ASSUME NEW T \in SUBSET Z, \A U \in SUBSET T : U # T => U \in M PROVE T \in M
  <2>1. T # {} => T \ {Elegido(T)} \in M
    BY <1>4 DEF Elegido
  <2>2. T \in SUBSET S
    OBVIOUS
  <2> QED BY <1>2, <1>3, <2>1, <2>2
<1> HIDE DEF M
<1>5. \A T \in SUBSET Z : T \in M
  BY <1>1, <1>4, PorSubconjuntos
<1>6. P[Z] = Q[Z]
  BY <1>5 DEF M
<1> QED BY <1>6, SumaEsParcial DEF P, Q

(***************************************************************************)
(* What the proofs use of sums.                                            *)
(***************************************************************************)
Enteros(g, S) == \A x \in S : g[x] \in Int

LEMMA SumaVacia == \A g : Suma(g, {}) = 0
<1> TAKE g
<1>1. Parcial(g, {})[{}] = 0
  BY FS_EmptySet, ParcialRecorre
<1> QED BY <1>1, SumaEsParcial

LEMMA SumaTipo ==
  ASSUME NEW S, IsFiniteSet(S), NEW g, Enteros(g, S)
  PROVE  Suma(g, S) \in Int
<1>1. Parcial(g, S) \in [SUBSET S -> Int]
  BY ParcialRecorre DEF Enteros
<1> QED BY <1>1, SumaEsParcial

LEMMA SumaQuita ==
  ASSUME NEW S, IsFiniteSet(S), NEW g, Enteros(g, S), NEW x \in S
  PROVE  Suma(g, S) = g[x] + Suma(g, S \ {x})
<1>1. Parcial(g, S)[S] = g[x] + Parcial(g, S)[S \ {x}]
  BY ParcialQuita DEF Enteros
<1>2. Suma(g, S \ {x}) = Parcial(g, S)[S \ {x}]
  BY ParcialEsSuma DEF Enteros
<1> QED BY <1>1, <1>2, SumaEsParcial

LEMMA SumaMonotona ==
  ASSUME NEW S, IsFiniteSet(S), NEW g, NEW h, Enteros(g, S), Enteros(h, S),
         \A x \in S : g[x] <= h[x]
  PROVE  Suma(g, S) <= Suma(h, S)
<1> DEFINE M == {T \in SUBSET S : Suma(g, T) <= Suma(h, T)}
<1>1. ASSUME NEW T \in SUBSET S, \A U \in SUBSET T : U # T => U \in M PROVE T \in M
  <2>1. CASE T = {}
    BY <2>1, SumaVacia
  <2>2. CASE T # {}
    <3>1. PICK x \in T : TRUE
      BY <2>2
    <3>2. IsFiniteSet(T) /\ IsFiniteSet(T \ {x})
      BY FS_Subset
    <3>3. Enteros(g, T) /\ Enteros(h, T) /\ Enteros(g, T \ {x}) /\ Enteros(h, T \ {x})
      BY DEF Enteros
    <3>4. Suma(g, T) = g[x] + Suma(g, T \ {x}) /\ Suma(h, T) = h[x] + Suma(h, T \ {x})
      BY <3>2, <3>3, SumaQuita
    <3>5. Suma(g, T \ {x}) \in Int /\ Suma(h, T \ {x}) \in Int
      BY <3>2, <3>3, SumaTipo
    <3>6. Suma(g, T \ {x}) <= Suma(h, T \ {x})
      BY <1>1
    <3>7. g[x] \in Int /\ h[x] \in Int /\ g[x] <= h[x]
      BY DEF Enteros
    <3> QED BY <3>4, <3>5, <3>6, <3>7
  <2> QED BY <2>1, <2>2
<1> HIDE DEF M
<1>2. S \in M
  BY <1>1, PorSubconjuntos
<1> QED BY <1>2 DEF M

LEMMA SumaIgual ==
  ASSUME NEW S, IsFiniteSet(S), NEW g, NEW h, Enteros(g, S), \A x \in S : g[x] = h[x]
  PROVE  Suma(g, S) = Suma(h, S)
<1>1. Enteros(h, S) /\ (\A x \in S : g[x] <= h[x]) /\ (\A x \in S : h[x] <= g[x])
  BY DEF Enteros
<1>2. Suma(g, S) <= Suma(h, S) /\ Suma(h, S) <= Suma(g, S)
  BY <1>1, SumaMonotona
<1>3. Suma(g, S) \in Int /\ Suma(h, S) \in Int
  BY <1>1, SumaTipo
<1> QED BY <1>2, <1>3

LEMMA SumaCambia ==
  ASSUME NEW S, IsFiniteSet(S), NEW g, NEW h, Enteros(g, S), Enteros(h, S), NEW x \in S,
         \A y \in S \ {x} : g[y] = h[y]
  PROVE  Suma(h, S) = Suma(g, S) + (h[x] - g[x])
<1>1. IsFiniteSet(S \ {x}) /\ Enteros(g, S \ {x})
  BY FS_Subset DEF Enteros
<1>2. Suma(g, S \ {x}) = Suma(h, S \ {x}) /\ Suma(g, S \ {x}) \in Int
  BY <1>1, SumaIgual, SumaTipo
<1>3. Suma(g, S) = g[x] + Suma(g, S \ {x}) /\ Suma(h, S) = h[x] + Suma(h, S \ {x})
  BY SumaQuita
<1>4. g[x] \in Int /\ h[x] \in Int
  BY DEF Enteros
<1> QED BY <1>2, <1>3, <1>4

\* a part of a sum of amounts is no more than the sum
LEMMA SumaParte ==
  ASSUME NEW S, IsFiniteSet(S), NEW g, \A x \in S : g[x] \in Nat, NEW T \in SUBSET S
  PROVE  Suma(g, T) \in Nat /\ Suma(g, S) \in Nat /\ Suma(g, T) <= Suma(g, S)
<1> DEFINE M == {U \in SUBSET S : \A V \in SUBSET U : Suma(g, V) <= Suma(g, U)}
<1>1. ASSUME NEW U \in SUBSET S PROVE Suma(g, U) \in Int /\ IsFiniteSet(U) /\ Enteros(g, U)
  BY FS_Subset, SumaTipo DEF Enteros
<1>2. ASSUME NEW U \in SUBSET S, \A V \in SUBSET U : V # U => V \in M PROVE U \in M
  <2>1. SUFFICES ASSUME NEW V \in SUBSET U PROVE Suma(g, V) <= Suma(g, U)
    OBVIOUS
  <2>2. CASE V = U
    BY <1>1, <2>2
  <2>3. CASE V # U
    <3>1. PICK x \in U : x \notin V
      BY <2>3
    <3>2. U \ {x} \in M /\ V \in SUBSET (U \ {x})
      BY <1>2, <3>1
    <3>3. Suma(g, V) <= Suma(g, U \ {x})
      BY <3>2
    <3>4. Suma(g, U) = g[x] + Suma(g, U \ {x})
      BY <1>1, SumaQuita
    <3>5. Suma(g, V) \in Int /\ Suma(g, U \ {x}) \in Int /\ g[x] \in Nat
      BY <1>1
    <3> QED BY <3>3, <3>4, <3>5
  <2> QED BY <2>2, <2>3
<1> HIDE DEF M
<1>3. \A U \in SUBSET S : U \in M
  BY <1>2, PorSubconjuntos
<1>4. Suma(g, {}) <= Suma(g, T) /\ Suma(g, T) <= Suma(g, S)
  BY <1>3 DEF M
<1> QED BY <1>1, <1>4, SumaVacia

LEMMA SumaDeCeros ==
  ASSUME NEW S, IsFiniteSet(S), NEW g, \A x \in S : g[x] = 0
  PROVE  Suma(g, S) = 0
<1> DEFINE M == {T \in SUBSET S : Suma(g, T) = 0}
<1>1. ASSUME NEW T \in SUBSET S, \A U \in SUBSET T : U # T => U \in M PROVE T \in M
  <2>1. CASE T = {}
    BY <2>1, SumaVacia
  <2>2. CASE T # {}
    <3>1. PICK x \in T : TRUE
      BY <2>2
    <3>2. IsFiniteSet(T) /\ Enteros(g, T)
      BY FS_Subset DEF Enteros
    <3>3. Suma(g, T) = g[x] + Suma(g, T \ {x})
      BY <3>2, SumaQuita
    <3>4. Suma(g, T \ {x}) = 0
      BY <1>1
    <3> QED BY <3>3, <3>4
  <2> QED BY <2>1, <2>2
<1> HIDE DEF M
<1>2. S \in M
  BY <1>1, PorSubconjuntos
<1> QED BY <1>2 DEF M
=============================================================================
