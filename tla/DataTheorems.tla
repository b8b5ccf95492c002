---------------------------- MODULE DataTheorems ----------------------------
(***************************************************************************)
(* Facts about data for the proof modules: induction and recursive         *)
(* functions (the library's theorems take a predicate as a parameter,      *)
(* which the provers cannot instantiate: these take the set where it       *)
(* holds, and the step of a recursion as a function), lists, division with *)
(* remainder, and the counting of places.                                  *)
(***************************************************************************)
EXTENDS WellFoundedInduction, FiniteSetTheorems, FunctionTheorems, SequenceTheorems, TLAPS

(* A set of natural numbers that is not empty has a least element.         *)
LEMMA NatMin ==
  ASSUME NEW S, S \subseteq Nat, S # {}
  PROVE  \E x \in S : \A y \in S : x <= y
<1> DEFINE R == OpToRel(<, Nat)
<1>1. IsWellFoundedOn(R, Nat)
  BY NatLessThanWellFounded
<1>2. \A x, y \in Nat : y < x => <<y, x>> \in R
  BY DEF OpToRel
<1> HIDE DEF R
<1>3. PICK x \in S : \A y \in S : ~ (<<y, x>> \in R)
  BY <1>1, WFMin
<1>4. ASSUME NEW y \in S PROVE x <= y
  <2>1. x \in Nat /\ y \in Nat
    OBVIOUS
  <2>2. ~ (y < x)
    BY <1>2, <1>3, <2>1
  <2>3. QED
    BY <2>1, <2>2
<1>5. QED
  BY <1>4

(* A set that holds 0 and, with a number, the next one, holds them all.    *)
LEMMA NatSet ==
  ASSUME NEW S, 0 \in S, \A n \in Nat : n \in S => n + 1 \in S
  PROVE  \A n \in Nat : n \in S
<1> SUFFICES ASSUME Nat \ S # {} PROVE FALSE
  OBVIOUS
<1>1. PICK x \in Nat \ S : \A y \in Nat \ S : x <= y
  BY NatMin
<1>2. x # 0 /\ x - 1 \in Nat
  BY <1>1
<1>3. QED
  BY <1>1, <1>2

(* The same on an interval.                                                *)
LEMMA Interval ==
  ASSUME NEW S, NEW a \in Int, NEW b \in Int, a \in S,
         \A n \in a + 1 .. b : n - 1 \in S => n \in S
  PROVE  \A n \in a .. b : n \in S
<1> DEFINE U == {k \in Nat : a + k <= b => a + k \in S}
<1>1. 0 \in U
  OBVIOUS
<1>2. ASSUME NEW k \in Nat, k \in U PROVE k + 1 \in U
  <2> SUFFICES ASSUME a + (k + 1) <= b PROVE a + (k + 1) \in S
    OBVIOUS
  <2>1. a + (k + 1) \in a + 1 .. b /\ a + (k + 1) - 1 = a + k
    OBVIOUS
  <2>2. a + k \in S
    BY <1>2
  <2>3. QED
    BY <2>1, <2>2
<1> HIDE DEF U
<1>3. \A k \in Nat : k \in U
  BY <1>1, <1>2, NatSet
<1>4. ASSUME NEW n \in a .. b PROVE n \in S
  <2>1. n - a \in Nat /\ a + (n - a) = n
    OBVIOUS
  <2>2. QED
    BY <1>3, <2>1 DEF U
<1>5. QED
  BY <1>4

(* What holds of a recursion's base and at each step holds throughout.     *)
LEMMA Stays ==
  ASSUME NEW a \in Int, NEW b \in Int, a <= b, NEW S, NEW g, g[a] \in S,
         \A n \in a + 1 .. b : g[n - 1] \in S => g[n] \in S
  PROVE  \A n \in a .. b : g[n] \in S
<1> DEFINE U == {n \in a .. b : g[n] \in S}
<1>1. a \in U /\ \A n \in a + 1 .. b : n - 1 \in U => n \in U
  OBVIOUS
<1> HIDE DEF U
<1>2. \A n \in a .. b : n \in U
  BY <1>1, Interval
<1>3. QED
  BY <1>2 DEF U

(* f is the recursion from base at a, by Step, up to n.                    *)
Follows(f, a, n, S, base, Step) ==
  /\ f \in [a .. n -> S] /\ f[a] = base
  /\ \A k \in a + 1 .. n : f[k] = Step[<<f[k - 1], k>>]

(* A recursion over an interval has a solution, whose values are in S.     *)
LEMMA Iterates ==
  ASSUME NEW a \in Int, NEW b \in Int, a <= b,
         NEW S, NEW base \in S, NEW Step \in [S \X (a + 1 .. b) -> S]
  PROVE  \E f : Follows(f, a, b, S, base, Step)
<1> DEFINE U == {n \in a .. b : \E f : Follows(f, a, n, S, base, Step)}
<1>1. a \in U
  <2> DEFINE f == [k \in a .. a |-> base]
  <2>1. Follows(f, a, a, S, base, Step)
    BY DEF Follows
  <2> HIDE DEF f
  <2>2. QED
    BY <2>1
<1>2. ASSUME NEW n \in a + 1 .. b, n - 1 \in U PROVE n \in U
  <2>1. PICK f : Follows(f, a, n - 1, S, base, Step)
    BY <1>2
  <2> HIDE DEF U
  <2> DEFINE g == [k \in a .. n |-> IF k = n THEN Step[<<f[n - 1], n>>] ELSE f[k]]
  <2>2. f \in [a .. n - 1 -> S] /\ n - 1 \in a .. n - 1
    BY <2>1 DEF Follows
  <2>3. <<f[n - 1], n>> \in S \X (a + 1 .. b)
    BY <2>2
  <2>4. Step[<<f[n - 1], n>>] \in S
    BY <2>3
  <2>5. g \in [a .. n -> S]
    BY <2>2, <2>4
  <2>6. g[a] = base
    BY <2>1 DEF Follows
  <2>7. ASSUME NEW k \in a + 1 .. n PROVE g[k] = Step[<<g[k - 1], k>>]
    <3>1. g[k - 1] = f[k - 1]
      OBVIOUS
    <3>2. CASE k = n
      <4>1. g[n] = Step[<<f[n - 1], n>>] /\ g[n - 1] = f[n - 1]
        BY <3>1, <3>2
      <4> HIDE DEF g
      <4>2. QED
        BY <3>2, <4>1
    <3>3. CASE k # n
      <4>1. k \in a + 1 .. n - 1 /\ g[k] = f[k]
        BY <3>3
      <4>2. QED
        BY <2>1, <3>1, <4>1 DEF Follows
    <3>4. QED
      BY <3>2, <3>3
  <2> HIDE DEF g
  <2>8. Follows(g, a, n, S, base, Step)
    BY <2>5, <2>6, <2>7 DEF Follows
  <2>9. QED
    BY <2>8 DEF U
<1> HIDE DEF U
<1>3. \A n \in a .. b : n \in U
  BY <1>1, <1>2, Interval
<1>4. QED
  BY <1>3 DEF U
-----------------------------------------------------------------------------
(* A sequence over some set.                                               *)
IsList(s) == s \in Seq(Range(s))

(* A sequence over any set is a list.                                      *)
LEMMA ListOf ==
  ASSUME NEW S, NEW s \in Seq(S)
  PROVE  IsList(s)
BY SeqOfRange DEF IsList

(* What a list is: a function on an initial segment of the numbers.        *)
LEMMA ListIs ==
  ASSUME NEW s, IsList(s)
  PROVE  /\ Len(s) \in Nat /\ DOMAIN s = 1 .. Len(s)
         /\ s \in Seq(Range(s))
         /\ \A k \in 1 .. Len(s) : s[k] \in Range(s)
         /\ s = <<>> <=> Len(s) = 0
<1>1. s \in Seq(Range(s))
  BY DEF IsList
<1>2. Len(s) \in Nat /\ s \in [1 .. Len(s) -> Range(s)] /\ DOMAIN s = 1 .. Len(s)
  BY <1>1, LenProperties
<1>3. s = <<>> <=> Len(s) = 0
  BY <1>1, EmptySeq
<1> QED
  BY <1>1, <1>2, <1>3

(* Two lists joined: the first one's places, then the second's.            *)
LEMMA Joined ==
  ASSUME NEW s, NEW t, IsList(s), IsList(t)
  PROVE  /\ IsList(s \o t) /\ Len(s \o t) = Len(s) + Len(t)
         /\ DOMAIN (s \o t) = 1 .. Len(s) + Len(t)
         /\ \A k \in 1 .. Len(s) : (s \o t)[k] = s[k]
         /\ \A k \in 1 .. Len(t) : (s \o t)[Len(s) + k] = t[k]
<1> DEFINE R == Range(s) \cup Range(t)
<1>1. s \in Seq(R) /\ t \in Seq(R)
  BY SeqMonotonic DEF IsList
<1>2. Len(s) \in Nat /\ Len(t) \in Nat
  BY ListIs
<1> HIDE DEF R
<1>3. /\ s \o t \in Seq(R) /\ Len(s \o t) = Len(s) + Len(t)
      /\ \A k \in 1 .. Len(s) + Len(t) : (s \o t)[k] = IF k <= Len(s) THEN s[k] ELSE t[k - Len(s)]
  BY <1>1, ConcatProperties
<1>4. IsList(s \o t)
  BY <1>3, ListOf
<1>5. DOMAIN (s \o t) = 1 .. Len(s) + Len(t)
  BY <1>3, <1>4, ListIs
<1> QED
  BY <1>2, <1>3, <1>4, <1>5

(* A list of one.                                                          *)
LEMMA Single ==
  ASSUME NEW e
  PROVE  IsList(<<e>>) /\ Len(<<e>>) = 1 /\ <<e>>[1] = e
<1>1. <<e>> \in Seq({e})
  OBVIOUS
<1> QED
  BY <1>1, ListOf

(* A list with one more at its front.                                      *)
LEMMA Pushed ==
  ASSUME NEW e, NEW s, IsList(s)
  PROVE  /\ IsList(<<e>> \o s) /\ Len(<<e>> \o s) = Len(s) + 1
         /\ DOMAIN (<<e>> \o s) = 1 .. Len(s) + 1
         /\ (<<e>> \o s)[1] = e
         /\ \A k \in 1 .. Len(s) : (<<e>> \o s)[k + 1] = s[k]
         /\ Tail(<<e>> \o s) = s
<1>1. IsList(<<e>>) /\ Len(<<e>>) = 1 /\ <<e>>[1] = e
  BY Single
<1>2. Len(s) \in Nat
  BY ListIs
<1>3. /\ IsList(<<e>> \o s) /\ Len(<<e>> \o s) = 1 + Len(s)
      /\ DOMAIN (<<e>> \o s) = 1 .. 1 + Len(s)
      /\ \A k \in 1 .. 1 : (<<e>> \o s)[k] = <<e>>[k]
      /\ \A k \in 1 .. Len(s) : (<<e>> \o s)[1 + k] = s[k]
  BY <1>1, Joined
<1>4. \A k \in 1 .. Len(s) : (<<e>> \o s)[k + 1] = s[k]
  BY <1>2, <1>3
<1>5. Tail(<<e>> \o s) = s
  <2> DEFINE t == <<e>> \o s
             R == Range(t) \cup Range(s)
  <2>1. t \in Seq(R) /\ s \in Seq(R)
    BY <1>3, SeqMonotonic DEF IsList
  <2>2. t # <<>>
    BY <1>2, <1>3, ListIs
  <2> HIDE DEF R
  <2>3. Len(t) = Len(s) + 1 /\ \A k \in 1 .. Len(s) : t[k + 1] = s[k]
    BY <1>2, <1>3, <1>4
  <2> HIDE DEF t
  <2>4. /\ Tail(t) \in Seq(R) /\ Len(Tail(t)) = Len(t) - 1
        /\ \A k \in 1 .. Len(Tail(t)) : Tail(t)[k] = t[k + 1]
    BY <2>1, <2>2, HeadTailProperties
  <2>5. Len(Tail(t)) = Len(s) /\ \A k \in 1 .. Len(Tail(t)) : Tail(t)[k] = s[k]
    BY <2>3, <2>4, <1>2
  <2>6. Tail(t) = s
    BY <2>1, <2>4, <2>5, SeqEqual
  <2> QED
    BY <2>6 DEF t
<1> QED
  BY <1>1, <1>2, <1>3, <1>4, <1>5

(* A list without its first, which was in front of the rest.               *)
LEMMA Popped ==
  ASSUME NEW s, IsList(s), s # <<>>
  PROVE  /\ IsList(Tail(s)) /\ Len(s) \in Nat \ {0} /\ Len(Tail(s)) = Len(s) - 1
         /\ \A k \in 1 .. Len(Tail(s)) : Tail(s)[k] = s[k + 1]
         /\ Head(s) = s[1]
         /\ s = <<s[1]>> \o Tail(s)
         /\ \A e : [s EXCEPT ![1] = e] = <<e>> \o Tail(s)
<1> DEFINE R == Range(s)
<1>1. s \in Seq(R)
  BY DEF IsList
<1> HIDE DEF R
<1>2. Len(s) \in Nat \ {0} /\ DOMAIN s = 1 .. Len(s)
  BY ListIs
<1>3. /\ Tail(s) \in Seq(R) /\ Len(Tail(s)) = Len(s) - 1
      /\ \A k \in 1 .. Len(Tail(s)) : Tail(s)[k] = s[k + 1]
  BY <1>1, HeadTailProperties
<1>4. IsList(Tail(s)) /\ s[1] \in R
  <2>1. 1 \in 1 .. Len(s)
    BY <1>2
  <2> QED
    BY <2>1, <1>3, <1>1, ListOf, ElementOfSeq
<1>5. \A e : [s EXCEPT ![1] = e] = <<e>> \o Tail(s)
  <2> SUFFICES ASSUME NEW e PROVE [s EXCEPT ![1] = e] = <<e>> \o Tail(s)
    OBVIOUS
  <2> DEFINE E == [s EXCEPT ![1] = e]
             C == <<e>> \o Tail(s)
             T == R \cup {e} \cup Range(C)
  <2>1. s \in Seq(T) /\ e \in T /\ 1 \in 1 .. Len(s)
    BY <1>1, <1>2, SeqMonotonic
  <2>2. /\ IsList(C) /\ Len(C) = Len(Tail(s)) + 1 /\ C[1] = e
        /\ \A k \in 1 .. Len(Tail(s)) : C[k + 1] = Tail(s)[k]
    BY <1>4, Pushed
  <2>3. C \in Seq(T)
    BY <2>2, SeqMonotonic DEF IsList
  <2> HIDE DEF C, T
  <2>4. /\ E \in Seq(T) /\ Len(E) = Len(s)
        /\ \A j \in 1 .. Len(s) : E[j] = IF j = 1 THEN e ELSE s[j]
    BY <2>1, ExceptSeq
  <2> HIDE DEF E
  <2>5. Len(C) = Len(E)
    BY <2>2, <2>4, <1>2, <1>3
  <2>6. ASSUME NEW k \in 1 .. Len(E) PROVE E[k] = C[k]
    <3>1. CASE k = 1
      BY <3>1, <2>2, <2>4
    <3>2. CASE k # 1
      <4>1. k - 1 \in 1 .. Len(Tail(s)) /\ (k - 1) + 1 = k
        BY <3>2, <2>4, <1>2, <1>3
      <4>2. C[(k - 1) + 1] = Tail(s)[k - 1] /\ Tail(s)[k - 1] = s[(k - 1) + 1]
        BY <4>1, <2>2, <1>3
      <4> QED
        BY <4>1, <4>2, <3>2, <2>4
    <3> QED
      BY <3>1, <3>2
  <2>7. E = C
    BY <2>3, <2>4, <2>5, <2>6, SeqEqual
  <2> QED
    BY <2>7 DEF E, C
<1>6. s = [s EXCEPT ![1] = s[1]]
  BY <1>1
<1>7. Head(s) = s[1]
  BY <1>1
<1> QED
  BY <1>2, <1>3, <1>4, <1>5, <1>6, <1>7

(* A stack u that is s with e on top instead of its first; with e on top   *)
(* and f instead of its first; and without its first, with e instead of    *)
(* its second.                                                             *)
Retopped(u, e, s) ==
  /\ IsList(u) /\ Len(u) = Len(s) /\ u[1] = e
  /\ \A k \in 2 .. Len(s) : u[k] = s[k]
Stacked(u, e, f, s) ==
  /\ IsList(u) /\ Len(u) = Len(s) + 1 /\ u[1] = e /\ u[2] = f
  /\ \A k \in 3 .. Len(s) + 1 : u[k] = s[k - 1]
Unstacked(u, e, s) ==
  /\ IsList(u) /\ Len(u) = Len(s) - 1 /\ u[1] = e
  /\ \A k \in 2 .. Len(s) - 1 : u[k] = s[k + 1]

(* A list with another first.                                              *)
LEMMA Replaced ==
  ASSUME NEW e, NEW s, IsList(s), s # <<>>
  PROVE  Retopped(<<e>> \o Tail(s), e, s) /\ Retopped([s EXCEPT ![1] = e], e, s)
<1> DEFINE t == Tail(s)
           u == <<e>> \o t
<1>1. IsList(t) /\ Len(s) \in Nat \ {0} /\ Len(t) = Len(s) - 1
      /\ \A k \in 1 .. Len(t) : t[k] = s[k + 1]
      /\ [s EXCEPT ![1] = e] = <<e>> \o t
  BY Popped
<1> HIDE DEF t
<1>2. IsList(u) /\ Len(u) = Len(t) + 1 /\ u[1] = e /\ \A k \in 1 .. Len(t) : u[k + 1] = t[k]
  BY <1>1, Pushed
<1> HIDE DEF u
<1>3. ASSUME NEW k \in 2 .. Len(s) PROVE u[k] = s[k]
  <2>1. k - 1 \in 1 .. Len(t) /\ (k - 1) + 1 = k
    BY <1>1
  <2>2. u[(k - 1) + 1] = t[k - 1] /\ t[k - 1] = s[(k - 1) + 1]
    BY <2>1, <1>1, <1>2
  <2> QED
    BY <2>1, <2>2
<1>4. Len(u) = Len(s)
  BY <1>1, <1>2
<1>5. Retopped(u, e, s)
  BY <1>2, <1>3, <1>4 DEF Retopped
<1>6. [s EXCEPT ![1] = e] = u
  BY <1>1 DEF u
<1>7. Retopped(u, e, s) /\ Retopped([s EXCEPT ![1] = e], e, s)
  BY <1>5, <1>6
<1> QED
  BY <1>7 DEF u, t

(* A function on the first numbers is a list.                              *)
LEMMA TabledList ==
  ASSUME NEW n \in Nat, NEW s, DOMAIN s = 1 .. n, s = [k \in 1 .. n |-> s[k]]
  PROVE  IsList(s) /\ Len(s) = n
<1>1. s \in [1 .. n -> Range(s)]
  BY DEF Range
<1>2. s \in Seq(Range(s)) /\ Len(s) = n
  BY <1>1
<1> QED
  BY <1>2, ListOf

(* Lists are equal that have the same length and elements.                 *)
LEMMA SameLists ==
  ASSUME NEW s, NEW t, IsList(s), IsList(t), Len(s) = Len(t), \A k \in 1 .. Len(s) : s[k] = t[k]
  PROVE  s = t
<1> DEFINE R == Range(s) \cup Range(t)
<1>1. s \in Seq(R) /\ t \in Seq(R)
  BY SeqMonotonic DEF IsList
<1> HIDE DEF R
<1> QED
  BY <1>1, SeqEqual

(* An element appended to a list.                                          *)
LEMMA Appended ==
  ASSUME NEW s, NEW e, IsList(s)
  PROVE  /\ IsList(Append(s, e)) /\ Len(Append(s, e)) = Len(s) + 1
         /\ \A k \in 1 .. Len(s) : Append(s, e)[k] = s[k]
         /\ Append(s, e)[Len(s) + 1] = e
<1> DEFINE R == Range(s) \cup {e}
<1>1. s \in Seq(R) /\ e \in R
  BY SeqMonotonic DEF IsList
<1> HIDE DEF R
<1>2. /\ Append(s, e) \in Seq(R) /\ Len(Append(s, e)) = Len(s) + 1
      /\ \A k \in 1 .. Len(s) : Append(s, e)[k] = s[k]
      /\ Append(s, e)[Len(s) + 1] = e
  BY <1>1, AppendProperties
<1> QED
  BY <1>2, ListOf

(* A list behind one of so many.                                           *)
LEMMA JoinedTo ==
  ASSUME NEW a, IsList(a), NEW n, Len(a) = n, NEW b, IsList(b)
  PROVE  /\ IsList(a \o b) /\ Len(a \o b) = n + Len(b)
         /\ \A k \in 1 .. n : (a \o b)[k] = a[k]
         /\ \A k \in 1 .. Len(b) : (a \o b)[n + k] = b[k]
BY Joined

(* A list with its first replaced and another put before it.               *)
LEMMA PushedOver ==
  ASSUME NEW e, NEW f, NEW s, IsList(s), s # <<>>
  PROVE  /\ Stacked((<<e>> \o <<f>>) \o Tail(s), e, f, s)
         /\ Stacked(<<e>> \o [s EXCEPT ![1] = f], e, f, s)
         /\ Stacked(<<e, f>> \o Tail(s), e, f, s)
<1> DEFINE t == Tail(s)
           a == <<e>> \o <<f>>
           u == a \o t
<1>1. IsList(t) /\ Len(s) \in Nat \ {0} /\ Len(t) = Len(s) - 1
      /\ \A k \in 1 .. Len(t) : t[k] = s[k + 1]
      /\ [s EXCEPT ![1] = f] = <<f>> \o t
  BY Popped
<1> HIDE DEF t
<1>2. IsList(a) /\ Len(a) = 2 /\ a[1] = e /\ a[2] = f
  <2>1. IsList(<<f>>) /\ Len(<<f>>) = 1 /\ <<f>>[1] = f
    BY Single
  <2>2. IsList(a) /\ Len(a) = Len(<<f>>) + 1 /\ a[1] = e /\ \A k \in 1 .. Len(<<f>>) : a[k + 1] = <<f>>[k]
    BY <2>1, Pushed
  <2> HIDE DEF a
  <2>3. 1 \in 1 .. Len(<<f>>) /\ 1 + 1 = 2
    BY <2>1
  <2> QED
    BY <2>1, <2>2, <2>3
<1> HIDE DEF a
<1>3. /\ IsList(a \o t) /\ Len(a \o t) = 2 + Len(t)
      /\ (a \o t)[1] = a[1] /\ (a \o t)[2] = a[2]
      /\ \A k \in 1 .. Len(t) : (a \o t)[2 + k] = t[k]
  <2> DEFINE n == 2
  <2>1. Len(a) = n /\ IsList(a) /\ IsList(t)
    BY <1>1, <1>2
  <2> HIDE DEF n
  <2>2. /\ IsList(a \o t) /\ Len(a \o t) = n + Len(t)
        /\ \A k \in 1 .. n : (a \o t)[k] = a[k]
        /\ \A k \in 1 .. Len(t) : (a \o t)[n + k] = t[k]
    BY <2>1, JoinedTo
  <2>3. 1 \in 1 .. n /\ 2 \in 1 .. n
    BY DEF n
  <2> QED
    BY <2>2, <2>3 DEF n
<1>4. a = <<e, f>>
  <2>1. <<e, f>> \in Seq({e, f}) /\ Len(<<e, f>>) = 2 /\ <<e, f>>[1] = e /\ <<e, f>>[2] = f
    OBVIOUS
  <2> DEFINE b == <<e, f>>
             S == {e, f} \cup Range(a)
  <2>2. b \in Seq(S) /\ a \in Seq(S)
    BY <2>1, <1>2, SeqMonotonic DEF IsList
  <2>3. Len(b) = 2 /\ b[1] = e /\ b[2] = f
    BY <2>1
  <2> HIDE DEF b, S
  <2>4. \A k \in 1 .. Len(a) : a[k] = b[k]
    BY <2>3, <1>2
  <2>5. a = b
    BY <2>2, <2>3, <2>4, <1>2, SeqEqual
  <2> QED
    BY <2>5 DEF b
<1>5. <<e>> \o (<<f>> \o t) = u
  <2> DEFINE S == {e, f} \cup Range(t)
  <2>1. <<e>> \in Seq(S) /\ <<f>> \in Seq(S) /\ t \in Seq(S)
    <3>1. t \in Seq(Range(t)) /\ Range(t) \subseteq S
      BY <1>1 DEF IsList
    <3>2. t \in Seq(S)
      BY <3>1, SeqMonotonic
    <3> QED
      BY <3>2
  <2> HIDE DEF S
  <2>2. (<<e>> \o <<f>>) \o t = <<e>> \o (<<f>> \o t)
    BY <2>1, ConcatAssociative
  <2> QED
    BY <2>2 DEF u, a
<1> HIDE DEF u
<1>6. /\ IsList(u) /\ Len(u) = 2 + Len(t)
      /\ u[1] = e /\ u[2] = f
      /\ \A k \in 1 .. Len(t) : u[2 + k] = t[k]
  BY <1>2, <1>3 DEF u
<1>7. ASSUME NEW k \in 3 .. Len(s) + 1 PROVE u[k] = s[k - 1]
  <2>1. k - 2 \in 1 .. Len(t) /\ 2 + (k - 2) = k /\ (k - 2) + 1 = k - 1
    BY <1>1
  <2>2. u[2 + (k - 2)] = t[k - 2] /\ t[k - 2] = s[(k - 2) + 1]
    BY <2>1, <1>1, <1>6
  <2> QED
    BY <2>1, <2>2
<1>8. Len(u) = Len(s) + 1
  BY <1>1, <1>6
<1>9. <<e>> \o [s EXCEPT ![1] = f] = u
  BY <1>1, <1>5
<1>10. <<e, f>> \o t = u
  BY <1>4 DEF u
<1>11. Stacked(u, e, f, s)
  BY <1>6, <1>7, <1>8 DEF Stacked
<1> QED
  BY <1>9, <1>10, <1>11 DEF u, a, t

(* A list without its first, and its second replaced.                      *)
LEMMA PoppedOver ==
  ASSUME NEW e, NEW s, IsList(s), Len(s) > 1
  PROVE  /\ Unstacked(<<e>> \o Tail(Tail(s)), e, s)
         /\ Unstacked(<<e>> \o SubSeq(s, 3, Len(s)), e, s)
         /\ Unstacked([Tail(s) EXCEPT ![1] = e], e, s)
         /\ Tail(s)[1] = s[2]
<1> DEFINE t == Tail(s)
           r == Tail(t)
           u == <<e>> \o r
<1>1. Len(s) \in Nat \ {0} /\ s # <<>>
  BY ListIs
<1>2. IsList(t) /\ Len(t) = Len(s) - 1 /\ \A k \in 1 .. Len(t) : t[k] = s[k + 1]
  BY <1>1, Popped
<1> HIDE DEF t
<1>3. t # <<>>
  BY <1>1, <1>2, ListIs
<1>4. IsList(r) /\ Len(r) = Len(t) - 1 /\ (\A k \in 1 .. Len(r) : r[k] = t[k + 1])
      /\ [t EXCEPT ![1] = e] = u
  BY <1>2, <1>3, Popped
<1> HIDE DEF r
<1>5. IsList(u) /\ Len(u) = Len(r) + 1 /\ u[1] = e /\ \A k \in 1 .. Len(r) : u[k + 1] = r[k]
  BY <1>4, Pushed
<1>6. \A k \in 1 .. Len(r) : r[k] = s[k + 2]
  <2> SUFFICES ASSUME NEW k \in 1 .. Len(r) PROVE r[k] = s[k + 2]
    OBVIOUS
  <2>1. k + 1 \in 1 .. Len(t) /\ (k + 1) + 1 = k + 2
    BY <1>1, <1>2, <1>4
  <2> QED
    BY <2>1, <1>2, <1>4
<1>7. ASSUME NEW k \in 2 .. Len(s) - 1 PROVE u[k] = s[k + 1]
  <2> HIDE DEF u
  <2>1. k - 1 \in 1 .. Len(r) /\ (k - 1) + 1 = k /\ (k - 1) + 2 = k + 1
    BY <1>1, <1>2, <1>4
  <2>2. u[(k - 1) + 1] = r[k - 1] /\ r[k - 1] = s[(k - 1) + 2]
    BY <2>1, <1>5, <1>6
  <2> QED
    BY <2>1, <2>2
<1>8. Len(u) = Len(s) - 1
  <2> HIDE DEF u
  <2> QED
    BY <1>1, <1>2, <1>4, <1>5
<1>9. r = SubSeq(s, 3, Len(s))
  <2> DEFINE S == Range(s) \cup Range(r)
             v == SubSeq(s, 3, Len(s))
  <2>1. s \in Seq(S) /\ r \in Seq(S)
    BY <1>1, <1>4, SeqMonotonic DEF IsList
  <2> HIDE DEF S
  <2>2. \A i \in 3 .. Len(s) : s[i] \in S
    BY <2>1, ElementOfSeq
  <2>3. /\ v \in Seq(S)
        /\ Len(v) = IF 3 <= Len(s) THEN Len(s) - 3 + 1 ELSE 0
        /\ \A i \in 1 .. Len(s) - 3 + 1 : v[i] = s[3 + i - 1]
    BY <2>2, <1>1, SubSeqProperties
  <2> HIDE DEF v
  <2>4. Len(v) = Len(r)
    BY <2>3, <1>1, <1>2, <1>4
  <2>5. \A i \in 1 .. Len(r) : r[i] = v[i]
    <3> SUFFICES ASSUME NEW i \in 1 .. Len(r) PROVE r[i] = v[i]
      OBVIOUS
    <3>1. i \in 1 .. Len(s) - 3 + 1 /\ 3 + i - 1 = i + 2
      BY <1>1, <1>2, <1>4
    <3> QED
      BY <3>1, <2>3, <1>6
  <2>6. r = v
    BY <2>1, <2>3, <2>4, <2>5, SeqEqual
  <2> QED
    BY <2>6 DEF v
<1>10. t[1] = s[2]
  BY <1>1, <1>2
<1>11. Unstacked(u, e, s)
  BY <1>5, <1>7, <1>8 DEF Unstacked
<1>12. [t EXCEPT ![1] = e] = u
  BY <1>4
<1>13. <<e>> \o SubSeq(s, 3, Len(s)) = u
  BY <1>9
<1> QED
  BY <1>10, <1>11, <1>12, <1>13 DEF u, r, t
-----------------------------------------------------------------------------
(* Division with remainder, for any divisor.                               *)

(* Quotient and remainder.                                                 *)
LEMMA Division ==
  ASSUME NEW x \in Nat, NEW r \in Nat, r >= 1
  PROVE  x \div r \in Nat /\ x % r \in 0 .. r - 1 /\ x = r * (x \div r) + (x % r)
<1>1. x % r \in 0 .. r - 1
  OBVIOUS
<1>2. x \div r \in Int
  OBVIOUS
<1>3. x = r * (x \div r) + (x % r)
  OBVIOUS
<1>4. x \div r >= 0
  OBVIOUS
<1>. QED
  BY <1>1, <1>2, <1>3, <1>4

(* Multiples of r are at least r apart.                                    *)
LEMMA Larger ==
  ASSUME NEW r \in Nat, NEW q \in Int, NEW p \in Int, q < p
  PROVE  r * q + r <= r * p
<1>1. PICK d \in Nat : p = q + d + 1
  <2>1. p - q - 1 \in Nat /\ p = q + (p - q - 1) + 1
    OBVIOUS
  <2>2. QED
    BY <2>1
<1>2. r * d \in Nat
  OBVIOUS
<1>3. r * p = r * q + r * d + r
  BY <1>1
<1>4. QED
  BY <1>2, <1>3

(* A remainder does not depend on how the number is cut.                   *)
LEMMA UniqueRemainder ==
  ASSUME NEW r \in Nat, NEW q \in Int, NEW p \in Int,
         NEW m \in 0 .. r - 1, NEW n \in 0 .. r - 1, r * q + m = r * p + n
  PROVE  m = n
<1>1. r * q \in Int /\ r * p \in Int
  OBVIOUS
<1>2. CASE q < p
  <2>1. r * q + r <= r * p
    BY <1>2, Larger
  <2>2. QED
    BY <1>1, <2>1
<1>3. CASE p < q
  <2>1. r * p + r <= r * q
    BY <1>3, Larger
  <2>2. QED
    BY <1>1, <2>1
<1>4. CASE p = q
  BY <1>1, <1>4
<1>5. QED
  BY <1>2, <1>3, <1>4

(* Counting up by one counts the remainder up, or starts it again.         *)
LEMMA Remainder ==
  ASSUME NEW x \in Nat, NEW r \in Nat, r >= 1
  PROVE  /\ x % r \in 0 .. r - 1 /\ x % r <= x /\ 0 % r = 0
         /\ (x + 1) % r = IF x % r = r - 1 THEN 0 ELSE (x % r) + 1
<1> DEFINE q == x \div r
           m == x % r
           p == (x + 1) \div r
           n == (x + 1) % r
<1>1. q \in Nat /\ m \in 0 .. r - 1 /\ x = r * q + m
  BY Division
<1>2. p \in Nat /\ n \in 0 .. r - 1 /\ x + 1 = r * p + n
  BY Division, x + 1 \in Nat
<1>3. 0 % r = 0
  <2>1. 0 \div r \in Nat /\ 0 % r \in 0 .. r - 1 /\ 0 = r * (0 \div r) + (0 % r)
    BY Division
  <2>2. r * (0 \div r) \in Nat
    BY <2>1
  <2>3. QED
    BY <2>1, <2>2
<1> HIDE DEF q, m, p, n
<1>4. m <= x
  <2>1. r * q \in Nat
    BY <1>1
  <2>2. QED
    BY <1>1, <2>1
<1>5. CASE m = r - 1
  <2>1. r * (q + 1) = r * q + r
    BY <1>1
  <2>2. r * q \in Int /\ r * p \in Int
    BY <1>1, <1>2
  <2>3. r * (q + 1) + 0 = r * p + n
    BY <1>1, <1>2, <1>5, <2>1, <2>2
  <2>4. 0 \in 0 .. r - 1 /\ q + 1 \in Int /\ p \in Int
    BY <1>1, <1>2
  <2>5. n = 0
    BY <1>2, <2>3, <2>4, UniqueRemainder
  <2>6. QED
    BY <1>1, <1>3, <1>4, <1>5, <2>5 DEF m, n
<1>6. CASE m # r - 1
  <2>1. m + 1 \in 0 .. r - 1 /\ q \in Int /\ p \in Int
    BY <1>1, <1>2, <1>6
  <2>2. r * q \in Int /\ r * p \in Int
    BY <1>1, <1>2
  <2>3. r * q + (m + 1) = r * p + n
    BY <1>1, <1>2, <2>2
  <2>4. n = m + 1
    BY <1>2, <2>1, <2>3, UniqueRemainder
  <2>5. QED
    BY <1>1, <1>3, <1>4, <1>6, <2>4 DEF m, n
<1>7. QED
  BY <1>5, <1>6
-----------------------------------------------------------------------------
(* Counting finite sets of places and of pairs.                            *)

(* Places among the first n are finitely many, none only if there are      *)
(* none.                                                                   *)
LEMMA Few ==
  ASSUME NEW n \in Nat, NEW A, A \subseteq 1 .. n
  PROVE  IsFiniteSet(A) /\ Cardinality(A) \in Nat /\ (Cardinality(A) = 0 <=> A = {})
<1>1. IsFiniteSet(1 .. n)
  BY FS_Interval, 1 \in Int, n \in Int
<1> QED
  BY <1>1, FS_Subset, FS_CardinalityType, FS_EmptySet

(* A set of places moved along.                                            *)
Shifted(m, B) == { m + k : k \in B }

(* Moving a set of places along does not change how many there are.        *)
LEMMA ShiftedCount ==
  ASSUME NEW m \in Nat, NEW B, IsFiniteSet(B), B \subseteq Nat
  PROVE  IsFiniteSet(Shifted(m, B)) /\ Cardinality(Shifted(m, B)) = Cardinality(B)
<1> DEFINE C == { m + k : k \in B }
           f == [k \in B |-> m + k]
<1>1. f \in [B -> C] /\ \A c \in C : \E k \in B : f[k] = c
  OBVIOUS
<1>2. \A j, k \in B : f[j] = f[k] => j = k
  <2>1. \A j, k \in B : j \in Nat /\ k \in Nat
    OBVIOUS
  <2>2. QED
    BY <2>1
<1> HIDE DEF f, C
<1>3. f \in Bijection(B, C)
  BY <1>1, <1>2 DEF Bijection, Injection, Surjection, IsInjective
<1>4. QED
  BY <1>3, FS_Bijection DEF ExistsBijection, C, Shifted

(* The places of a list made of two: those of the first and, moved along,  *)
(* those of the second.                                                    *)
LEMMA JoinedCount ==
  ASSUME NEW m \in Nat, NEW A, IsFiniteSet(A), A \subseteq 1 .. m,
         NEW B, IsFiniteSet(B), B \subseteq Nat \ {0}
  PROVE  Cardinality(A \cup Shifted(m, B)) = Cardinality(A) + Cardinality(B)
<1> DEFINE E == Shifted(m, B)
<1>1. IsFiniteSet(A) /\ IsFiniteSet(B)
  OBVIOUS
<1>2. B \subseteq Nat
  OBVIOUS
<1>3. IsFiniteSet(E) /\ Cardinality(E) = Cardinality(B)
  BY <1>1, <1>2, ShiftedCount
<1>4. A \cap E = {}
  <2>1. ASSUME NEW k \in B PROVE m + k \notin A
    <3>1. k \in Nat /\ k # 0
      OBVIOUS
    <3>2. m + k \notin 1 .. m
      BY <3>1
    <3> QED
      BY <3>2
  <2>2. \A e \in E : \E k \in B : e = m + k
    BY DEF Shifted
  <2> HIDE DEF E
  <2> QED
    BY <2>1, <2>2
<1> HIDE DEF E
<1>5. IsFiniteSet(A \cup E) /\ Cardinality(A \cup E) = Cardinality(A) + Cardinality(E) - 0
  BY <1>1, <1>3, <1>4, FS_Union, FS_EmptySet
<1>6. Cardinality(A) \in Nat /\ Cardinality(B) \in Nat
  BY <1>1, FS_CardinalityType
<1>7. QED
  BY <1>1, <1>3, <1>5, <1>6 DEF E

(* Pairs of a place j of D and a member of A[j].                           *)
Sheets(D, A) == UNION { {j} \X A[j] : j \in D }

(* The pairs of one place are as many as its members.                      *)
LEMMA OneSheet ==
  ASSUME NEW j, NEW A, IsFiniteSet(A)
  PROVE  IsFiniteSet({j} \X A) /\ Cardinality({j} \X A) = Cardinality(A)
<1> DEFINE f == [a \in A |-> <<j, a>>]
           C == {j} \X A
<1>1. f \in [A -> C] /\ \A c \in C : \E a \in A : f[a] = c
  OBVIOUS
<1>2. \A a, b \in A : f[a] = f[b] => a = b
  OBVIOUS
<1> HIDE DEF f, C
<1>3. f \in Bijection(A, C)
  BY <1>1, <1>2 DEF Bijection, Injection, Surjection, IsInjective
<1>4. QED
  BY <1>3, FS_Bijection DEF ExistsBijection, C

(* There are finitely many pairs.                                          *)
LEMMA SheetsFinite ==
  ASSUME NEW n \in Nat, NEW A, \A j \in 1 .. n : IsFiniteSet(A[j]), NEW D, D \subseteq 1 .. n
  PROVE  IsFiniteSet(Sheets(D, A)) /\ Cardinality(Sheets(D, A)) \in Nat
<1> DEFINE U == { k \in 0 .. n : IsFiniteSet(Sheets(1 .. k, A)) }
<1>1. 0 \in U
  <2>1. Sheets(1 .. 0, A) = {}
    BY DEF Sheets
  <2>2. QED
    BY <2>1, FS_EmptySet
<1>2. ASSUME NEW k \in 0 + 1 .. n, k - 1 \in U PROVE k \in U
  <2>1. Sheets(1 .. k, A) = Sheets(1 .. k - 1, A) \cup ({k} \X A[k])
    <3>1. \A j : j \in 1 .. k <=> j \in 1 .. k - 1 \/ j = k
      OBVIOUS
    <3>2. QED
      BY <3>1 DEF Sheets
  <2>2. IsFiniteSet({k} \X A[k])
    <3>1. k \in 1 .. n
      OBVIOUS
    <3>2. IsFiniteSet(A[k])
      BY <3>1
    <3>3. QED
      BY <3>2, OneSheet
  <2>3. IsFiniteSet(Sheets(1 .. k - 1, A))
    BY <1>2
  <2>4. IsFiniteSet(Sheets(1 .. k, A))
    <3> DEFINE S == Sheets(1 .. k - 1, A)
               O == {k} \X A[k]
    <3>1. Sheets(1 .. k, A) = S \cup O /\ IsFiniteSet(S) /\ IsFiniteSet(O)
      BY <2>1, <2>2, <2>3
    <3> HIDE DEF S, O
    <3>2. IsFiniteSet(S \cup O)
      BY <3>1, FS_Union
    <3>3. QED
      BY <3>1, <3>2
  <2>5. k \in 0 .. n
    OBVIOUS
  <2>6. QED
    BY <2>4, <2>5
<1> HIDE DEF U
<1>3. n \in U
  <2>1. \A k \in 0 .. n : k \in U
    BY <1>1, <1>2, Interval
  <2>2. QED
    BY <2>1
<1>4. Sheets(D, A) \in SUBSET Sheets(1 .. n, A)
  BY DEF Sheets
<1>5. IsFiniteSet(Sheets(D, A))
  BY <1>3, <1>4, FS_Subset DEF U
<1>6. QED
  BY <1>5, FS_CardinalityType

(* The pairs of one place, counted apart from the others.                  *)
LEMMA SheetsSplit ==
  ASSUME NEW n \in Nat, NEW A, \A j \in 1 .. n : IsFiniteSet(A[j]), NEW m \in 1 .. n
  PROVE  Cardinality(Sheets(1 .. n, A)) =
           Cardinality(Sheets((1 .. n) \ {m}, A)) + Cardinality(A[m])
<1> DEFINE R == Sheets((1 .. n) \ {m}, A)
           O == {m} \X A[m]
<1>1. Sheets(1 .. n, A) = R \cup O /\ R \cap O = {}
  BY DEF Sheets
<1>2. IsFiniteSet(R) /\ Cardinality(R) \in Nat
  BY SheetsFinite
<1>3. IsFiniteSet(O) /\ Cardinality(O) = Cardinality(A[m])
  BY OneSheet
<1>4. Cardinality(O) \in Nat
  BY <1>3, FS_CardinalityType
<1>5. Sheets(1 .. n, A) = R \cup O
  BY <1>1
<1> HIDE DEF R, O
<1>6. Cardinality(R \cup O) = Cardinality(R) + Cardinality(O) - Cardinality(R \cap O)
  BY <1>2, <1>3, FS_Union
<1>7. Cardinality(R \cap O) = 0
  BY <1>1, FS_EmptySet
<1>8. Cardinality(Sheets(1 .. n, A)) = Cardinality(R) + Cardinality(A[m])
  <2>1. Cardinality(R \cup O) = Cardinality(R) + Cardinality(O)
    BY <1>2, <1>4, <1>6, <1>7
  <2>2. QED
    BY <1>3, <1>5, <2>1, Zenon
<1>9. QED
  BY <1>8 DEF R

(* Only the members at the places counted matter.                          *)
LEMMA SheetsAgree ==
  ASSUME NEW D, NEW A, NEW B, \A j \in D : A[j] = B[j]
  PROVE  Sheets(D, A) = Sheets(D, B)
BY DEF Sheets

(* One sheet more in front, the others moved along.                        *)
LEMMA SheetsPushed ==
  ASSUME NEW n \in Nat, NEW A, NEW B, \A j \in 1 .. n + 1 : IsFiniteSet(A[j]),
         \A j \in 1 .. n : B[j] = A[j + 1]
  PROVE  Cardinality(Sheets(1 .. n + 1, A)) =
           Cardinality(A[1]) + Cardinality(Sheets(1 .. n, B))
<1> DEFINE R == Sheets(2 .. n + 1, A)
           S == Sheets(1 .. n, B)
           f == [p \in S |-> <<p[1] + 1, p[2]>>]
<1>1. (1 .. n + 1) \ {1} = 2 .. n + 1 /\ 1 \in 1 .. n + 1
  OBVIOUS
<1>2. IsFiniteSet(S) /\ Cardinality(S) \in Nat
  <2>1. \A j \in 1 .. n : IsFiniteSet(B[j])
    OBVIOUS
  <2>2. QED
    BY <2>1, SheetsFinite
<1>3. f \in [S -> R]
  <2>1. ASSUME NEW p \in S PROVE <<p[1] + 1, p[2]>> \in R
    <3>1. PICK j \in 1 .. n : p \in {j} \X B[j]
      BY DEF Sheets
    <3>2. p[1] = j /\ p[2] \in A[j + 1] /\ j + 1 \in 2 .. n + 1
      BY <3>1
    <3>3. QED
      BY <3>2 DEF Sheets
  <2>2. QED
    BY <2>1
<1>4. ASSUME NEW c \in R PROVE \E p \in S : f[p] = c
  <2>1. PICK j \in 2 .. n + 1 : c \in {j} \X A[j]
    BY DEF Sheets
  <2>2. j - 1 \in 1 .. n /\ (j - 1) + 1 = j /\ c = <<j, c[2]>> /\ c[2] \in A[j]
    BY <2>1
  <2>3. <<j - 1, c[2]>> \in S
    BY <2>2 DEF Sheets
  <2>4. f[<<j - 1, c[2]>>] = c
    BY <2>2, <2>3
  <2>5. QED
    BY <2>3, <2>4
<1>5. ASSUME NEW p \in S, NEW q \in S, f[p] = f[q] PROVE p = q
  <2>1. \E j \in 1 .. n : p = <<j, p[2]>>
    BY DEF Sheets
  <2>2. \E j \in 1 .. n : q = <<j, q[2]>>
    BY DEF Sheets
  <2>3. <<p[1] + 1, p[2]>> = <<q[1] + 1, q[2]>>
    BY <1>5
  <2>4. p[1] + 1 = q[1] + 1 /\ p[2] = q[2]
    BY <2>3
  <2>5. QED
    BY <2>1, <2>2, <2>4
<1> HIDE DEF f
<1>6. Cardinality(R) = Cardinality(S)
  <2> HIDE DEF R, S
  <2>1. f \in Bijection(S, R)
    BY <1>3, <1>4, <1>5 DEF Bijection, Injection, Surjection, IsInjective
  <2>2. QED
    BY <1>2, <2>1, FS_Bijection DEF ExistsBijection
<1>7. Cardinality(Sheets(1 .. n + 1, A)) = Cardinality(R) + Cardinality(A[1])
  BY <1>1, SheetsSplit
<1>8. Cardinality(A[1]) \in Nat
  BY <1>1, FS_CardinalityType
<1>9. QED
  BY <1>2, <1>6, <1>7, <1>8
-----------------------------------------------------------------------------
(* The sums of the first 0, 1, .. n of the sizes.                          *)
SumsTo(n, size) ==
  LET sum[k \in 0 .. n] == IF k = 0 THEN 0 ELSE sum[k - 1] + size[k]
  IN  sum

(* The sums of sizes.                                                      *)
LEMMA SumsAre ==
  ASSUME NEW n \in Nat, NEW size, \A k \in 1 .. n : size[k] \in Nat
  PROVE  /\ SumsTo(n, size)[0] = 0
         /\ \A k \in 1 .. n : SumsTo(n, size)[k] = SumsTo(n, size)[k - 1] + size[k]
         /\ \A k \in 0 .. n : SumsTo(n, size)[k] \in Nat
<1> DEFINE Solves(g) == g = [k \in 0 .. n |-> IF k = 0 THEN 0 ELSE g[k - 1] + size[k]]
           sums == CHOOSE g : Solves(g)
           Step == [c \in Nat \X (0 + 1 .. n) |-> c[1] + size[c[2]]]
<1>1. SumsTo(n, size) = sums
  BY DEF SumsTo
<1>2. Step \in [Nat \X (0 + 1 .. n) -> Nat]
  OBVIOUS
<1>3. ASSUME NEW v \in Nat, NEW k \in 0 + 1 .. n PROVE Step[<<v, k>>] = v + size[k]
  OBVIOUS
<1> HIDE DEF Step
<1>4. PICK f : Follows(f, 0, n, Nat, 0, Step)
  BY <1>2, Iterates, 0 \in Int, n \in Int, 0 <= n, 0 \in Nat
<1>5. Solves(f)
  <2>1. f \in [0 .. n -> Nat] /\ f[0] = 0
        /\ \A k \in 0 + 1 .. n : f[k] = Step[<<f[k - 1], k>>]
    BY <1>4 DEF Follows
  <2>2. ASSUME NEW k \in 0 .. n PROVE f[k] = IF k = 0 THEN 0 ELSE f[k - 1] + size[k]
    <3>1. CASE k = 0
      BY <2>1, <3>1
    <3>2. CASE k # 0
      <4>1. k \in 0 + 1 .. n /\ k - 1 \in 0 .. n
        BY <3>2
      <4>2. f[k - 1] \in Nat
        BY <2>1, <4>1
      <4> QED
        BY <2>1, <3>2, <4>1, <4>2, <1>3
    <3> QED
      BY <3>1, <3>2
  <2> QED
    BY <2>1, <2>2
<1>6. Solves(sums)
  BY <1>5
<1>7. \A k \in 0 .. n : sums[k] = IF k = 0 THEN 0 ELSE sums[k - 1] + size[k]
  BY <1>6, Zenon
<1> HIDE DEF sums
<1>8. sums[0] = 0 /\ \A k \in 1 .. n : sums[k] = sums[k - 1] + size[k]
  BY <1>7
<1>9. \A k \in 0 .. n : sums[k] \in Nat
  <2>1. \A k \in 0 + 1 .. n : sums[k - 1] \in Nat => sums[k] \in Nat
    BY <1>8
  <2>2. sums[0] \in Nat /\ 0 <= n
    BY <1>8
  <2> QED
    BY <2>1, <2>2, Stays, 0 \in Int, n \in Int
<1> QED
  BY <1>1, <1>8, <1>9

(* One of them one larger.                                                 *)
LEMMA SumsGrow ==
  ASSUME NEW n \in Nat, NEW size, \A k \in 1 .. n : size[k] \in Nat,
         NEW more, NEW i \in 1 .. n,
         \A k \in 1 .. n : more[k] = IF k = i THEN size[k] + 1 ELSE size[k]
  PROVE  SumsTo(n, more)[n] = SumsTo(n, size)[n] + 1
<1> DEFINE S == SumsTo(n, size)
           T == SumsTo(n, more)
<1>1. /\ S[0] = 0 /\ \A k \in 1 .. n : S[k] = S[k - 1] + size[k]
      /\ \A k \in 0 .. n : S[k] \in Nat
  BY SumsAre
<1>2. /\ T[0] = 0 /\ \A k \in 1 .. n : T[k] = T[k - 1] + more[k]
      /\ \A k \in 0 .. n : T[k] \in Nat
  <2>1. \A k \in 1 .. n : more[k] \in Nat
    OBVIOUS
  <2> QED
    BY <2>1, SumsAre
<1> HIDE DEF S, T
<1> DEFINE U == { k \in 0 .. n : T[k] = S[k] + (IF k < i THEN 0 ELSE 1) }
<1>3. 0 \in U
  BY <1>1, <1>2
<1>4. ASSUME NEW k \in 0 + 1 .. n, k - 1 \in U PROVE k \in U
  <2>1. T[k - 1] = S[k - 1] + (IF k - 1 < i THEN 0 ELSE 1) /\ k \in 1 .. n /\ k - 1 \in 0 .. n
    BY <1>4
  <2>2. S[k - 1] \in Nat /\ S[k] = S[k - 1] + size[k] /\ T[k] = T[k - 1] + more[k] /\ size[k] \in Nat
    BY <2>1, <1>1, <1>2
  <2>3. more[k] = IF k = i THEN size[k] + 1 ELSE size[k]
    BY <2>1
  <2> QED
    BY <2>1, <2>2, <2>3
<1> HIDE DEF U
<1>5. n \in U
  <2>1. \A k \in 0 .. n : k \in U
    BY <1>3, <1>4, Interval, 0 \in Int, n \in Int
  <2> QED
    BY <2>1
<1> QED
  BY <1>5, <1>1 DEF U, S, T

(* A further size of nought.                                               *)
LEMMA SumsAppend ==
  ASSUME NEW n \in Nat, NEW size, \A k \in 1 .. n : size[k] \in Nat,
         NEW more, more[n + 1] = 0, \A k \in 1 .. n : more[k] = size[k]
  PROVE  SumsTo(n + 1, more)[n + 1] = SumsTo(n, size)[n]
<1> DEFINE S == SumsTo(n, size)
           T == SumsTo(n + 1, more)
<1>1. /\ S[0] = 0 /\ \A k \in 1 .. n : S[k] = S[k - 1] + size[k]
      /\ \A k \in 0 .. n : S[k] \in Nat
  BY SumsAre
<1>2. /\ T[0] = 0 /\ \A k \in 1 .. n + 1 : T[k] = T[k - 1] + more[k]
      /\ \A k \in 0 .. n + 1 : T[k] \in Nat
  <2>1. \A k \in 1 .. n + 1 : more[k] \in Nat
    OBVIOUS
  <2> QED
    BY <2>1, SumsAre
<1> HIDE DEF S, T
<1> DEFINE U == { k \in 0 .. n : T[k] = S[k] }
<1>3. 0 \in U
  BY <1>1, <1>2
<1>4. ASSUME NEW k \in 0 + 1 .. n, k - 1 \in U PROVE k \in U
  <2>1. T[k - 1] = S[k - 1] /\ k \in 1 .. n
    BY <1>4
  <2> QED
    BY <2>1, <1>1, <1>2
<1> HIDE DEF U
<1>5. n \in U
  <2>1. \A k \in 0 .. n : k \in U
    BY <1>3, <1>4, Interval, 0 \in Int, n \in Int
  <2> QED
    BY <2>1
<1>6. T[n] = S[n]
  BY <1>5 DEF U
<1>7. T[n + 1] = T[(n + 1) - 1] + more[n + 1] /\ (n + 1) - 1 = n
  BY <1>2
<1>8. S[n] \in Nat
  BY <1>1
<1> QED
  BY <1>6, <1>7, <1>8 DEF S, T

(* The sums before a place, and with it, are at most the whole; the sum    *)
(* before any place but the first has the first size in it.                *)
LEMMA SumsBound ==
  ASSUME NEW n \in Nat, NEW size, \A k \in 1 .. n : size[k] \in Nat, NEW k \in 1 .. n
  PROVE  /\ SumsTo(n, size)[k - 1] \in Nat
         /\ SumsTo(n, size)[k - 1] + size[k] <= SumsTo(n, size)[n]
         /\ k # 1 => SumsTo(n, size)[k - 1] >= size[1]
<1> DEFINE S == SumsTo(n, size)
<1>1. /\ S[0] = 0 /\ \A j \in 1 .. n : S[j] = S[j - 1] + size[j]
      /\ \A j \in 0 .. n : S[j] \in Nat
  BY SumsAre
<1> HIDE DEF S
<1> DEFINE U == { j \in k .. n : S[k] <= S[j] }
           W == { j \in 1 .. n : S[1] <= S[j] }
<1>2. k \in U /\ \A j \in k + 1 .. n : j - 1 \in U => j \in U
  <2>1. k \in U
    BY <1>1
  <2>2. ASSUME NEW j \in k + 1 .. n, j - 1 \in U PROVE j \in U
    <3>1. S[k] <= S[j - 1] /\ j \in 1 .. n /\ j - 1 \in 0 .. n /\ k \in 0 .. n
      BY <2>2
    <3>2. S[j] = S[j - 1] + size[j] /\ size[j] \in Nat /\ S[j - 1] \in Nat /\ S[k] \in Nat
      BY <3>1, <1>1
    <3> QED
      BY <3>1, <3>2
  <2> QED
    BY <2>1, <2>2
<1>3. 1 \in W /\ \A j \in 1 + 1 .. n : j - 1 \in W => j \in W
  <2>1. 1 \in W
    BY <1>1
  <2>2. ASSUME NEW j \in 1 + 1 .. n, j - 1 \in W PROVE j \in W
    <3>1. S[1] <= S[j - 1] /\ j \in 1 .. n /\ j - 1 \in 0 .. n /\ 1 \in 0 .. n
      BY <2>2
    <3>2. S[j] = S[j - 1] + size[j] /\ size[j] \in Nat /\ S[j - 1] \in Nat /\ S[1] \in Nat
      BY <3>1, <1>1
    <3> QED
      BY <3>1, <3>2
  <2> QED
    BY <2>1, <2>2
<1> HIDE DEF U, W
<1>4. n \in U
  BY <1>2, Interval, SMTT(30)
<1>5. k # 1 => k - 1 \in W
  <2>1. \A j \in 1 .. n : j \in W
    BY <1>3, Interval
  <2> QED
    BY <2>1
<1>6. S[k] <= S[n] /\ (k # 1 => S[1] <= S[k - 1])
  BY <1>4, <1>5 DEF U, W
<1>7. S[1] = S[1 - 1] + size[1] /\ S[k] = S[k - 1] + size[k] /\ S[k - 1] \in Nat /\ size[1] \in Nat
  BY <1>1
<1> QED
  BY <1>1, <1>6, <1>7 DEF S
-----------------------------------------------------------------------------
(* The records of the segments of a circuit, and the sums of their counts. *)
RecordOk(rec) == /\ DOMAIN rec = {"num_gates", "num_constraints", "identity"}
                 /\ rec.num_gates \in Nat /\ rec.num_constraints \in Nat
Records(recs) == IsList(recs) /\ recs # <<>> /\ \A i \in 1 .. Len(recs) : RecordOk(recs[i])
GateTotal(recs) ==
  SumsTo(Len(recs), [i \in DOMAIN recs |-> recs[i].num_gates])[Len(recs)]
ConstraintTotal(recs) ==
  SumsTo(Len(recs), [i \in DOMAIN recs |-> recs[i].num_constraints])[Len(recs)]

(* A record changed.                                                       *)
LEMMA RecordsChange ==
  ASSUME NEW recs, Records(recs), NEW i \in 1 .. Len(recs), NEW e, RecordOk(e)
  PROVE  /\ Records([recs EXCEPT ![i] = e]) /\ Len([recs EXCEPT ![i] = e]) = Len(recs)
         /\ \A k \in 1 .. Len(recs) : [recs EXCEPT ![i] = e][k] = IF k = i THEN e ELSE recs[k]
<1> DEFINE u == [recs EXCEPT ![i] = e]
           S == Range(recs) \cup {e}
<1>1. IsList(recs) /\ recs # <<>> /\ Len(recs) \in Nat \ {0}
  BY ListIs DEF Records
<1>2. recs \in Seq(S) /\ e \in S
  BY <1>1, SeqMonotonic DEF IsList
<1> HIDE DEF S
<1>3. u \in Seq(S) /\ Len(u) = Len(recs) /\ \A k \in 1 .. Len(recs) : u[k] = IF k = i THEN e ELSE recs[k]
  BY <1>2, ExceptSeq
<1> HIDE DEF u
<1>4. IsList(u) /\ u # <<>>
  BY <1>1, <1>3, ListOf, ListIs
<1>5. \A k \in 1 .. Len(u) : RecordOk(u[k])
  BY <1>3 DEF Records
<1>6. Records(u)
  BY <1>4, <1>5 DEF Records
<1> QED
  BY <1>3, <1>6 DEF u

(* A record more.                                                          *)
LEMMA RecordsMore ==
  ASSUME NEW recs, Records(recs), NEW e, RecordOk(e)
  PROVE  /\ Records(Append(recs, e)) /\ Len(Append(recs, e)) = Len(recs) + 1
         /\ \A k \in 1 .. Len(recs) : Append(recs, e)[k] = recs[k]
         /\ Append(recs, e)[Len(recs) + 1] = e
<1> DEFINE u == Append(recs, e)
           S == Range(recs) \cup {e}
<1>1. IsList(recs) /\ recs # <<>> /\ Len(recs) \in Nat \ {0}
  BY ListIs DEF Records
<1>2. recs \in Seq(S) /\ e \in S
  BY <1>1, SeqMonotonic DEF IsList
<1> HIDE DEF S
<1>3. /\ u \in Seq(S) /\ Len(u) = Len(recs) + 1
      /\ (\A k \in 1 .. Len(recs) : u[k] = recs[k]) /\ u[Len(recs) + 1] = e
  BY <1>2, AppendProperties
<1> HIDE DEF u
<1>4. IsList(u) /\ u # <<>>
  BY <1>1, <1>3, ListOf, ListIs
<1>5. ASSUME NEW k \in 1 .. Len(u) PROVE RecordOk(u[k])
  <2>1. k = Len(recs) + 1 \/ k \in 1 .. Len(recs)
    BY <1>1, <1>3
  <2> QED
    BY <2>1, <1>3 DEF Records
<1>6. Records(u)
  BY <1>4, <1>5 DEF Records
<1> QED
  BY <1>3, <1>6 DEF u

(* What the totals sum.                                                    *)
LEMMA SizesAre ==
  ASSUME NEW recs, Records(recs)
  PROVE  /\ Len(recs) \in Nat \ {0} /\ DOMAIN recs = 1 .. Len(recs)
         /\ \A k \in 1 .. Len(recs) : /\ [i \in DOMAIN recs |-> recs[i].num_gates][k] \in Nat
                                      /\ [i \in DOMAIN recs |-> recs[i].num_constraints][k] \in Nat
<1>1. IsList(recs) /\ recs # <<>>
  BY DEF Records
<1>2. Len(recs) \in Nat \ {0} /\ DOMAIN recs = 1 .. Len(recs)
  BY <1>1, ListIs
<1> QED
  BY <1>2 DEF Records, RecordOk

(* A record changed: by one gate or constraint, or not in its counts.      *)
LEMMA TotalsChange ==
  ASSUME NEW recs, Records(recs), NEW i \in 1 .. Len(recs), NEW e, RecordOk(e)
  PROVE  /\ e.num_gates = recs[i].num_gates + 1
              => GateTotal([recs EXCEPT ![i] = e]) = GateTotal(recs) + 1
         /\ e.num_gates = recs[i].num_gates => GateTotal([recs EXCEPT ![i] = e]) = GateTotal(recs)
         /\ e.num_constraints = recs[i].num_constraints + 1
              => ConstraintTotal([recs EXCEPT ![i] = e]) = ConstraintTotal(recs) + 1
         /\ e.num_constraints = recs[i].num_constraints
              => ConstraintTotal([recs EXCEPT ![i] = e]) = ConstraintTotal(recs)
<1> DEFINE n == Len(recs)
           recs2 == [recs EXCEPT ![i] = e]
           g == [k \in DOMAIN recs |-> recs[k].num_gates]
           h == [k \in DOMAIN recs2 |-> recs2[k].num_gates]
           c == [k \in DOMAIN recs |-> recs[k].num_constraints]
           d == [k \in DOMAIN recs2 |-> recs2[k].num_constraints]
<1>1. /\ n \in Nat /\ DOMAIN recs = 1 .. n
      /\ (\A k \in 1 .. n : g[k] \in Nat) /\ (\A k \in 1 .. n : c[k] \in Nat)
  BY SizesAre
<1>2. Records(recs2) /\ Len(recs2) = n /\ \A k \in 1 .. n : recs2[k] = IF k = i THEN e ELSE recs[k]
  BY RecordsChange
<1> HIDE DEF recs2
<1>3. DOMAIN recs2 = 1 .. n
  BY <1>2, SizesAre
<1>4. \A k \in 1 .. n : h[k] = IF k = i THEN e.num_gates ELSE g[k]
  BY <1>1, <1>2, <1>3
<1>5. \A k \in 1 .. n : d[k] = IF k = i THEN e.num_constraints ELSE c[k]
  BY <1>1, <1>2, <1>3
<1>6. g[i] = recs[i].num_gates /\ c[i] = recs[i].num_constraints
  BY <1>1
<1>7. DOMAIN g = 1 .. n /\ DOMAIN h = 1 .. n /\ DOMAIN c = 1 .. n /\ DOMAIN d = 1 .. n
  BY <1>1, <1>3
<1>8. e.num_gates = recs[i].num_gates => h = g
  BY <1>1, <1>3, <1>4, <1>6
<1>9. e.num_constraints = recs[i].num_constraints => d = c
  BY <1>1, <1>3, <1>5, <1>6
<1>10. /\ GateTotal(recs) = SumsTo(n, g)[n] /\ GateTotal(recs2) = SumsTo(n, h)[n]
       /\ ConstraintTotal(recs) = SumsTo(n, c)[n] /\ ConstraintTotal(recs2) = SumsTo(n, d)[n]
  BY <1>2 DEF GateTotal, ConstraintTotal
<1> HIDE DEF g, h, c, d, n
<1>11. e.num_gates = recs[i].num_gates + 1 => SumsTo(n, h)[n] = SumsTo(n, g)[n] + 1
  <2> SUFFICES ASSUME e.num_gates = recs[i].num_gates + 1
               PROVE  SumsTo(n, h)[n] = SumsTo(n, g)[n] + 1
    OBVIOUS
  <2>1. i \in 1 .. n /\ \A k \in 1 .. n : h[k] = IF k = i THEN g[k] + 1 ELSE g[k]
    BY <1>4, <1>6 DEF n
  <2> QED
    BY ONLY <1>1, <2>1, SumsGrow
<1>12. e.num_constraints = recs[i].num_constraints + 1
         => SumsTo(n, d)[n] = SumsTo(n, c)[n] + 1
  <2> SUFFICES ASSUME e.num_constraints = recs[i].num_constraints + 1
               PROVE  SumsTo(n, d)[n] = SumsTo(n, c)[n] + 1
    OBVIOUS
  <2>1. i \in 1 .. n /\ \A k \in 1 .. n : d[k] = IF k = i THEN c[k] + 1 ELSE c[k]
    BY <1>5, <1>6 DEF n
  <2> QED
    BY ONLY <1>1, <2>1, SumsGrow
<1> QED
  BY <1>8, <1>9, <1>10, <1>11, <1>12 DEF recs2

(* A record more that counts nothing yet.                                  *)
LEMMA TotalsAppend ==
  ASSUME NEW recs, Records(recs), NEW e, RecordOk(e), e.num_gates = 0, e.num_constraints = 0
  PROVE  /\ GateTotal(Append(recs, e)) = GateTotal(recs)
         /\ ConstraintTotal(Append(recs, e)) = ConstraintTotal(recs)
<1> DEFINE n == Len(recs)
           recs2 == Append(recs, e)
           g == [k \in DOMAIN recs |-> recs[k].num_gates]
           h == [k \in DOMAIN recs2 |-> recs2[k].num_gates]
           c == [k \in DOMAIN recs |-> recs[k].num_constraints]
           d == [k \in DOMAIN recs2 |-> recs2[k].num_constraints]
<1>1. /\ n \in Nat /\ DOMAIN recs = 1 .. n
      /\ (\A k \in 1 .. n : g[k] \in Nat) /\ (\A k \in 1 .. n : c[k] \in Nat)
  BY SizesAre
<1>2. /\ Records(recs2) /\ Len(recs2) = n + 1
      /\ (\A k \in 1 .. n : recs2[k] = recs[k]) /\ recs2[n + 1] = e
  BY RecordsMore
<1> HIDE DEF recs2
<1>3. DOMAIN recs2 = 1 .. n + 1
  BY <1>2, SizesAre
<1>4. h[n + 1] = 0 /\ \A k \in 1 .. n : h[k] = g[k]
  BY <1>1, <1>2, <1>3
<1>5. d[n + 1] = 0 /\ \A k \in 1 .. n : d[k] = c[k]
  BY <1>1, <1>2, <1>3
<1>6. /\ GateTotal(recs) = SumsTo(n, g)[n] /\ GateTotal(recs2) = SumsTo(n + 1, h)[n + 1]
      /\ ConstraintTotal(recs) = SumsTo(n, c)[n]
      /\ ConstraintTotal(recs2) = SumsTo(n + 1, d)[n + 1]
  BY <1>2 DEF GateTotal, ConstraintTotal
<1> HIDE DEF g, h, c, d, n
<1>7. SumsTo(n + 1, h)[n + 1] = SumsTo(n, g)[n]
  BY ONLY <1>1, <1>4, SumsAppend
<1>8. SumsTo(n + 1, d)[n + 1] = SumsTo(n, c)[n]
  BY ONLY <1>1, <1>5, SumsAppend
<1> QED
  BY <1>6, <1>7, <1>8 DEF recs2
(* One record that counts nothing yet.                                     *)
LEMMA OneRecord ==
  ASSUME NEW r, RecordOk(r), r.num_gates = 0, r.num_constraints = 0
  PROVE  /\ Records(<<r>>) /\ Len(<<r>>) = 1 /\ <<r>>[1] = r
         /\ GateTotal(<<r>>) = 0 /\ ConstraintTotal(<<r>>) = 0
<1> DEFINE recs == <<r>>
           g == [k \in DOMAIN recs |-> recs[k].num_gates]
           c == [k \in DOMAIN recs |-> recs[k].num_constraints]
<1>1. RecordOk(r) /\ r.num_gates = 0 /\ r.num_constraints = 0
  OBVIOUS
<1>2. IsList(recs) /\ Len(recs) = 1 /\ recs[1] = r
  BY Single
<1>3. Records(recs)
  BY <1>1, <1>2 DEF Records
<1>4. DOMAIN recs = 1 .. 1
  BY <1>2, <1>3, SizesAre
<1>5. g[1] = 0 /\ c[1] = 0
  BY <1>1, <1>2, <1>4
<1>6. GateTotal(recs) = SumsTo(1, g)[1] /\ ConstraintTotal(recs) = SumsTo(1, c)[1]
  BY <1>2 DEF GateTotal, ConstraintTotal
<1> HIDE DEF g, c, recs
<1> DEFINE n == 1
<1>7. n \in Nat /\ (\A k \in 1 .. n : g[k] \in Nat) /\ (\A k \in 1 .. n : c[k] \in Nat)
  BY <1>5
<1> HIDE DEF n
<1>8. /\ SumsTo(n, g)[0] = 0
      /\ \A k \in 1 .. n : SumsTo(n, g)[k] = SumsTo(n, g)[k - 1] + g[k]
  BY <1>7, SumsAre
<1>9. /\ SumsTo(n, c)[0] = 0
      /\ \A k \in 1 .. n : SumsTo(n, c)[k] = SumsTo(n, c)[k - 1] + c[k]
  BY <1>7, SumsAre
<1>10. 1 \in 1 .. n /\ 1 - 1 = 0
  BY DEF n
<1>11. SumsTo(n, g)[1] = 0 /\ SumsTo(n, c)[1] = 0
  BY <1>5, <1>8, <1>9, <1>10
<1> QED
  BY <1>2, <1>3, <1>6, <1>11 DEF n, recs
=============================================================================
