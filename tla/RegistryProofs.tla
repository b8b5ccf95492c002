--------------------------- MODULE RegistryProofs ---------------------------
(***************************************************************************)
(* Proofs about module Registry: after any registrations of an             *)
(* application, every circuit is where its index says, and encodings name  *)
(* their headers.                                                          *)
(***************************************************************************)
EXTENDS Registry, DataTheorems

ObjectsOf(ids) == [i \in DOMAIN ids |-> ObjectOf(ids[i])]

(* The circuits of a list of names are a list.                             *)
LEMMA ObjectsAre ==
  ASSUME NEW ids, IsList(ids)
  PROVE  /\ IsList(ObjectsOf(ids)) /\ Len(ObjectsOf(ids)) = Len(ids)
         /\ \A k \in 1 .. Len(ids) : ObjectsOf(ids)[k] = ObjectOf(ids[k])
<1> DEFINE n == Len(ids)
           s == ObjectsOf(ids)
<1>1. n \in Nat /\ DOMAIN ids = 1 .. n
  BY ListIs
<1>2. DOMAIN s = 1 .. n /\ s = [k \in 1 .. n |-> s[k]] /\ \A k \in 1 .. n : s[k] = ObjectOf(ids[k])
  BY <1>1 DEF ObjectsOf
<1> HIDE DEF n, s
<1>3. IsList(s) /\ Len(s) = n
  BY <1>1, <1>2, TabledList
<1> QED
  BY <1>2, <1>3 DEF n, s

(* Where the elements of four lists are in one list.                       *)
Joins(s, a, b, c, d) ==
  /\ \A k \in 1 .. Len(a) : s[k] = a[k]
  /\ \A k \in 1 .. Len(b) : s[Len(a) + k] = b[k]
  /\ \A k \in 1 .. Len(c) : s[Len(a) + Len(b) + k] = c[k]
  /\ \A k \in 1 .. Len(d) : s[Len(a) + Len(b) + Len(c) + k] = d[k]

(* Four lists joined have their elements one list after the other.         *)
LEMMA FourJoined ==
  ASSUME NEW a, IsList(a), NEW b, IsList(b), NEW c, IsList(c), NEW d, IsList(d)
  PROVE  Joins(((a \o b) \o c) \o d, a, b, c, d)
<1> DEFINE ab == a \o b
           abc == ab \o c
           s == abc \o d
           l == Len(a)
           m == Len(b)
           n == Len(c)
<1>0. s = abc \o d /\ l = Len(a) /\ m = Len(b) /\ n = Len(c) /\ l \in Nat /\ m \in Nat /\ n \in Nat
  BY ListIs
<1> HIDE DEF l, m, n
<1>1. /\ IsList(ab) /\ Len(ab) = l + m
      /\ \A k \in 1 .. l : ab[k] = a[k]
      /\ \A k \in 1 .. m : ab[l + k] = b[k]
  <2>1. IsList(a) /\ IsList(b)
    OBVIOUS
  <2>2. /\ IsList(ab) /\ Len(ab) = Len(a) + Len(b)
        /\ \A k \in 1 .. Len(a) : ab[k] = a[k]
        /\ \A k \in 1 .. Len(b) : ab[Len(a) + k] = b[k]
    BY ONLY <2>1, Joined
  <2> QED
    BY ONLY <2>2, <1>0
<1> HIDE DEF ab
<1>2. /\ IsList(abc) /\ Len(abc) = (l + m) + n
      /\ \A k \in 1 .. l + m : abc[k] = ab[k]
      /\ \A k \in 1 .. n : abc[(l + m) + k] = c[k]
  <2>1. IsList(ab) /\ IsList(c)
    BY <1>1
  <2>2. /\ IsList(abc) /\ Len(abc) = Len(ab) + Len(c)
        /\ \A k \in 1 .. Len(ab) : abc[k] = ab[k]
        /\ \A k \in 1 .. Len(c) : abc[Len(ab) + k] = c[k]
    BY ONLY <2>1, Joined
  <2>3. Len(ab) = l + m
    BY <1>1
  <2> QED
    BY ONLY <2>2, <2>3, <1>0
<1> HIDE DEF abc
<1>3. /\ IsList(s) /\ Len(s) = (l + m + n) + Len(d)
      /\ \A k \in 1 .. l + m + n : s[k] = abc[k]
      /\ \A k \in 1 .. Len(d) : s[(l + m + n) + k] = d[k]
  <2>1. IsList(abc) /\ IsList(d)
    BY <1>2
  <2>2. /\ IsList(s) /\ Len(s) = Len(abc) + Len(d)
        /\ \A k \in 1 .. Len(abc) : s[k] = abc[k]
        /\ \A k \in 1 .. Len(d) : s[Len(abc) + k] = d[k]
    BY ONLY <1>0, <2>1, Joined
  <2>3. Len(abc) = l + m + n
    BY <1>2
  <2> QED
    BY ONLY <2>2, <2>3
<1>4. \A k \in 1 .. l : s[k] = a[k]
  <2> SUFFICES ASSUME NEW k \in 1 .. l PROVE s[k] = a[k]
    OBVIOUS
  <2>1. k \in 1 .. l + m /\ k \in 1 .. l + m + n
    BY <1>0
  <2> QED
    BY <2>1, <1>1, <1>2, <1>3
<1>5. \A k \in 1 .. m : s[l + k] = b[k]
  <2> SUFFICES ASSUME NEW k \in 1 .. m PROVE s[l + k] = b[k]
    OBVIOUS
  <2>1. l + k \in 1 .. l + m /\ l + k \in 1 .. l + m + n
    BY <1>0
  <2> QED
    BY <2>1, <1>1, <1>2, <1>3
<1>6. \A k \in 1 .. n : s[l + m + k] = c[k]
  <2> SUFFICES ASSUME NEW k \in 1 .. n PROVE s[l + m + k] = c[k]
    OBVIOUS
  <2>1. l + m + k \in 1 .. l + m + n
    BY <1>0
  <2> QED
    BY <2>1, <1>2, <1>3
<1>7. \A k \in 1 .. Len(d) : s[l + m + n + k] = d[k]
  BY <1>3
<1>8. Joins(s, a, b, c, d)
  BY <1>4, <1>5, <1>6, <1>7 DEF Joins, l, m, n
<1> QED
  BY <1>8 DEF ab, abc

(* The fixed lists of names.                                               *)
LEMMA FiveNames ==
  ASSUME NEW a, NEW b, NEW c, NEW d, NEW e
  PROVE  IsList(<<a, b, c, d, e>>) /\ Len(<<a, b, c, d, e>>) = 5
<1> DEFINE X == {a, b, c, d, e}
<1>1. a \in X /\ b \in X /\ c \in X /\ d \in X /\ e \in X
  OBVIOUS
<1> HIDE DEF X
<1>2. <<a, b, c, d, e>> \in Seq(X) /\ Len(<<a, b, c, d, e>>) = 5
  BY <1>1
<1> QED
  BY <1>2, ListOf

(* A list of eight is one.                                                 *)
LEMMA EightNames ==
  ASSUME NEW a, NEW b, NEW c, NEW d, NEW e, NEW f, NEW g, NEW h
  PROVE  IsList(<<a, b, c, d, e, f, g, h>>) /\ Len(<<a, b, c, d, e, f, g, h>>) = 8
<1> DEFINE X == {a, b, c, d, e, f, g, h}
<1>1. a \in X /\ b \in X /\ c \in X /\ d \in X /\ e \in X /\ f \in X /\ g \in X /\ h \in X
  OBVIOUS
<1> HIDE DEF X
<1>2. <<a, b, c, d, e, f, g, h>> \in Seq(X) /\ Len(<<a, b, c, d, e, f, g, h>>) = 8
  BY <1>1
<1> QED
  BY <1>2, ListOf

(* The names of the native registry are lists, of 5 and of 8.              *)
LEMMA NativeNames ==
  /\ IsList(NativeCircuits) /\ Len(NativeCircuits) = 5
  /\ IsList(NativeStages) /\ Len(NativeStages) = 8
<1>1. IsList(NativeCircuits) /\ Len(NativeCircuits) = 5
  BY FiveNames DEF NativeCircuits
<1>2. IsList(NativeStages) /\ Len(NativeStages) = 8
  BY EightNames DEF NativeStages
<1> QED
  BY <1>1, <1>2

(* A list of fourteen is one.                                              *)
LEMMA FourteenNames ==
  ASSUME NEW a, NEW b, NEW c, NEW d, NEW e, NEW f, NEW g, NEW h,
         NEW i, NEW j, NEW k, NEW l, NEW m, NEW n
  PROVE  IsList(<<a, b, c, d, e, f, g, h, i, j, k, l, m, n>>)
<1> DEFINE X == {a, b, c, d, e, f, g, h, i, j, k, l, m, n}
<1>1. /\ a \in X /\ b \in X /\ c \in X /\ d \in X /\ e \in X /\ f \in X /\ g \in X
      /\ h \in X /\ i \in X /\ j \in X /\ k \in X /\ l \in X /\ m \in X /\ n \in X
  OBVIOUS
<1> HIDE DEF X
<1>2. <<a, b, c, d, e, f, g, h, i, j, k, l, m, n>> \in Seq(X)
  BY <1>1
<1> QED
  BY <1>2, ListOf

(* The names of the nested registry are lists.                             *)
LEMMA NestedNames == IsList(EndoscalingSteps) /\ IsList(NestedBonding)
<1>1. IsList(NestedBonding)
  BY FourteenNames DEF NestedBonding
<1>2. IsList(EndoscalingSteps)
  <2> DEFINE n == NumSteps(NUM_ENDOSCALING_POINTS)
             s == EndoscalingSteps
  <2>1. n \in Nat
    BY DEF NumSteps, NUM_ENDOSCALING_POINTS, ENDOSCALINGS_PER_STEP
  <2>2. DOMAIN s = 1 .. n /\ s = [k \in 1 .. n |-> s[k]]
    BY DEF EndoscalingSteps
  <2> HIDE DEF n, s
  <2>3. IsList(s)
    BY <2>1, <2>2, TabledList
  <2> QED
    BY <2>3 DEF s
<1> QED
  BY <1>1, <1>2

(* The place of a name of a list holds that name.                          *)
LEMMA PlaceHolds ==
  ASSUME NEW all, IsList(all), NEW k \in DOMAIN all
  PROVE  /\ PositionIn(all, all[k]) + 1 \in 1 .. Len(all)
         /\ all[PositionIn(all, all[k]) + 1] = all[k]
<1> DEFINE p == CHOOSE i \in DOMAIN all : all[i] = all[k]
<1>1. p \in DOMAIN all /\ all[p] = all[k]
  OBVIOUS
<1>2. DOMAIN all = 1 .. Len(all) /\ Len(all) \in Nat
  BY ListIs
<1>3. PositionIn(all, all[k]) = p - 1
  BY DEF PositionIn
<1> HIDE DEF p
<1>4. p \in Nat /\ (p - 1) + 1 = p
  BY <1>1, <1>2
<1> QED
  BY <1>1, <1>2, <1>3, <1>4

(* Two lists of objects joined are those of the names joined.              *)
Holds(circuits, all) == \A i \in 1 .. Len(all) : circuits[i] = ObjectOf(all[i])
(* Circuits that follow a list of names are found by the names.            *)
LEMMA HoldsFound ==
  ASSUME NEW all, IsList(all), NEW circuits, Holds(circuits, all), NEW k \in DOMAIN all
  PROVE  circuits[PositionIn(all, all[k]) + 1] = ObjectOf(all[k])
BY PlaceHolds DEF Holds
-----------------------------------------------------------------------------
(* What makes an encoding as long as every other: its content, zeros, and  *)
(* the suffix last.                                                        *)
LEMMA PaddedIs ==
  ASSUME NEW h, h.width \in Nat, Fits(h), NEW data
  PROVE  LET w == PaddedWires(h, data)
         IN  /\ IsList(w) /\ Len(w) = HEADER_SIZE
             /\ \A i \in 1 .. h.width : i \in 1 .. HEADER_SIZE /\ w[i] = Wire("alloc", data[i])
             /\ w[HEADER_SIZE] = Wire("constant", SuffixGet(h.suffix))
<1> DEFINE n == h.width
           z == HEADER_SIZE - 1 - n
           a == [i \in 1 .. n |-> Wire("alloc", data[i])]
           b == [i \in 1 .. z |-> Wire("constant", 0)]
           e == Wire("constant", SuffixGet(h.suffix))
           w == PaddedWires(h, data)
<1>1. n \in Nat /\ z \in Nat /\ n + z + 1 = HEADER_SIZE /\ HEADER_SIZE \in Nat
  BY ApplicationAssumption DEF Fits
<1>2. w = a \o b \o <<e>>
  BY DEF PaddedWires
<1>3. /\ DOMAIN a = 1 .. n /\ a = [k \in 1 .. n |-> a[k]] /\ \A k \in 1 .. n : a[k] = Wire("alloc", data[k])
      /\ DOMAIN b = 1 .. z /\ b = [k \in 1 .. z |-> b[k]]
  OBVIOUS
<1> HIDE DEF n, z, a, b, e, w
<1>4. IsList(a) /\ Len(a) = n /\ IsList(b) /\ Len(b) = z
  BY <1>1, <1>3, TabledList
<1>5. /\ IsList(a \o b) /\ Len(a \o b) = Len(a) + Len(b)
      /\ \A k \in 1 .. Len(a) : (a \o b)[k] = a[k]
  BY <1>4, Joined
<1>6. IsList(<<e>>) /\ Len(<<e>>) = 1 /\ <<e>>[1] = e
  BY Single
<1>7. /\ IsList(w) /\ Len(w) = Len(a \o b) + Len(<<e>>)
      /\ \A k \in 1 .. Len(a \o b) : w[k] = (a \o b)[k]
      /\ \A k \in 1 .. Len(<<e>>) : w[Len(a \o b) + k] = <<e>>[k]
  <2>1. IsList(a \o b) /\ IsList(<<e>>)
    BY <1>5, <1>6
  <2> QED
    BY ONLY <2>1, <1>2, Joined
<1>8. Len(a \o b) = n + z
  BY <1>4, <1>5
<1>9. Len(w) = HEADER_SIZE /\ w[HEADER_SIZE] = e
  <2>1. w[(n + z) + 1] = <<e>>[1]
    BY <1>6, <1>7, <1>8
  <2> QED
    BY <2>1, <1>1, <1>6, <1>7, <1>8
<1>10. ASSUME NEW i \in 1 .. n PROVE i \in 1 .. HEADER_SIZE /\ w[i] = Wire("alloc", data[i])
  <2>1. i \in 1 .. n + z /\ i \in 1 .. HEADER_SIZE
    BY <1>1
  <2>2. w[i] = (a \o b)[i] /\ (a \o b)[i] = a[i]
    BY <2>1, <1>4, <1>5, <1>7, <1>8
  <2> QED
    BY <2>1, <2>2, <1>3
<1> QED
  BY <1>7, <1>9, <1>10 DEF n, w, e

(* What application headers are: a width that fits, and a suffix of their  *)
(* own or the unit header.                                                 *)
Suffixes == {Internal(1)} \cup [kind : {"Application"}, value : Nat]
Encodable(h) == h.width \in Nat /\ Fits(h) /\ h.suffix \in Suffixes

(* Different suffixes end an encoding differently.                         *)
LEMMA SuffixesDiffer ==
  ASSUME NEW s \in Suffixes, NEW t \in Suffixes, SuffixGet(s) = SuffixGet(t)
  PROVE  s = t
BY DEF Suffixes, SuffixGet, Internal, NUM_INTERNAL_SUFFIXES

(* The unit header is one that can be encoded.                             *)
LEMMA UnitEncodable == Encodable(UnitHeader)
BY ApplicationAssumption DEF Encodable, UnitHeader, Fits, Suffixes, Internal

(* An encoding names the suffix and the data.                              *)
LEMMA EncodingNames ==
  ASSUME NEW h, Encodable(h), NEW g, Encodable(g), NEW a \in DataOf(h), NEW b \in DataOf(g),
         EncodedHeader(h, a) = EncodedHeader(g, b)
  PROVE  h.suffix = g.suffix /\ (h = g => a = b)
<1>1. HEADER_SIZE \in 1 .. HEADER_SIZE
  BY ApplicationAssumption
<1>2. \A i \in 1 .. HEADER_SIZE : PaddedWires(h, a)[i].value = PaddedWires(g, b)[i].value
  <2> DEFINE u == EncodedHeader(h, a)
             v == EncodedHeader(g, b)
  <2>1. u = v
    OBVIOUS
  <2>2. /\ \A i \in 1 .. HEADER_SIZE : u[i] = PaddedWires(h, a)[i].value
        /\ \A i \in 1 .. HEADER_SIZE : v[i] = PaddedWires(g, b)[i].value
    BY DEF EncodedHeader
  <2> HIDE DEF u, v
  <2> QED
    BY <2>1, <2>2
<1>3. /\ \A i \in 1 .. h.width : i \in 1 .. HEADER_SIZE /\ PaddedWires(h, a)[i] = Wire("alloc", a[i])
      /\ PaddedWires(h, a)[HEADER_SIZE] = Wire("constant", SuffixGet(h.suffix))
  BY PaddedIs DEF Encodable
<1>4. /\ \A i \in 1 .. g.width : i \in 1 .. HEADER_SIZE /\ PaddedWires(g, b)[i] = Wire("alloc", b[i])
      /\ PaddedWires(g, b)[HEADER_SIZE] = Wire("constant", SuffixGet(g.suffix))
  BY PaddedIs DEF Encodable
<1>5. \A how, v : Wire(how, v).value = v
  BY DEF Wire
<1>6. SuffixGet(h.suffix) = SuffixGet(g.suffix)
  BY <1>1, <1>2, <1>3, <1>4, <1>5
<1>7. ASSUME h = g PROVE a = b
  <2>1. \A i \in 1 .. h.width : a[i] = b[i]
    BY <1>2, <1>3, <1>4, <1>5, <1>7
  <2>2. a \in [1 .. h.width -> Contents] /\ b \in [1 .. h.width -> Contents]
    BY <1>7 DEF DataOf
  <2> DEFINE D == 1 .. h.width
  <2>3. a \in [D -> Contents] /\ b \in [D -> Contents] /\ \A i \in D : a[i] = b[i]
    BY <2>1, <2>2
  <2> HIDE DEF D
  <2> QED
    BY ONLY <2>3
<1> QED
  BY <1>6, <1>7, SuffixesDiffer DEF Encodable

(* The wires of the rerandomization circuit: both encodings of the header  *)
(* uniform, the unit header's between them.                                *)
LEMMA RerandomizeWires ==
  ASSUME NEW h, h.width \in Nat, Fits(h), NEW a
  PROVE  LET w == AdapterWires(Rerandomize(h), a, <<>>, a)
         IN  /\ DOMAIN w = 1 .. 3 * HEADER_SIZE
             /\ \A i \in 1 .. HEADER_SIZE :
                  /\ w[i] = Wire("alloc", PaddedWires(h, a)[i].value)
                  /\ w[HEADER_SIZE + i] = GadgetWires(UnitHeader, <<>>)[i]
                  /\ w[2 * HEADER_SIZE + i] = Wire("alloc", PaddedWires(h, a)[i].value)
<1> DEFINE n == HEADER_SIZE
           u == UniformWires(h, a)
           g == GadgetWires(UnitHeader, <<>>)
           w == AdapterWires(Rerandomize(h), a, <<>>, a)
<1>1. n \in Nat
  BY ApplicationAssumption
<1>2. w = u \o g \o u
  BY DEF AdapterWires, Rerandomize
<1>3. /\ DOMAIN u = 1 .. n /\ u = [k \in 1 .. n |-> u[k]]
      /\ \A k \in 1 .. n : u[k] = Wire("alloc", PaddedWires(h, a)[k].value)
  BY DEF UniformWires
<1>4. IsList(g) /\ Len(g) = n
  BY PaddedIs, UnitEncodable DEF Encodable, GadgetWires
<1> HIDE DEF n, u, g, w
<1>5. IsList(u) /\ Len(u) = n
  BY <1>1, <1>3, TabledList
<1>6. /\ IsList(u \o g) /\ Len(u \o g) = n + n
      /\ \A k \in 1 .. n : (u \o g)[k] = u[k]
      /\ \A k \in 1 .. n : (u \o g)[n + k] = g[k]
  <2>1. /\ IsList(u \o g) /\ Len(u \o g) = Len(u) + Len(g)
        /\ \A k \in 1 .. Len(u) : (u \o g)[k] = u[k]
        /\ \A k \in 1 .. Len(g) : (u \o g)[Len(u) + k] = g[k]
    BY ONLY <1>4, <1>5, Joined
  <2> QED
    BY <2>1, <1>4, <1>5
<1>7. /\ DOMAIN w = 1 .. (n + n) + n
      /\ \A k \in 1 .. n + n : w[k] = (u \o g)[k]
      /\ \A k \in 1 .. n : w[(n + n) + k] = u[k]
  <2>1. /\ DOMAIN w = 1 .. Len(u \o g) + Len(u)
        /\ \A k \in 1 .. Len(u \o g) : w[k] = (u \o g)[k]
        /\ \A k \in 1 .. Len(u) : w[Len(u \o g) + k] = u[k]
    <3>1. IsList(u \o g) /\ IsList(u)
      BY <1>5, <1>6
    <3> QED
      BY ONLY <3>1, <1>2, Joined
  <2> QED
    BY <2>1, <1>5, <1>6
<1>8. DOMAIN w = 1 .. 3 * n
  BY <1>1, <1>7
<1>9. ASSUME NEW i \in 1 .. n
      PROVE  w[i] = u[i] /\ w[n + i] = g[i] /\ w[2 * n + i] = u[i]
  <2>1. i \in 1 .. n + n /\ n + i \in 1 .. n + n /\ 2 * n + i = (n + n) + i
    BY <1>1
  <2> QED
    BY <2>1, <1>6, <1>7
<1> QED
  BY <1>3, <1>8, <1>9 DEF n, u, g, w

(* The circuit is the same for every header, and carries its encoding.     *)
LEMMA RerandomizeCarries ==
  ASSUME NEW h, h.width \in Nat, Fits(h), NEW a
  PROVE  LET wires == AdapterWires(Rerandomize(h), a, <<>>, a)
         IN  /\ Shape(wires) = Shape(AdapterWires(Rerandomize(UnitHeader), <<>>, <<>>, <<>>))
             /\ \A i \in 1 .. HEADER_SIZE :
                  wires[i] = wires[2 * HEADER_SIZE + i] /\ wires[i].value = EncodedHeader(h, a)[i]
<1> DEFINE n == HEADER_SIZE
           w == AdapterWires(Rerandomize(h), a, <<>>, a)
           v == AdapterWires(Rerandomize(UnitHeader), <<>>, <<>>, <<>>)
           g == GadgetWires(UnitHeader, <<>>)
<1>1. n \in Nat
  BY ApplicationAssumption
<1>2. /\ DOMAIN w = 1 .. 3 * n
      /\ \A i \in 1 .. n : /\ w[i] = Wire("alloc", PaddedWires(h, a)[i].value)
                           /\ w[n + i] = g[i]
                           /\ w[2 * n + i] = Wire("alloc", PaddedWires(h, a)[i].value)
  BY RerandomizeWires
<1>3. /\ DOMAIN v = 1 .. 3 * n
      /\ \A i \in 1 .. n : /\ v[i] = Wire("alloc", PaddedWires(UnitHeader, <<>>)[i].value)
                           /\ v[n + i] = g[i]
                           /\ v[2 * n + i] = Wire("alloc", PaddedWires(UnitHeader, <<>>)[i].value)
  BY RerandomizeWires, UnitEncodable DEF Encodable
<1>4. \A i \in 1 .. n : EncodedHeader(h, a)[i] = PaddedWires(h, a)[i].value
  BY DEF EncodedHeader
<1>5. \A how, x : Wire(how, x).value = x /\ Wire(how, x).how = how
  BY DEF Wire
<1> HIDE DEF n, w, v, g
<1>6. ASSUME NEW k \in 1 .. 3 * n PROVE w[k].how = v[k].how
  <2>1. CASE k <= n
    <3>1. k \in 1 .. n
      BY <2>1, <1>1
    <3> QED
      BY <3>1, <1>2, <1>3, <1>5
  <2>2. CASE k > n /\ k <= 2 * n
    <3>1. PICK i \in 1 .. n : k = n + i
      <4>1. k - n \in 1 .. n /\ k = n + (k - n)
        BY <2>2, <1>1
      <4> QED
        BY <4>1
    <3> QED
      BY <3>1, <1>2, <1>3
  <2>3. CASE k > 2 * n
    <3>1. PICK i \in 1 .. n : k = 2 * n + i
      <4>1. k - 2 * n \in 1 .. n /\ k = 2 * n + (k - 2 * n)
        BY <2>3, <1>1
      <4> QED
        BY <4>1
    <3> QED
      BY <3>1, <1>2, <1>3, <1>5
  <2> QED
    BY <2>1, <2>2, <2>3, <1>1
<1>7. Shape(w) = Shape(v)
  BY <1>2, <1>3, <1>6 DEF Shape
<1>8. \A i \in 1 .. n : w[i] = w[2 * n + i] /\ w[i].value = EncodedHeader(h, a)[i]
  BY <1>2, <1>4, <1>5
<1> QED
  BY <1>7, <1>8 DEF n, w, v
-----------------------------------------------------------------------------
(* A header's suffix is in the map, with its type.                         *)
Recalls(map, h) == h.suffix \in DOMAIN map /\ map[h.suffix] = h.type

(* A header seen without a conflict is in the map from then on.            *)
LEMMA SeesHeader ==
  ASSUME NEW acc, NEW h, Sees(acc, h).ok
  PROVE  /\ acc.ok /\ Recalls(Sees(acc, h).map, h)
         /\ \A g : Recalls(acc.map, g) => Recalls(Sees(acc, h).map, g)
<1>1. acc.ok /\ ~Conflicts(acc.map, h)
  BY DEF Sees
<1>2. Sees(acc, h).map = Remember(acc.map, h)
  BY <1>1 DEF Sees
<1>3. Recalls(Remember(acc.map, h), h)
  BY <1>1 DEF Remember, Conflicts, Recalls
<1>4. ASSUME NEW g, Recalls(acc.map, g) PROVE Recalls(Remember(acc.map, h), g)
  BY <1>1, <1>4 DEF Remember, Conflicts, Recalls
<1> QED
  BY <1>1, <1>2, <1>3, <1>4

(* After a step without conflicts the map has its three headers.           *)
LEMMA SeesStep ==
  ASSUME NEW map, NEW s, SuffixesAfter(map, s).ok
  PROVE  LET after == SuffixesAfter(map, s).map
         IN  /\ Recalls(after, s.left) /\ Recalls(after, s.right) /\ Recalls(after, s.output)
             /\ \A g : Recalls(map, g) => Recalls(after, g)
<1> DEFINE a0 == [ok |-> TRUE, map |-> map]
           a1 == Sees(a0, s.output)
           a2 == Sees(a1, s.left)
           a3 == Sees(a2, s.right)
<1>1. SuffixesAfter(map, s) = a3 /\ a0.map = map
  BY DEF SuffixesAfter
<1> HIDE DEF a0
<1>2. a2.ok /\ Recalls(a3.map, s.right) /\ \A g : Recalls(a2.map, g) => Recalls(a3.map, g)
  BY <1>1, SeesHeader
<1>3. a1.ok /\ Recalls(a2.map, s.left) /\ \A g : Recalls(a1.map, g) => Recalls(a2.map, g)
  BY <1>2, SeesHeader
<1>4. Recalls(a1.map, s.output) /\ \A g : Recalls(a0.map, g) => Recalls(a1.map, g)
  BY <1>3, SeesHeader
<1> HIDE DEF a1, a2, a3
<1> QED
  BY <1>1, <1>2, <1>3, <1>4

(* What stays true: the steps accepted so far have the indices in order,   *)
(* and fit; the map knows their headers.                                   *)
HeaderOk(map, h) == h \in HeaderTypes /\ Fits(h) /\ Recalls(map, h)
StepOk(map, s) == HeaderOk(map, s.left) /\ HeaderOk(map, s.right) /\ HeaderOk(map, s.output)
StepsOk(map, steps) ==
  /\ IsList(steps)
  /\ \A k \in 1 .. Len(steps) : steps[k].index = UserDefined(k - 1) /\ StepOk(map, steps[k])

(* A builder has the circuits of those steps and nothing else; a finalized *)
(* registry has all circuits where their indices say.                      *)
StepCircuits(steps) == [k \in 1 .. Len(steps) |-> StepCircuit(steps[k])]
Filled(c, b, i, a) ==
  [internal_circuits |-> c, bonding |-> b, internal_steps |-> i, application_steps |-> a]
BuilderOf(steps) == Filled(<<>>, <<>>, <<>>, StepCircuits(steps))
NativeHeld(circuits, steps) ==
  /\ Holds(circuits, NativeAll)
  /\ circuits[14] = ObjectOf(<<"step", Internal(0)>>)
  /\ circuits[15] = ObjectOf(<<"step", Internal(1)>>)
  /\ \A k \in 1 .. Len(steps) : circuits[15 + k] = StepCircuit(steps[k])
OpenOk == builder = BuilderOf(accepted) /\ nested.builder = EmptyBuilder
FinalOk ==
  /\ NativeHeld(registry.circuits, accepted)
  /\ Holds(nested.registry.circuits, NestedAll)
  /\ hashes_log2 = registry.log2
RInv ==
  /\ StepsOk(header_map, accepted)
  /\ client = "application" =>
       /\ num_application_steps = Len(accepted)
       /\ Open => OpenOk
       /\ Finalized => FinalOk

(* Headers of accepted steps, and the unit header, that share a suffix are *)
(* the same.                                                               *)
LEMMA HeadersDiffer ==
  ASSUME StepsOk(header_map, accepted)
  PROVE  /\ \A h \in AcceptedHeaders : Encodable(h)
         /\ \A h, g \in AcceptedHeaders : h.suffix = g.suffix => h = g
<1>1. ASSUME NEW h \in AcceptedHeaders
      PROVE  h = UnitHeader \/ HeaderOk(header_map, h)
  <2>1. CASE h = UnitHeader
    BY <2>1
  <2>2. CASE h # UnitHeader
    <3>1. PICK s \in AcceptedSteps : h \in {s.left, s.right, s.output}
      BY <2>2 DEF AcceptedHeaders
    <3>2. PICK k \in DOMAIN accepted : s = accepted[k]
      BY DEF AcceptedSteps
    <3>3. DOMAIN accepted = 1 .. Len(accepted)
      BY ListIs DEF StepsOk
    <3>4. StepOk(header_map, s)
      BY <3>2, <3>3 DEF StepsOk
    <3> QED
      BY <3>1, <3>4 DEF StepOk
  <2> QED
    BY <2>1, <2>2
<1>2. ASSUME NEW h \in HeaderTypes
      PROVE  h.width \in Nat /\ (h = UnitHeader \/ h.suffix \in [kind : {"Application"}, value : Nat])
  BY ApplicationAssumption
<1>3. ASSUME NEW h \in AcceptedHeaders PROVE Encodable(h)
  <2>1. CASE h = UnitHeader
    BY <2>1, UnitEncodable
  <2>2. CASE h # UnitHeader
    <3>1. HeaderOk(header_map, h)
      BY <2>2, <1>1
    <3> QED
      BY <3>1, <2>2, <1>2 DEF HeaderOk, Encodable, Suffixes
  <2> QED
    BY <2>1, <2>2
<1>4. ASSUME NEW h \in AcceptedHeaders, NEW g \in AcceptedHeaders, h.suffix = g.suffix
      PROVE  h = g
  <2>1. UnitHeader.suffix \notin [kind : {"Application"}, value : Nat]
    BY DEF UnitHeader, Internal
  <2>2. CASE h = UnitHeader \/ g = UnitHeader
    <3>1. ASSUME NEW f \in AcceptedHeaders, f.suffix = UnitHeader.suffix PROVE f = UnitHeader
      BY <3>1, <2>1, <1>1, <1>2 DEF HeaderOk
    <3> QED
      BY <2>2, <3>1, <1>4
  <2>3. CASE h # UnitHeader /\ g # UnitHeader
    <3>1. HeaderOk(header_map, h) /\ HeaderOk(header_map, g)
      BY <2>3, <1>1
    <3>2. h.type = g.type /\ h \in HeaderTypes /\ g \in HeaderTypes
      BY <3>1, <1>4 DEF HeaderOk, Recalls
    <3> QED
      BY <3>2, ApplicationAssumption
  <2> QED
    BY <2>2, <2>3
<1> QED
  BY <1>3, <1>4

(* With steps accepted in order, encodings name their headers.             *)
LEMMA EncodingsHold == StepsOk(header_map, accepted) => EncodingsIdentifyHeaders
<1> SUFFICES ASSUME StepsOk(header_map, accepted) PROVE EncodingsIdentifyHeaders
  OBVIOUS
<1>1. /\ \A h \in AcceptedHeaders : Encodable(h)
      /\ \A h, g \in AcceptedHeaders : h.suffix = g.suffix => h = g
  BY HeadersDiffer
<1>2. ASSUME NEW h \in AcceptedHeaders, NEW g \in AcceptedHeaders,
             NEW a \in DataOf(h), NEW b \in DataOf(g), EncodedHeader(h, a) = EncodedHeader(g, b)
      PROVE  h = g /\ a = b
  <2>1. h.suffix = g.suffix /\ (h = g => a = b)
    BY <1>1, <1>2, EncodingNames
  <2> QED
    BY <2>1, <1>1
<1>3. ASSUME NEW h \in AcceptedHeaders, NEW a \in DataOf(h)
      PROVE  LET wires == AdapterWires(Rerandomize(h), a, <<>>, a)
             IN  /\ Shape(wires) = Shape(AdapterWires(Rerandomize(UnitHeader), <<>>, <<>>, <<>>))
                 /\ \A i \in 1 .. HEADER_SIZE :
                      wires[i] = wires[2 * HEADER_SIZE + i] /\ wires[i].value = EncodedHeader(h, a)[i]
  <2>1. h.width \in Nat /\ Fits(h)
    BY <1>1 DEF Encodable
  <2> QED
    BY <2>1, RerandomizeCarries
<1> QED
  BY <1>2, <1>3 DEF EncodingsIdentifyHeaders
-----------------------------------------------------------------------------
(* The circuits of the accepted steps are a list.                          *)
LEMMA StepCircuitsAre ==
  ASSUME NEW steps, IsList(steps)
  PROVE  /\ IsList(StepCircuits(steps)) /\ Len(StepCircuits(steps)) = Len(steps)
         /\ \A k \in 1 .. Len(steps) : StepCircuits(steps)[k] = StepCircuit(steps[k])
<1> DEFINE n == Len(steps)
           c == StepCircuits(steps)
<1>1. n \in Nat
  BY ListIs
<1>2. DOMAIN c = 1 .. n /\ c = [k \in 1 .. n |-> c[k]] /\ \A k \in 1 .. n : c[k] = StepCircuit(steps[k])
  BY DEF StepCircuits
<1> HIDE DEF n, c
<1>3. IsList(c) /\ Len(c) = n
  BY <1>1, <1>2, TabledList
<1> QED
  BY <1>2, <1>3 DEF n, c

(* A step more, a circuit more.                                            *)
LEMMA StepCircuitsGrow ==
  ASSUME NEW steps, IsList(steps), NEW s
  PROVE  StepCircuits(Append(steps, s)) = Append(StepCircuits(steps), StepCircuit(s))
<1> DEFINE n == Len(steps)
           t == Append(steps, s)
           c == StepCircuits(steps)
           d == StepCircuits(t)
           e == Append(c, StepCircuit(s))
<1>1. n \in Nat
  BY ListIs
<1>2. IsList(t) /\ Len(t) = n + 1 /\ (\A k \in 1 .. n : t[k] = steps[k]) /\ t[n + 1] = s
  BY Appended
<1> HIDE DEF t
<1>3. IsList(d) /\ Len(d) = n + 1 /\ \A k \in 1 .. n + 1 : d[k] = StepCircuit(t[k])
  BY <1>2, StepCircuitsAre
<1>4. IsList(c) /\ Len(c) = n /\ \A k \in 1 .. n : c[k] = StepCircuit(steps[k])
  BY StepCircuitsAre
<1> HIDE DEF c, d
<1>5. IsList(e) /\ Len(e) = n + 1 /\ (\A k \in 1 .. n : e[k] = c[k]) /\ e[n + 1] = StepCircuit(s)
  BY <1>4, Appended
<1> HIDE DEF e, n
<1>6. ASSUME NEW k \in 1 .. n + 1 PROVE d[k] = e[k]
  <2>1. CASE k = n + 1
    BY <2>1, <1>2, <1>3, <1>5
  <2>2. CASE k # n + 1
    <3>1. k \in 1 .. n
      BY <2>2, <1>1
    <3> QED
      BY <3>1, <1>2, <1>3, <1>4, <1>5
  <2> QED
    BY <2>1, <2>2
<1>7. d = e
  BY <1>3, <1>5, <1>6, SameLists
<1> QED
  BY <1>7 DEF c, d, e, t

(* Nothing joined with a list is the list.                                 *)
LEMMA NothingBefore ==
  ASSUME NEW s, IsList(s)
  PROVE  <<>> \o s = s
<1>1. s \in Seq(Range(s))
  BY DEF IsList
<1> QED
  BY <1>1, ConcatEmptySeq

(* PushAll of internal circuits changes that list of a builder.            *)
LEMMA PushedCircuits ==
  ASSUME NEW c, NEW b, NEW i, NEW a, NEW ids, NEW x, x = c \o ObjectsOf(ids)
  PROVE  PushAll(Filled(c, b, i, a), "internal_circuits", ids) = Filled(x, b, i, a)
<1> DEFINE r == Filled(c, b, i, a)
<1>1. PushAll(r, "internal_circuits", ids) = [r EXCEPT !.internal_circuits = r.internal_circuits \o ObjectsOf(ids)]
  BY DEF PushAll, ObjectsOf
<1>2. r.internal_circuits \o ObjectsOf(ids) = x
  BY DEF Filled
<1>3. [r EXCEPT !.internal_circuits = x] = Filled(x, b, i, a)
  BY SMTT(60) DEF Filled
<1> HIDE DEF r
<1>4. PushAll(r, "internal_circuits", ids) = Filled(x, b, i, a)
  BY <1>1, <1>2, <1>3
<1> QED
  BY <1>4 DEF r

(* PushAll of bonding circuits changes that list of a builder.             *)
LEMMA PushedBonding ==
  ASSUME NEW c, NEW b, NEW i, NEW a, NEW ids, NEW x, x = b \o ObjectsOf(ids)
  PROVE  PushAll(Filled(c, b, i, a), "bonding", ids) = Filled(c, x, i, a)
<1> DEFINE r == Filled(c, b, i, a)
<1>1. PushAll(r, "bonding", ids) = [r EXCEPT !.bonding = r.bonding \o ObjectsOf(ids)]
  BY DEF PushAll, ObjectsOf
<1>2. r.bonding \o ObjectsOf(ids) = x
  BY DEF Filled
<1>3. [r EXCEPT !.bonding = x] = Filled(c, x, i, a)
  BY SMTT(30) DEF Filled
<1> HIDE DEF r
<1>4. PushAll(r, "bonding", ids) = Filled(c, x, i, a)
  BY <1>1, <1>2, <1>3
<1> QED
  BY <1>4 DEF r

(* PushAll of internal steps changes that list of a builder.               *)
LEMMA PushedSteps ==
  ASSUME NEW c, NEW b, NEW i, NEW a, NEW ids, NEW x, x = i \o ObjectsOf(ids)
  PROVE  PushAll(Filled(c, b, i, a), "internal_steps", ids) = Filled(c, b, x, a)
<1> DEFINE r == Filled(c, b, i, a)
<1>1. PushAll(r, "internal_steps", ids) = [r EXCEPT !.internal_steps = r.internal_steps \o ObjectsOf(ids)]
  BY DEF PushAll, ObjectsOf
<1>2. r.internal_steps \o ObjectsOf(ids) = x
  BY DEF Filled
<1>3. [r EXCEPT !.internal_steps = x] = Filled(c, b, x, a)
  BY SMTT(30) DEF Filled
<1> HIDE DEF r
<1>4. PushAll(r, "internal_steps", ids) = Filled(c, b, x, a)
  BY <1>1, <1>2, <1>3
<1> QED
  BY <1>4 DEF r

(* The native registry after register_all and the internal steps.          *)
InternalSteps == << <<"step", Internal(0)>>, <<"step", Internal(1)>> >>
FullBuilder(steps) ==
  Filled(ObjectsOf(NativeCircuits), ObjectsOf(NativeStages), ObjectsOf(InternalSteps), StepCircuits(steps))
NestedBuilder ==
  Filled(ObjectsOf(EndoscalingSteps), ObjectsOf(NestedBonding), <<>>, <<>>)

(* There are two internal steps.                                           *)
LEMMA TwoSteps == IsList(InternalSteps) /\ Len(InternalSteps) = 2
<1> DEFINE a == <<"step", Internal(0)>>
           b == <<"step", Internal(1)>>
           X == {a, b}
<1>1. a \in X /\ b \in X /\ InternalSteps = <<a, b>>
  BY DEF InternalSteps
<1> HIDE DEF a, b, X
<1>2. <<a, b>> \in Seq(X) /\ Len(<<a, b>>) = 2
  BY <1>1
<1> QED
  BY <1>1, <1>2, ListOf

(* What finalize registers on top of the application steps.                *)
LEMMA FullIs ==
  ASSUME NEW steps
  PROVE  PushAll(NativeRegisterAll(BuilderOf(steps)), "internal_steps",
                 << <<"step", Rerandomize(UnitHeader).index>>, <<"step", Trivial.index>> >>)
           = FullBuilder(steps)
<1> DEFINE n == ObjectsOf(NativeCircuits)
           m == ObjectsOf(NativeStages)
           t == ObjectsOf(InternalSteps)
           a == StepCircuits(steps)
           e == <<>>
<1>1. n = e \o n /\ m = e \o m /\ t = e \o t
  BY NativeNames, TwoSteps, ObjectsAre, NothingBefore
<1>2. << <<"step", Rerandomize(UnitHeader).index>>, <<"step", Trivial.index>> >> = InternalSteps
  BY DEF InternalSteps, Rerandomize, Trivial
<1>3. /\ BuilderOf(steps) = Filled(e, e, e, a) /\ FullBuilder(steps) = Filled(n, m, t, a)
      /\ n = ObjectsOf(NativeCircuits) /\ m = ObjectsOf(NativeStages) /\ t = ObjectsOf(InternalSteps)
  BY DEF BuilderOf, FullBuilder
<1> HIDE DEF n, m, t, a, e
<1>4. PushAll(Filled(e, e, e, a), "internal_circuits", NativeCircuits) = Filled(n, e, e, a)
  BY <1>1, <1>3, PushedCircuits, SMTT(30)
<1>5. PushAll(Filled(n, e, e, a), "bonding", NativeStages) = Filled(n, m, e, a)
  BY <1>1, <1>3, PushedBonding
<1>6. PushAll(Filled(n, m, e, a), "internal_steps", InternalSteps) = Filled(n, m, t, a)
  BY <1>1, <1>3, PushedSteps, SMTT(30)
<1> QED
  BY <1>2, <1>3, <1>4, <1>5, <1>6 DEF NativeRegisterAll

(* What finalize registers in the nested registry.                         *)
LEMMA NestedIs == NestedRegisterAll(EmptyBuilder) = NestedBuilder
<1> DEFINE n == ObjectsOf(EndoscalingSteps)
           m == ObjectsOf(NestedBonding)
           e == <<>>
<1>1. n = e \o n /\ m = e \o m
  BY NestedNames, ObjectsAre, NothingBefore
<1>2. /\ EmptyBuilder = Filled(e, e, e, e) /\ NestedBuilder = Filled(n, m, e, e)
      /\ n = ObjectsOf(EndoscalingSteps) /\ m = ObjectsOf(NestedBonding)
  BY DEF EmptyBuilder, Filled, NestedBuilder
<1> HIDE DEF n, m, e
<1>3. PushAll(Filled(e, e, e, e), "internal_circuits", EndoscalingSteps) = Filled(n, e, e, e)
  BY <1>1, <1>2, PushedCircuits
<1>4. PushAll(Filled(n, e, e, e), "bonding", NestedBonding) = Filled(n, m, e, e)
  BY <1>1, <1>2, PushedBonding
<1> QED
  BY <1>2, <1>3, <1>4 DEF NestedRegisterAll

(* The lists of a registry are its builder's, joined; it is not Nothing.   *)
LEMMA RegistryIs ==
  ASSUME NEW b
  PROVE  /\ Keyed(Provisional(b)).circuits = Concatenated(b)
         /\ Keyed(Provisional(b)).log2 = Log2Circuits(b)
         /\ Keyed(Provisional(b)) # Nothing
<1> DEFINE r == Provisional(b)
<1>1. DOMAIN r = {"log2", "circuits", "key", "omega_lookup"} /\ r.circuits = Concatenated(b) /\ r.log2 = Log2Circuits(b)
  BY DEF Provisional
<1> HIDE DEF r
<1>2. /\ Keyed(r).circuits = r.circuits /\ Keyed(r).log2 = r.log2 /\ "key" \in DOMAIN Keyed(r)
  BY <1>1 DEF Keyed
<1>3. DOMAIN Nothing = {}
  BY DEF Nothing
<1> QED
  BY <1>1, <1>2, <1>3 DEF r
-----------------------------------------------------------------------------
(* Where the circuits of the full registries are.                          *)
LEMMA FullHolds ==
  ASSUME NEW steps, IsList(steps)
  PROVE  /\ NativeHeld(Concatenated(FullBuilder(steps)), steps)
         /\ NumCircuits(FullBuilder(steps)) = TotalCircuits(Len(steps))
<1> DEFINE a == ObjectsOf(NativeCircuits)
           b == ObjectsOf(NativeStages)
           c == ObjectsOf(InternalSteps)
           d == StepCircuits(steps)
           n == Len(steps)
           s == a \o b \o c \o d
           all == NativeAll
<1>1. /\ IsList(a) /\ Len(a) = 5 /\ \A k \in 1 .. 5 : a[k] = ObjectOf(NativeCircuits[k])
      /\ IsList(b) /\ Len(b) = 8 /\ \A k \in 1 .. 8 : b[k] = ObjectOf(NativeStages[k])
      /\ IsList(c) /\ Len(c) = 2 /\ \A k \in 1 .. 2 : c[k] = ObjectOf(InternalSteps[k])
  BY NativeNames, TwoSteps, ObjectsAre
<1>2. IsList(d) /\ Len(d) = n /\ (\A k \in 1 .. n : d[k] = StepCircuit(steps[k])) /\ n \in Nat
  BY StepCircuitsAre, ListIs
<1>3. /\ Concatenated(FullBuilder(steps)) = s
      /\ NumCircuits(FullBuilder(steps)) = Len(a) + Len(b) + Len(c) + Len(d)
  BY DEF Concatenated, NumCircuits, FullBuilder, Filled
<1>4. InternalSteps[1] = <<"step", Internal(0)>> /\ InternalSteps[2] = <<"step", Internal(1)>>
  BY DEF InternalSteps
<1>5. /\ IsList(all) /\ Len(all) = 13
      /\ \A k \in 1 .. 5 : all[k] = NativeCircuits[k]
      /\ \A k \in 1 .. 8 : all[5 + k] = NativeStages[k]
  <2>1. /\ IsList(NativeCircuits) /\ IsList(NativeStages)
        /\ Len(NativeCircuits) = 5 /\ Len(NativeStages) = 8
    BY NativeNames
  <2> DEFINE u == NativeCircuits
             v == NativeStages
             t == u \o v
  <2> HIDE DEF u, v
  <2>2. IsList(u) /\ IsList(v) /\ Len(u) = 5 /\ Len(v) = 8
    BY <2>1 DEF u, v
  <2>3. /\ IsList(t) /\ Len(t) = Len(u) + Len(v)
        /\ \A k \in 1 .. Len(u) : t[k] = u[k]
        /\ \A k \in 1 .. Len(v) : t[Len(u) + k] = v[k]
    <3>1. IsList(u) /\ IsList(v)
      BY <2>2
    <3> QED
      BY ONLY <3>1, Joined
  <2>4. all = t
    BY DEF NativeAll, u, v
  <2> HIDE DEF all, t
  <2>5. /\ IsList(all) /\ Len(all) = 13
        /\ \A k \in 1 .. 5 : all[k] = u[k]
        /\ \A k \in 1 .. 8 : all[5 + k] = v[k]
    BY ONLY <2>2, <2>3, <2>4
  <2> QED
    BY <2>5 DEF u, v
<1> HIDE DEF a, b, c, d, n, s, all
<1>6. /\ \A k \in 1 .. 5 : s[k] = a[k]
      /\ \A k \in 1 .. 8 : s[5 + k] = b[k]
      /\ \A k \in 1 .. 2 : s[5 + 8 + k] = c[k]
      /\ \A k \in 1 .. n : s[5 + 8 + 2 + k] = d[k]
  <2>1. IsList(a) /\ IsList(b) /\ IsList(c) /\ IsList(d)
    BY <1>1, <1>2
  <2>2. Joins(((a \o b) \o c) \o d, a, b, c, d)
    BY ONLY <2>1, FourJoined
  <2>3. Joins(s, a, b, c, d)
    BY <2>2 DEF s
  <2> QED
    BY <2>3, <1>1, <1>2 DEF Joins
<1>7. Holds(s, all)
  <2> SUFFICES ASSUME NEW k \in 1 .. 13 PROVE s[k] = ObjectOf(all[k])
    BY <1>5 DEF Holds
  <2>1. CASE k <= 5
    <3>1. k \in 1 .. 5
      BY <2>1
    <3> QED
      BY <3>1, <1>1, <1>5, <1>6
  <2>2. CASE k > 5
    <3>1. PICK l \in 1 .. 8 : k = 5 + l
      <4>1. k - 5 \in 1 .. 8 /\ k = 5 + (k - 5)
        BY <2>2
      <4> QED
        BY <4>1
    <3>2. s[k] = b[l] /\ all[k] = NativeStages[l] /\ b[l] = ObjectOf(NativeStages[l])
      BY <3>1, <1>1, <1>5, <1>6
    <3> QED
      BY <3>2
  <2> QED
    BY <2>1, <2>2
<1>8. s[14] = ObjectOf(<<"step", Internal(0)>>) /\ s[15] = ObjectOf(<<"step", Internal(1)>>)
  <2>1. s[5 + 8 + 1] = c[1] /\ s[5 + 8 + 2] = c[2] /\ c[1] = ObjectOf(InternalSteps[1]) /\ c[2] = ObjectOf(InternalSteps[2])
    BY <1>1, <1>6
  <2>2. 5 + 8 + 1 = 14 /\ 5 + 8 + 2 = 15
    OBVIOUS
  <2> QED
    BY <2>1, <2>2, <1>4
<1>9. \A k \in 1 .. n : s[15 + k] = StepCircuit(steps[k])
  <2>1. 5 + 8 + 2 = 15
    OBVIOUS
  <2> QED
    BY <2>1, <1>2, <1>6
<1>10. NativeHeld(s, steps)
  BY <1>7, <1>8, <1>9 DEF NativeHeld, all, n
<1>11. Len(a) + Len(b) + Len(c) + Len(d) = TotalCircuits(n)
  BY <1>1, <1>2 DEF TotalCircuits, NUM_INTERNAL_STEPS, NativeNUM
<1> QED
  BY <1>3, <1>10, <1>11 DEF n

(* The nested registry has every circuit where its name is in NestedAll.   *)
LEMMA NestedHolds == Holds(Concatenated(NestedBuilder), NestedAll)
<1> DEFINE u == EndoscalingSteps
           v == NestedBonding
           a == ObjectsOf(u)
           b == ObjectsOf(v)
           s == a \o b
           all == u \o v
<1>1. IsList(u) /\ IsList(v)
  BY NestedNames
<1>2. Concatenated(NestedBuilder) = a \o b \o <<>> \o <<>> /\ NestedAll = all
  BY DEF Concatenated, NestedBuilder, Filled, NestedAll
<1> HIDE DEF u, v
<1>3. /\ IsList(a) /\ Len(a) = Len(u) /\ \A k \in 1 .. Len(u) : a[k] = ObjectOf(u[k])
      /\ IsList(b) /\ Len(b) = Len(v) /\ \A k \in 1 .. Len(v) : b[k] = ObjectOf(v[k])
  BY <1>1, ObjectsAre
<1> HIDE DEF a, b
<1>4. /\ IsList(s) /\ Len(s) = Len(a) + Len(b)
      /\ \A k \in 1 .. Len(a) : s[k] = a[k]
      /\ \A k \in 1 .. Len(b) : s[Len(a) + k] = b[k]
  BY <1>3, Joined
<1>5. /\ IsList(all) /\ Len(all) = Len(u) + Len(v)
      /\ \A k \in 1 .. Len(u) : all[k] = u[k]
      /\ \A k \in 1 .. Len(v) : all[Len(u) + k] = v[k]
  BY <1>1, Joined
<1>6. Len(u) \in Nat /\ Len(v) \in Nat
  BY <1>1, ListIs
<1>7. s \o <<>> = s
  <2>1. s \in Seq(Range(s))
    BY <1>4 DEF IsList
  <2> QED
    BY <2>1, ConcatEmptySeq
<1> HIDE DEF s, all
<1>8. ASSUME NEW k \in 1 .. Len(all) PROVE s[k] = ObjectOf(all[k])
  <2>1. CASE k <= Len(u)
    <3>1. k \in 1 .. Len(u)
      BY <2>1, <1>5, <1>6
    <3> QED
      BY <3>1, <1>3, <1>4, <1>5
  <2>2. CASE k > Len(u)
    <3>1. PICK l \in 1 .. Len(v) : k = Len(u) + l
      <4>1. k - Len(u) \in 1 .. Len(v) /\ k = Len(u) + (k - Len(u))
        BY <2>2, <1>5, <1>6
      <4> QED
        BY <4>1
    <3>2. s[k] = b[l] /\ all[k] = v[l] /\ b[l] = ObjectOf(v[l])
      BY <3>1, <1>3, <1>4, <1>5
    <3> QED
      BY <3>2
  <2> QED
    BY <2>1, <2>2, <1>6
<1>9. Holds(s, all)
  BY <1>8 DEF Holds
<1>10. Concatenated(NestedBuilder) = s
  BY <1>2, <1>7 DEF s
<1> QED
  BY <1>2, <1>9, <1>10
-----------------------------------------------------------------------------
(* The invariant holds initially.                                          *)
LEMMA InitRInv == Init => RInv
<1> SUFFICES ASSUME Init PROVE RInv
  OBVIOUS
<1>1. /\ accepted = <<>> /\ num_application_steps = 0 /\ builder = EmptyBuilder
      /\ registry = Nothing /\ nested.builder = EmptyBuilder
  BY DEF Init, InitApplication, InitRegistry
<1>2. IsList(<<>>) /\ Len(<<>>) = 0
  <2>1. <<>> \in Seq({}) /\ Len(<<>>) = 0
    OBVIOUS
  <2> QED
    BY <2>1, ListOf
<1>3. StepsOk(header_map, <<>>)
  BY <1>2 DEF StepsOk
<1>4. StepCircuits(<<>>) = <<>>
  BY <1>2 DEF StepCircuits
<1>5. EmptyBuilder = BuilderOf(<<>>)
  BY <1>4 DEF EmptyBuilder, BuilderOf, Filled
<1> QED
  BY <1>1, <1>2, <1>3, <1>5 DEF RInv, OpenOk, Finalized

(* Registering a step: the accepted ones and the map grow together.        *)
LEMMA StepsGrow ==
  ASSUME NEW map, NEW steps, StepsOk(map, steps), NEW s \in AppSteps,
         s.index = UserDefined(Len(steps)), SuffixesAfter(map, s).ok, AdapterFits(s)
  PROVE  StepsOk(SuffixesAfter(map, s).map, Append(steps, s))
<1> DEFINE after == SuffixesAfter(map, s).map
           t     == Append(steps, s)
           n     == Len(steps)
<1>1. /\ Recalls(after, s.left) /\ Recalls(after, s.right) /\ Recalls(after, s.output)
      /\ \A g : Recalls(map, g) => Recalls(after, g)
  BY SeesStep
<1>2. IsList(steps) /\ n \in Nat /\ s.index = UserDefined(n)
  BY ListIs DEF StepsOk
<1>3. IsList(t) /\ Len(t) = n + 1 /\ (\A k \in 1 .. n : t[k] = steps[k]) /\ t[n + 1] = s
  BY <1>2, Appended
<1> HIDE DEF after, t
<1>4. StepOk(after, s)
  BY <1>1 DEF StepOk, HeaderOk, HeaderTypes, AdapterFits
<1>5. ASSUME NEW k \in 1 .. n PROVE steps[k].index = UserDefined(k - 1) /\ StepOk(after, steps[k])
  <2>1. steps[k].index = UserDefined(k - 1) /\ StepOk(map, steps[k])
    BY DEF StepsOk
  <2> QED
    BY <2>1, <1>1 DEF StepOk, HeaderOk
<1> HIDE DEF n
<1>6. ASSUME NEW k \in 1 .. n + 1 PROVE t[k].index = UserDefined(k - 1) /\ StepOk(after, t[k])
  <2>1. CASE k = n + 1
    <3>1. k - 1 = n /\ t[k] = s
      BY <2>1, <1>2, <1>3
    <3> QED
      BY <3>1, <1>2, <1>4
  <2>2. CASE k # n + 1
    <3>1. k \in 1 .. n
      BY <2>2, <1>2
    <3>2. t[k] = steps[k]
      BY <3>1, <1>3
    <3> QED
      BY <3>1, <3>2, <1>5
  <2> QED
    BY <2>1, <2>2
<1>7. StepsOk(after, t)
  BY <1>3, <1>6 DEF StepsOk
<1> QED
  BY <1>7 DEF after, t

(* Registering a step, accepted or refused, keeps the invariant.           *)
LEMMA RegisterKeeps ==
  ASSUME RInv, client = "application", client' = client, NEW s \in AppSteps, Register(s),
         accepted' = IF failed' THEN accepted ELSE Append(accepted, s)
  PROVE  RInv'
<1>1. /\ StepsOk(header_map, accepted) /\ num_application_steps = Len(accepted)
      /\ Open /\ OpenOk /\ registry = Nothing /\ ~failed
      /\ UNCHANGED <<registry, hashes_log2, nested>>
  BY DEF RInv, Register, Open
<1>2. ~Finalized'
  BY <1>1 DEF Finalized
<1>3. CASE s.index = UserDefined(num_application_steps) /\ SuffixesAfter(header_map, s).ok /\ AdapterFits(s)
  <2>1. /\ builder' = WithObject(builder, "application_steps", StepCircuit(s))
        /\ num_application_steps' = num_application_steps + 1
        /\ header_map' = SuffixesAfter(header_map, s).map
        /\ failed' = failed
    BY <1>3 DEF Register
  <2>2. accepted' = Append(accepted, s)
    BY <1>1, <2>1
  <2>3. StepsOk(header_map', accepted')
    BY <1>1, <1>3, <2>1, <2>2, StepsGrow
  <2>4. IsList(accepted) /\ Len(accepted') = Len(accepted) + 1
    BY <1>1, <2>2, Appended DEF StepsOk
  <2>5. builder' = BuilderOf(accepted')
    <3> DEFINE c == StepCircuits(accepted)
               d == Append(c, StepCircuit(s))
    <3>1. StepCircuits(accepted') = d
      BY <2>2, <2>4, StepCircuitsGrow
    <3>2. builder = Filled(<<>>, <<>>, <<>>, c)
      BY <1>1 DEF OpenOk, BuilderOf
    <3> HIDE DEF c
    <3>3. builder' = [builder EXCEPT !.application_steps = Append(builder.application_steps, StepCircuit(s))]
      BY <2>1 DEF WithObject
    <3>4. Append(builder.application_steps, StepCircuit(s)) = d
      BY <3>2 DEF Filled
    <3> HIDE DEF d
    <3>5. builder' = [builder EXCEPT !.application_steps = d]
      BY <3>3, <3>4
    <3>6. builder' = Filled(<<>>, <<>>, <<>>, d)
      BY <3>2, <3>5 DEF Filled
    <3> QED
      BY <3>1, <3>6 DEF BuilderOf
  <2>6. OpenOk'
    BY <1>1, <2>5 DEF OpenOk
  <2> QED
    BY <1>1, <1>2, <2>1, <2>3, <2>4, <2>6 DEF RInv
<1>4. CASE ~(s.index = UserDefined(num_application_steps) /\ SuffixesAfter(header_map, s).ok /\ AdapterFits(s))
  <2>1. failed' = TRUE /\ UNCHANGED <<builder, num_application_steps, header_map>>
    BY <1>4 DEF Register
  <2>2. accepted' = accepted /\ ~Open'
    BY <2>1 DEF Open
  <2> QED
    BY <1>1, <1>2, <2>1, <2>2 DEF RInv
<1> QED
  BY <1>3, <1>4

(* What finalize builds.                                                   *)
LEMMA FinalizeIs ==
  ASSUME RInv, client = "application", FinalizeApplication
  PROVE  LET full == FullBuilder(accepted)
             log2 == Log2Ceil(TotalCircuits(num_application_steps))
         IN  /\ Open /\ UNCHANGED <<header_map, num_application_steps>>
             /\ NumCircuits(full) = TotalCircuits(num_application_steps)
             /\ Log2Circuits(full) = log2
             /\ IF InternalsFit /\ NumCircuits(full) <= NumCoeffs /\ NumCircuits(NestedBuilder) <= NumCoeffs
                  THEN /\ hashes_log2' = log2
                       /\ registry' = Keyed(Provisional(full))
                       /\ nested'.registry = Keyed(Provisional(NestedBuilder))
                       /\ UNCHANGED failed
                  ELSE failed' = TRUE /\ UNCHANGED registry
<1> DEFINE full == FullBuilder(accepted)
           log2 == Log2Ceil(TotalCircuits(num_application_steps))
<1>1. Open /\ StepsOk(header_map, accepted) /\ num_application_steps = Len(accepted)
  BY DEF RInv, FinalizeApplication
<1>2. builder = BuilderOf(accepted) /\ nested.builder = EmptyBuilder
  BY <1>1 DEF RInv, OpenOk
<1>3. NumCircuits(full) = TotalCircuits(num_application_steps)
  BY <1>1, FullHolds DEF StepsOk
<1>4. Log2Circuits(full) = log2
  BY <1>3 DEF Log2Circuits
<1>5. PushAll(NativeRegisterAll(builder), "internal_steps",
              << <<"step", Rerandomize(UnitHeader).index>>, <<"step", Trivial.index>> >>) = full
  BY <1>2, FullIs
<1>6. NestedRegisterAll(nested.builder) = NestedBuilder
  BY <1>2, NestedIs
<1> HIDE DEF full, log2
<1>7. /\ UNCHANGED <<header_map, num_application_steps>>
      /\ IF /\ InternalsFit
            /\ Log2Circuits(full) = log2
            /\ NumCircuits(full) = TotalCircuits(num_application_steps)
            /\ NumCircuits(full) <= NumCoeffs /\ NumCircuits(NestedBuilder) <= NumCoeffs
           THEN /\ builder' = full /\ hashes_log2' = log2
                /\ registry' = Keyed(Provisional(full))
                /\ nested' = [builder |-> NestedBuilder, registry |-> Keyed(Provisional(NestedBuilder))]
                /\ UNCHANGED failed
           ELSE failed' = TRUE /\ UNCHANGED <<builder, hashes_log2, registry, nested>>
  BY <1>5, <1>6 DEF FinalizeApplication, log2
<1>8. IF InternalsFit /\ NumCircuits(full) <= NumCoeffs /\ NumCircuits(NestedBuilder) <= NumCoeffs
        THEN /\ hashes_log2' = log2
             /\ registry' = Keyed(Provisional(full))
             /\ nested'.registry = Keyed(Provisional(NestedBuilder))
             /\ UNCHANGED failed
        ELSE failed' = TRUE /\ UNCHANGED registry
  BY <1>3, <1>4, <1>7
<1> QED
  BY <1>1, <1>3, <1>4, <1>7, <1>8 DEF full, log2

(* Finalizing keeps the invariant: registries are complete, or refused.    *)
LEMMA FinalizeKeeps ==
  ASSUME RInv, client = "application", FinalizeApplication, UNCHANGED <<client, accepted>>
  PROVE  RInv'
<1> DEFINE full == FullBuilder(accepted)
           log2 == Log2Ceil(TotalCircuits(num_application_steps))
<1>1. /\ Open /\ UNCHANGED <<header_map, num_application_steps>>
      /\ Log2Circuits(full) = log2
      /\ IF InternalsFit /\ NumCircuits(full) <= NumCoeffs /\ NumCircuits(NestedBuilder) <= NumCoeffs
           THEN /\ hashes_log2' = log2
                /\ registry' = Keyed(Provisional(full))
                /\ nested'.registry = Keyed(Provisional(NestedBuilder))
           ELSE failed' = TRUE /\ UNCHANGED registry
  BY FinalizeIs
<1>2. StepsOk(header_map', accepted') /\ num_application_steps' = Len(accepted')
  BY <1>1 DEF RInv
<1>3. NativeHeld(Concatenated(full), accepted)
  BY FullHolds DEF RInv, StepsOk
<1> HIDE DEF full, log2
<1>4. CASE InternalsFit /\ NumCircuits(full) <= NumCoeffs /\ NumCircuits(NestedBuilder) <= NumCoeffs
  <2>1. /\ registry'.circuits = Concatenated(full) /\ registry'.log2 = log2 /\ registry' # Nothing
        /\ nested'.registry.circuits = Concatenated(NestedBuilder)
        /\ hashes_log2' = log2
    BY <1>1, <1>4, RegistryIs
  <2>2. ~Open'
    BY <2>1 DEF Open
  <2>3. FinalOk'
    BY <2>1, <1>3, NestedHolds DEF FinalOk
  <2> QED
    BY <1>2, <2>2, <2>3 DEF RInv
<1>5. CASE ~(InternalsFit /\ NumCircuits(full) <= NumCoeffs /\ NumCircuits(NestedBuilder) <= NumCoeffs)
  <2>1. failed' = TRUE /\ registry' = registry
    BY <1>1, <1>5
  <2>2. ~Open' /\ ~Finalized'
    BY <2>1, <1>1 DEF Open, Finalized
  <2> QED
    BY <1>2, <2>2 DEF RInv
<1> QED
  BY <1>4, <1>5

(* Every step keeps the invariant.                                         *)
LEMMA NextRInv == RInv /\ [Next]_vars => RInv'
<1> SUFFICES ASSUME RInv, [Next]_vars PROVE RInv'
  OBVIOUS
<1>1. CASE DirectNext
  BY <1>1 DEF RInv, DirectNext
<1>2. CASE DirectFinalize
  BY <1>2 DEF RInv, DirectFinalize
<1>3. CASE AppRegister
  <2>1. client = "application" /\ client' = client
    BY <1>3 DEF AppRegister
  <2>2. PICK s \in AppSteps : Register(s) /\ accepted' = IF failed' THEN accepted ELSE Append(accepted, s)
    BY <1>3 DEF AppRegister
  <2> QED
    BY <2>1, <2>2, RegisterKeeps
<1>4. CASE AppFinalize
  BY <1>4, FinalizeKeeps DEF AppFinalize
<1>5. CASE UNCHANGED vars
  BY <1>5 DEF vars, registryVars, applicationVars, RInv, Open, OpenOk, Finalized, FinalOk
<1> QED
  BY <1>1, <1>2, <1>3, <1>4, <1>5 DEF Next

(* The invariant puts every circuit where its index says.                  *)
LEMMA StepsFound == RInv => StepsFindTheirCircuits
<1> SUFFICES ASSUME RInv, client = "application", Finalized PROVE StepsFindTheirCircuits
  BY DEF StepsFindTheirCircuits
<1> DEFINE n == Len(accepted)
<1>1. /\ FinalOk /\ IsList(accepted) /\ num_application_steps = n
      /\ \A k \in 1 .. n : accepted[k].index = UserDefined(k - 1)
      /\ n \in Nat /\ DOMAIN accepted = 1 .. n
  BY ListIs DEF RInv, StepsOk
<1>2. ASSUME NEW k \in DOMAIN NativeAll
      PROVE  registry.circuits[NativeCircuitIndex(NativeAll[k]) + 1] = ObjectOf(NativeAll[k])
  <2>1. IsList(NativeAll)
    BY NativeNames, Joined DEF NativeAll
  <2> QED
    BY <2>1, <1>1, HoldsFound DEF FinalOk, NativeHeld, NativeCircuitIndex
<1>3. ASSUME NEW k \in DOMAIN NestedAll
      PROVE  nested.registry.circuits[NestedCircuitIndex(NestedAll[k]) + 1] = ObjectOf(NestedAll[k])
  <2>1. IsList(NestedAll)
    BY NestedNames, Joined DEF NestedAll
  <2> QED
    BY <2>1, <1>1, HoldsFound DEF FinalOk, NestedCircuitIndex
<1>4. ASSUME NEW s \in {Rerandomize(h) : h \in AcceptedHeaders} \cup {Trivial} \cup AcceptedSteps
      PROVE  registry.circuits[StepCircuitIndex(s.index, num_application_steps) + 1] = StepCircuit(s)
  <2>1. /\ registry.circuits[14] = ObjectOf(<<"step", Internal(0)>>)
        /\ registry.circuits[15] = ObjectOf(<<"step", Internal(1)>>)
        /\ \A k \in 1 .. n : registry.circuits[15 + k] = StepCircuit(accepted[k])
    BY <1>1 DEF FinalOk, NativeHeld
  <2>2. CASE s.index = Internal(0)
    <3>1. StepCircuitIndex(s.index, num_application_steps) + 1 = 14
      BY <2>2 DEF StepCircuitIndex, Internal, NativeNUM
    <3> QED
      BY <3>1, <2>1, <2>2 DEF StepCircuit
  <2>3. CASE s.index = Internal(1)
    <3>1. StepCircuitIndex(s.index, num_application_steps) + 1 = 15
      BY <2>3 DEF StepCircuitIndex, Internal, NativeNUM
    <3> QED
      BY <3>1, <2>1, <2>3 DEF StepCircuit
  <2>4. CASE s \in AcceptedSteps
    <3>1. PICK k \in 1 .. n : s = accepted[k]
      BY <2>4, <1>1 DEF AcceptedSteps
    <3>2. s.index = UserDefined(k - 1) /\ k - 1 < num_application_steps /\ k - 1 \in Nat
      BY <3>1, <1>1
    <3>3. StepCircuitIndex(s.index, num_application_steps) + 1 = 15 + k
      BY <3>2 DEF StepCircuitIndex, UserDefined, NativeNUM, NUM_INTERNAL_STEPS
    <3> QED
      BY <3>1, <3>3, <2>1
  <2> QED
    BY <2>2, <2>3, <2>4 DEF Rerandomize, Trivial
<1>5. StepCircuitIndex(UserDefined(n), num_application_steps) = -1
  BY <1>1 DEF StepCircuitIndex, UserDefined
<1>6. hashes_log2 = registry.log2
  BY <1>1 DEF FinalOk
<1> QED
  BY <1>2, <1>3, <1>4, <1>5, <1>6 DEF StepsFindTheirCircuits

(* The invariant, of every behaviour.                                      *)
LEMMA Invariance == Spec => []RInv
<1>1. Init => RInv
  BY InitRInv
<1>2. RInv /\ [Next]_vars => RInv'
  BY NextRInv
<1> QED
  BY <1>1, <1>2, PTL DEF Spec

(* Whatever steps an application registers, every circuit of both finalized *)
(* registries is where its index says (StepsFindTheirCircuits; lib.rs       *)
(* register and finalize, native/mod.rs, nested/mod.rs, step/mod.rs).       *)
THEOREM StepsFind == Spec => []StepsFindTheirCircuits
<1>1. Spec => []RInv
  BY Invariance
<1>2. RInv => StepsFindTheirCircuits
  BY StepsFound
<1> QED
  BY <1>1, <1>2, PTL

(* Whatever steps are accepted, an encoding names one header type and one  *)
(* value, and rerandomization is one circuit (EncodingsIdentifyHeaders;    *)
(* lib.rs prevent_duplicate_suffixes, padded.rs, rerandomize.rs).          *)
THEOREM EncodingsIdentify == Spec => []EncodingsIdentifyHeaders
<1>1. Spec => []RInv
  BY Invariance
<1>2. RInv => EncodingsIdentifyHeaders
  BY EncodingsHold DEF RInv
<1> QED
  BY <1>1, <1>2, PTL

(* The nested registry has the circuits of its list.                       *)
LEMMA NestedCount == NumCircuits(NestedBuilder) = Len(NestedAll)
<1> DEFINE u == EndoscalingSteps
           v == NestedBonding
<1>1. NestedAll = u \o v /\ IsList(u) /\ IsList(v)
  BY NestedNames DEF NestedAll
<1>2. Len(ObjectsOf(u)) = Len(u) /\ Len(ObjectsOf(v)) = Len(v)
  BY <1>1, ObjectsAre
<1>3. NumCircuits(NestedBuilder) = Len(ObjectsOf(u)) + Len(ObjectsOf(v)) + 0 + 0
  BY DEF NumCircuits, NestedBuilder, Filled
<1> HIDE DEF u, v
<1>4. Len(u) \in Nat /\ Len(v) \in Nat /\ Len(u \o v) = Len(u) + Len(v)
  BY <1>1, Joined, ListIs
<1> QED
  BY <1>1, <1>2, <1>3, <1>4

(* An application whose internal circuits fit the rank is refused only     *)
(* when a registry would have more circuits than fit.                      *)
FinalizeRefusal ==
  InternalsFit /\ AppFinalize /\ failed' =>
    ~(TotalCircuits(num_application_steps) <= NumCoeffs /\ Len(NestedAll) <= NumCoeffs)

(* The asserts of finalize about the number of circuits never fail, after  *)
(* any registrations (lib.rs finalize, native/mod.rs total_circuit_counts).*)
THEOREM FinalizeAsserts == Spec => [][FinalizeRefusal]_vars
<1>1. RInv /\ [Next]_vars => [FinalizeRefusal]_vars
  <2> SUFFICES ASSUME RInv, InternalsFit, AppFinalize, failed'
               PROVE  ~(TotalCircuits(num_application_steps) <= NumCoeffs /\ Len(NestedAll) <= NumCoeffs)
    BY DEF FinalizeRefusal
  <2> DEFINE full == FullBuilder(accepted)
  <2>1. /\ Open /\ NumCircuits(full) = TotalCircuits(num_application_steps)
        /\ NumCircuits(full) <= NumCoeffs /\ NumCircuits(NestedBuilder) <= NumCoeffs => UNCHANGED failed
    BY FinalizeIs DEF AppFinalize
  <2> HIDE DEF full
  <2>2. ~failed
    BY <2>1 DEF Open
  <2> QED
    BY <2>1, <2>2, NestedCount
<1>2. Spec => []RInv
  BY Invariance
<1> QED
  BY <1>1, <1>2, PTL DEF Spec
-----------------------------------------------------------------------------
(* Sparse polynomials.  A block, and blocks in their order below degree n. *)
Block == Nat \X Seq(F)
BlocksOk(blocks, n) ==
  /\ blocks \in Seq(Block)
  /\ \A i \in DOMAIN blocks : blocks[i][2] # <<>> /\ EndOf(blocks[i]) <= n
  /\ \A i, j \in DOMAIN blocks : i < j => EndOf(blocks[i]) <= StartOf(blocks[j])
Covers(block, d) == StartOf(block) <= d /\ d < EndOf(block)

(* The field's own elements.                                               *)
LEMMA Elements ==
  /\ P \in Nat /\ P >= 2 /\ 0 \in F /\ F \subseteq Nat /\ NumCoeffs \in Nat \ {0}
  /\ \A c \in Int : c % P \in F
  /\ \A a, b \in F : Plus(a, b) \in F /\ Times(a, b) \in F /\ Minus(a, b) \in F
<1>1. P \in Nat /\ P >= 2 /\ N \in Nat \ {0}
  BY FieldAssumption DEF IsPrime
<1>2. \A c \in Int : c % P \in F
  BY <1>1 DEF F
<1>3. \A a, b \in F : a + b \in Int /\ a * b \in Int /\ a + P - b \in Int
  BY <1>1 DEF F
<1>4. \A a, b \in F : Plus(a, b) \in F /\ Times(a, b) \in F /\ Minus(a, b) \in F
  BY <1>2, <1>3 DEF Plus, Times, Minus
<1> QED
  BY <1>1, <1>2, <1>4 DEF F, NumCoeffs

(* What a block is.                                                        *)
LEMMA BlockIs ==
  ASSUME NEW b \in Block
  PROVE  /\ b[1] \in Nat /\ b[2] \in Seq(F) /\ b = <<b[1], b[2]>> /\ Len(b[2]) \in Nat
         /\ StartOf(b) = b[1] /\ EndOf(b) = b[1] + Len(b[2]) /\ EndOf(b) \in Nat
         /\ b[2] # <<>> => StartOf(b) < EndOf(b)
         /\ \A d \in Nat : Covers(b, d) => b[2][d - b[1] + 1] \in F
<1>1. b[1] \in Nat /\ b[2] \in Seq(F) /\ b = <<b[1], b[2]>>
  BY DEF Block
<1>2. Len(b[2]) \in Nat /\ (b[2] # <<>> => Len(b[2]) > 0)
  BY <1>1, EmptySeq
<1>3. StartOf(b) = b[1] /\ EndOf(b) = b[1] + Len(b[2])
  BY DEF StartOf, EndOf
<1>4. ASSUME NEW d \in Nat, Covers(b, d) PROVE b[2][d - b[1] + 1] \in F
  <2>1. d - b[1] + 1 \in 1 .. Len(b[2])
    BY <1>1, <1>2, <1>3, <1>4 DEF Covers
  <2> QED
    BY <2>1, <1>1, ElementOfSeq
<1> QED
  BY <1>1, <1>2, <1>3, <1>4

(* What blocks are.                                                        *)
LEMMA BlocksAre ==
  ASSUME NEW bs, NEW n, BlocksOk(bs, n)
  PROVE  /\ IsList(bs) /\ Len(bs) \in Nat /\ DOMAIN bs = 1 .. Len(bs)
         /\ \A i \in 1 .. Len(bs) : bs[i] \in Block /\ bs[i][2] # <<>> /\ EndOf(bs[i]) <= n
                                    /\ StartOf(bs[i]) \in Nat /\ EndOf(bs[i]) \in Nat
                                    /\ StartOf(bs[i]) < EndOf(bs[i])
         /\ \A i, j \in 1 .. Len(bs) : i < j => EndOf(bs[i]) <= StartOf(bs[j])
<1>1. bs \in Seq(Block)
  BY DEF BlocksOk
<1>2. IsList(bs) /\ Len(bs) \in Nat /\ DOMAIN bs = 1 .. Len(bs)
  BY <1>1, ListOf, ListIs
<1>3. \A i \in 1 .. Len(bs) : bs[i] \in Block
  BY <1>1, ElementOfSeq
<1>4. \A i \in 1 .. Len(bs) : bs[i][2] # <<>> /\ EndOf(bs[i]) <= n
  BY <1>2 DEF BlocksOk
<1>5. \A i \in 1 .. Len(bs) : /\ StartOf(bs[i]) \in Nat /\ EndOf(bs[i]) \in Nat
                              /\ StartOf(bs[i]) < EndOf(bs[i])
  BY <1>3, <1>4, BlockIs
<1> QED
  BY <1>2, <1>3, <1>4, <1>5 DEF BlocksOk

(* At most one block covers a degree.                                      *)
LEMMA OneCovers ==
  ASSUME NEW bs, NEW n, BlocksOk(bs, n), NEW d \in Nat,
         NEW i \in 1 .. Len(bs), NEW j \in 1 .. Len(bs), Covers(bs[i], d), Covers(bs[j], d)
  PROVE  i = j
<1>1. /\ \A k \in {i, j} : StartOf(bs[k]) \in Nat /\ EndOf(bs[k]) \in Nat
      /\ i < j => EndOf(bs[i]) <= StartOf(bs[j])
      /\ j < i => EndOf(bs[j]) <= StartOf(bs[i])
      /\ Len(bs) \in Nat
  BY BlocksAre
<1>2. ~ (i < j) /\ ~ (j < i)
  BY <1>1 DEF Covers
<1> QED
  BY <1>1, <1>2

(* The coefficient stored where a block covers the degree, and where none  *)
(* does.                                                                   *)
LEMMA StoredIs ==
  ASSUME NEW bs, NEW n, BlocksOk(bs, n), NEW d \in Nat
  PROVE  /\ \A i \in 1 .. Len(bs) : Covers(bs[i], d) => StoredAt(bs, d) = bs[i][2][d - bs[i][1] + 1]
         /\ (\A i \in 1 .. Len(bs) : ~ Covers(bs[i], d)) => StoredAt(bs, d) = 0
         /\ StoredAt(bs, d) \in F
<1> DEFINE at == { i \in DOMAIN bs : StartOf(bs[i]) <= d /\ d < EndOf(bs[i]) }
           c  == CHOOSE i \in at : TRUE
<1>1. DOMAIN bs = 1 .. Len(bs)
  BY BlocksAre
<1>2. \A i : i \in at <=> i \in 1 .. Len(bs) /\ Covers(bs[i], d)
  BY <1>1 DEF Covers
<1>3. StoredAt(bs, d) = IF at = {} THEN 0 ELSE bs[c][2][d - bs[c][1] + 1]
  BY DEF StoredAt
<1>4. at # {} => c \in at
  OBVIOUS
<1> HIDE DEF at, c
<1>5. ASSUME NEW i \in 1 .. Len(bs), Covers(bs[i], d)
      PROVE  StoredAt(bs, d) = bs[i][2][d - bs[i][1] + 1]
  <2>1. at # {} /\ c \in 1 .. Len(bs) /\ Covers(bs[c], d)
    BY <1>2, <1>4, <1>5
  <2>2. c = i
    BY <2>1, <1>5, OneCovers
  <2> QED
    BY <2>1, <2>2, <1>3
<1>6. ASSUME \A i \in 1 .. Len(bs) : ~ Covers(bs[i], d) PROVE StoredAt(bs, d) = 0
  BY <1>2, <1>3, <1>6
<1>7. StoredAt(bs, d) \in F
  <2>1. CASE \E i \in 1 .. Len(bs) : Covers(bs[i], d)
    <3>1. PICK i \in 1 .. Len(bs) : Covers(bs[i], d)
      BY <2>1
    <3>2. bs[i] \in Block
      BY BlocksAre
    <3> QED
      BY <3>1, <3>2, <1>5, BlockIs
  <2>2. CASE \A i \in 1 .. Len(bs) : ~ Covers(bs[i], d)
    BY <2>2, <1>6, Elements
  <2> QED
    BY <2>1, <2>2
<1> QED
  BY <1>5, <1>6, <1>7

(* Nothing is stored above the blocks.                                     *)
LEMMA StoredAbove ==
  ASSUME NEW bs, NEW n \in Nat, BlocksOk(bs, n), NEW d \in Nat, d >= n
  PROVE  StoredAt(bs, d) = 0
<1>1. \A i \in 1 .. Len(bs) : ~ Covers(bs[i], d)
  <2> SUFFICES ASSUME NEW i \in 1 .. Len(bs) PROVE ~ Covers(bs[i], d)
    OBVIOUS
  <2>1. EndOf(bs[i]) <= n /\ EndOf(bs[i]) \in Nat
    BY BlocksAre
  <2> QED
    BY <2>1 DEF Covers
<1> QED
  BY <1>1, StoredIs

(* Blocks below a degree are below a higher one.                           *)
LEMMA BlocksBelow ==
  ASSUME NEW bs, NEW n \in Nat, NEW m \in Nat, n <= m, BlocksOk(bs, n)
  PROVE  BlocksOk(bs, m)
<1>1. ASSUME NEW i \in DOMAIN bs PROVE bs[i][2] # <<>> /\ EndOf(bs[i]) <= m
  <2>1. EndOf(bs[i]) \in Nat /\ EndOf(bs[i]) <= n /\ bs[i][2] # <<>>
    BY BlocksAre
  <2> QED
    BY <2>1
<1> QED
  BY <1>1 DEF BlocksOk

(* No blocks are the zero polynomial.                                      *)
LEMMA NoBlocks ==
  ASSUME NEW n \in Nat
  PROVE  BlocksOk(<<>>, n) /\ \A d \in Nat : StoredAt(<<>>, d) = 0
BY DEF BlocksOk, StoredAt

(* The polynomials that keep the code's invariants.                        *)
Sparse == { bs \in Seq(Block) : InvariantsHold(bs) }

(* Adjacent blocks in order are all blocks in order, as none is empty.     *)
LEMMA SparseAre ==
  \A bs : bs \in Sparse <=> BlocksOk(bs, NumCoeffs)
<1>1. ASSUME NEW bs, BlocksOk(bs, NumCoeffs) PROVE bs \in Sparse
  <2>1. bs \in Seq(Block) /\ Len(bs) \in Nat /\ DOMAIN bs = 1 .. Len(bs)
    BY <1>1, BlocksAre DEF BlocksOk
  <2>2. ASSUME NEW i \in 2 .. Len(bs) PROVE StartOf(bs[i]) >= EndOf(bs[i - 1])
    <3>1. i - 1 \in DOMAIN bs /\ i \in DOMAIN bs /\ i - 1 < i /\ i - 1 \in 1 .. Len(bs) /\ i \in 1 .. Len(bs)
      BY <2>1
    <3>2. EndOf(bs[i - 1]) <= StartOf(bs[i])
      BY <1>1, <3>1 DEF BlocksOk
    <3>3. EndOf(bs[i - 1]) \in Nat /\ StartOf(bs[i]) \in Nat
      BY <1>1, <3>1, BlocksAre
    <3> QED
      BY <3>2, <3>3
  <2> QED
    BY <1>1, <2>1, <2>2 DEF Sparse, InvariantsHold, BlocksOk
<1>2. ASSUME NEW bs \in Sparse PROVE BlocksOk(bs, NumCoeffs)
  <2> DEFINE l == Len(bs)
  <2>1. /\ bs \in Seq(Block) /\ l \in Nat /\ DOMAIN bs = 1 .. l
        /\ \A i \in 1 .. l : bs[i][2] # <<>> /\ EndOf(bs[i]) <= NumCoeffs
        /\ \A i \in 2 .. l : StartOf(bs[i]) >= EndOf(bs[i - 1])
    BY DEF Sparse, InvariantsHold
  <2> HIDE DEF l
  <2>2. \A i \in 1 .. l : StartOf(bs[i]) \in Nat /\ EndOf(bs[i]) \in Nat /\ StartOf(bs[i]) < EndOf(bs[i])
    <3>1. \A i \in 1 .. l : bs[i] \in Block
      BY <2>1, ElementOfSeq DEF l
    <3> QED
      BY <2>1, <3>1, BlockIs
  <2>3. ASSUME NEW i \in 1 .. l, NEW j \in 1 .. l, i < j PROVE EndOf(bs[i]) <= StartOf(bs[j])
    <3> DEFINE T == { k \in i + 1 .. l : EndOf(bs[i]) <= StartOf(bs[k]) }
    <3>1. i + 1 \in T
      <4>1. i + 1 \in 2 .. l /\ i + 1 \in 1 .. l /\ i + 1 \in i + 1 .. l /\ (i + 1) - 1 = i
        BY <2>1, <2>3
      <4>2. StartOf(bs[i + 1]) >= EndOf(bs[i])
        BY <2>1, <4>1
      <4>3. EndOf(bs[i]) \in Nat /\ StartOf(bs[i + 1]) \in Nat
        BY <2>2, <4>1
      <4>4. EndOf(bs[i]) <= StartOf(bs[i + 1])
        BY <4>2, <4>3
      <4> QED
        BY <4>1, <4>4
    <3>2. ASSUME NEW k \in (i + 1) + 1 .. l, k - 1 \in T PROVE k \in T
      <4>1. k \in 2 .. l /\ k \in 1 .. l /\ k - 1 \in 1 .. l /\ k \in i + 1 .. l
        BY <2>1
      <4>2. EndOf(bs[i]) <= StartOf(bs[k - 1]) /\ StartOf(bs[k]) >= EndOf(bs[k - 1])
        BY <2>1, <3>2, <4>1
      <4>3. /\ EndOf(bs[i]) \in Nat /\ StartOf(bs[k - 1]) \in Nat /\ EndOf(bs[k - 1]) \in Nat
            /\ StartOf(bs[k]) \in Nat /\ StartOf(bs[k - 1]) < EndOf(bs[k - 1])
        BY <2>2, <4>1
      <4>4. EndOf(bs[i]) <= StartOf(bs[k])
        BY <4>2, <4>3
      <4> QED
        BY <4>1, <4>4
    <3> HIDE DEF T
    <3>3. i + 1 \in Int /\ l \in Int /\ j \in i + 1 .. l
      BY <2>1, <2>3
    <3>4. j \in T
      BY <3>1, <3>2, <3>3, Interval
    <3> QED
      BY <3>4 DEF T
  <2> QED
    BY <2>1, <2>3 DEF BlocksOk
<1> QED
  BY <1>1, <1>2

(* A new last block.                                                       *)
Behind(new, bs, s, vals) == new = Append(bs, <<s, vals>>)

(* A block put behind the others.                                          *)
LEMMA BlockAdded ==
  ASSUME NEW s \in Nat, NEW bs, BlocksOk(bs, s), NEW vals \in Seq(F), vals # <<>>,
         NEW new, Behind(new, bs, s, vals)
  PROVE  /\ BlocksOk(new, s + Len(vals))
         /\ \A d \in Nat : StoredAt(new, d) = IF s <= d /\ d < s + Len(vals) THEN vals[d - s + 1]
                                              ELSE StoredAt(bs, d)
<1> DEFINE b == <<s, vals>>
           m == s + Len(vals)
           l == Len(bs)
<1>1. b \in Block /\ b[1] = s /\ b[2] = vals /\ StartOf(b) = s /\ EndOf(b) = m /\ Len(vals) \in Nat
  BY DEF Block, StartOf, EndOf
<1>2. /\ IsList(bs) /\ bs \in Seq(Block) /\ l \in Nat
      /\ \A i \in 1 .. l : bs[i] \in Block /\ bs[i][2] # <<>> /\ EndOf(bs[i]) <= s
                           /\ StartOf(bs[i]) \in Nat /\ EndOf(bs[i]) \in Nat
      /\ \A i, j \in 1 .. l : i < j => EndOf(bs[i]) <= StartOf(bs[j])
  BY BlocksAre DEF BlocksOk
<1> HIDE DEF b, m, l
<1>3. /\ IsList(new) /\ new \in Seq(Block) /\ Len(new) = l + 1 /\ new[l + 1] = b
      /\ \A k \in 1 .. l : new[k] = bs[k]
  <2>1. new = Append(bs, b)
    BY DEF b, Behind
  <2>2. new \in Seq(Block)
    BY <2>1, <1>1, <1>2, AppendProperties
  <2>3. /\ IsList(new) /\ Len(new) = Len(bs) + 1 /\ new[Len(bs) + 1] = b
        /\ \A k \in 1 .. Len(bs) : new[k] = bs[k]
    BY <2>1, <1>2, Appended
  <2> QED
    BY <2>2, <2>3 DEF l
<1>4. DOMAIN new = 1 .. l + 1 /\ \A k \in 1 .. l + 1 : k \in 1 .. l \/ k = l + 1
  BY <1>2, <1>3, ListIs
<1>5. m \in Nat /\ s <= m
  BY <1>1 DEF m
<1>6. ASSUME NEW i \in DOMAIN new PROVE new[i][2] # <<>> /\ EndOf(new[i]) <= m
  <2>1. CASE i \in 1 .. l
    BY <2>1, <1>2, <1>3, <1>5
  <2>2. CASE i = l + 1
    <3>1. new[i] = b
      BY <2>2, <1>3
    <3> QED
      BY <3>1, <1>1, <1>5
  <2> QED
    BY <2>1, <2>2, <1>4, <1>6
<1>7. ASSUME NEW i \in DOMAIN new, NEW j \in DOMAIN new, i < j PROVE EndOf(new[i]) <= StartOf(new[j])
  <2>1. i \in 1 .. l
    BY <1>2, <1>4, <1>7
  <2>2. CASE j \in 1 .. l
    BY <2>1, <2>2, <1>2, <1>3, <1>7
  <2>3. CASE j = l + 1
    BY <2>1, <2>3, <1>1, <1>2, <1>3
  <2> QED
    BY <2>2, <2>3, <1>4, <1>7
<1>8. BlocksOk(new, m)
  BY <1>3, <1>6, <1>7 DEF BlocksOk
<1>9. ASSUME NEW d \in Nat
      PROVE  StoredAt(new, d) = IF s <= d /\ d < m THEN vals[d - s + 1] ELSE StoredAt(bs, d)
  <2>1. Len(new) = l + 1 /\ l + 1 \in 1 .. l + 1 /\ \A i \in 1 .. l : i \in 1 .. l + 1
    BY <1>2, <1>3
  <2>2. CASE s <= d /\ d < m
    <3>1. Covers(new[l + 1], d)
      BY <2>2, <1>1, <1>3 DEF Covers
    <3>2. StoredAt(new, d) = new[l + 1][2][d - new[l + 1][1] + 1]
      BY <3>1, <2>1, <1>8, StoredIs
    <3>3. StoredAt(new, d) = vals[d - s + 1]
      BY <3>2, <1>1, <1>3
    <3> QED
      BY <3>3, <2>2
  <2>3. CASE ~ (s <= d /\ d < m)
    <3>1. ~ Covers(new[l + 1], d)
      BY <2>3, <1>1, <1>3 DEF Covers
    <3>2. CASE \E i \in 1 .. l : Covers(bs[i], d)
      <4>1. PICK i \in 1 .. l : Covers(bs[i], d)
        BY <3>2
      <4>2. StoredAt(bs, d) = bs[i][2][d - bs[i][1] + 1]
        BY <4>1, StoredIs DEF l
      <4>3. StoredAt(new, d) = new[i][2][d - new[i][1] + 1]
        BY <4>1, <2>1, <1>3, <1>8, StoredIs
      <4> QED
        BY <4>2, <4>3, <2>3, <1>3
    <3>3. CASE \A i \in 1 .. l : ~ Covers(bs[i], d)
      <4>1. StoredAt(bs, d) = 0
        BY <3>3, StoredIs DEF l
      <4>2. \A i \in 1 .. Len(new) : ~ Covers(new[i], d)
        BY <3>1, <3>3, <2>1, <1>3, <1>4
      <4>3. StoredAt(new, d) = 0
        BY <4>2, <1>8, StoredIs
      <4> QED
        BY <4>1, <4>3, <2>3
    <3> QED
      BY <3>2, <3>3
  <2> QED
    BY <2>2, <2>3
<1> QED
  BY <1>8, <1>9 DEF m
-----------------------------------------------------------------------------
(* The run splitter.  What it would leave if the data ended here; what it  *)
(* has to leave after k coefficients.                                      *)
Splitter == [out : Seq(Block), start : Nat \cup {-1}, run : Seq(F), zeros : Nat]
Closed(st) == IF st.start = -1 THEN st.out ELSE Append(st.out, <<st.start, st.run>>)
Split(blocks, out, base, data, k) ==
  /\ BlocksOk(blocks, base + k)
  /\ \A d \in Nat : StoredAt(blocks, d) = IF base <= d /\ d < base + k THEN data[d - base + 1]
                                          ELSE StoredAt(out, d)
SplitterOk(st, out, base, data, k) ==
  /\ st \in Splitter
  /\ Split(Closed(st), out, base, data, k)
  /\ st.start = -1 => st.run = <<>> /\ st.zeros = 0
  /\ st.start # -1 => /\ st.run # <<>> /\ BlocksOk(st.out, st.start)
                      /\ st.start + Len(st.run) + st.zeros = base + k

(* A step keeps its type.                                                  *)
LEMMA RunStepType ==
  ASSUME NEW st \in Splitter, NEW d \in Nat, NEW c \in F
  PROVE  RunStep(st, d, c) \in Splitter
<1>1. 0 \in F
  BY Elements
<1>2. CASE st.start = -1 /\ c = 0
  BY <1>2 DEF RunStep
<1>3. CASE st.start = -1 /\ c # 0
  <2>1. <<c>> \in Seq(F)
    OBVIOUS
  <2> QED
    BY <2>1, <1>3 DEF RunStep, Splitter
<1>4. CASE st.start # -1 /\ c # 0
  <2>1. ZeroRun(st.zeros) \in Seq(F) /\ <<c>> \in Seq(F)
    <3>1. st.zeros \in Nat
      BY DEF Splitter
    <3> QED
      BY <3>1, <1>1 DEF ZeroRun
  <2>2. (st.run \o ZeroRun(st.zeros)) \o <<c>> \in Seq(F)
    BY <2>1, ConcatProperties DEF Splitter
  <2> DEFINE r == (st.run \o ZeroRun(st.zeros)) \o <<c>>
  <2>3. RunStep(st, d, c) = [st EXCEPT !.run = r, !.zeros = 0]
    BY <1>4 DEF RunStep
  <2>4. r \in Seq(F)
    BY <2>2
  <2> HIDE DEF r
  <2>5. RunStep(st, d, c) = [out |-> st.out, start |-> st.start, run |-> r, zeros |-> 0]
    BY <2>3 DEF Splitter
  <2> QED
    BY <2>4, <2>5 DEF Splitter
<1>5. CASE st.start # -1 /\ c = 0
  <2>1. RunStep(st, d, c) = IF st.zeros + 1 > GAP_TOLERANCE
           THEN [out |-> Append(st.out, <<st.start, st.run>>), start |-> -1, run |-> <<>>, zeros |-> 0]
           ELSE [st EXCEPT !.zeros = @ + 1]
    BY <1>5 DEF RunStep
  <2>2. Append(st.out, <<st.start, st.run>>) \in Seq(Block)
    <3>1. <<st.start, st.run>> \in Block
      BY <1>5 DEF Splitter, Block
    <3> QED
      BY <3>1, AppendProperties DEF Splitter
  <2>3. st.zeros + 1 \in Nat
    BY DEF Splitter
  <2>4. CASE st.zeros + 1 > GAP_TOLERANCE
    <3>1. RunStep(st, d, c)
            = [out |-> Append(st.out, <<st.start, st.run>>), start |-> -1, run |-> <<>>, zeros |-> 0]
      BY <2>1, <2>4
    <3> QED
      BY <3>1, <2>2 DEF Splitter
  <2>5. CASE ~ (st.zeros + 1 > GAP_TOLERANCE)
    BY <2>1, <2>3, <2>5 DEF Splitter
  <2> QED
    BY <2>4, <2>5
<1> QED
  BY <1>2, <1>3, <1>4, <1>5

(* A run, the zeros held back behind it, and the coefficient after them.   *)
HeldJoined(r, run, z, c) == r = run \o ZeroRun(z) \o <<c>>
IsJoined(r, run, z, c) ==
  /\ r \in Seq(F) /\ Len(r) = Len(run) + z + 1 /\ r # <<>>
  /\ \A k \in 1 .. Len(run) : r[k] = run[k]
  /\ \A k \in Len(run) + 1 .. Len(run) + z : r[k] = 0
  /\ r[Len(run) + z + 1] = c

(* What the run splitter makes of them.                                    *)
LEMMA RunJoined ==
  ASSUME NEW run \in Seq(F), NEW z \in Nat, NEW c \in F, NEW r, HeldJoined(r, run, z, c)
  PROVE  IsJoined(r, run, z, c)
<1> DEFINE o == ZeroRun(z)
           e == <<c>>
           a == run \o o
<1>1. o \in Seq(F) /\ Len(o) = z /\ \A k \in 1 .. z : o[k] = 0
  BY Elements DEF ZeroRun
<1>2. e \in Seq(F) /\ Len(e) = 1 /\ e[1] = c
  OBVIOUS
<1>3. r = a \o e
  BY DEF HeldJoined
<1>4. Len(run) \in Nat
  OBVIOUS
<1> HIDE DEF o, e
<1>5. /\ a \in Seq(F) /\ Len(a) = Len(run) + z
      /\ \A k \in 1 .. Len(run) + z : a[k] = IF k <= Len(run) THEN run[k] ELSE o[k - Len(run)]
  BY <1>1, ConcatProperties
<1> HIDE DEF a
<1>6. /\ r \in Seq(F) /\ Len(r) = Len(a) + 1
      /\ \A k \in 1 .. Len(a) + 1 : r[k] = IF k <= Len(a) THEN a[k] ELSE e[k - Len(a)]
  <2>1. /\ a \o e \in Seq(F) /\ Len(a \o e) = Len(a) + Len(e)
        /\ \A k \in 1 .. Len(a) + Len(e) : (a \o e)[k] = IF k <= Len(a) THEN a[k] ELSE e[k - Len(a)]
    <3>1. a \in Seq(F) /\ e \in Seq(F)
      BY <1>2, <1>5
    <3> QED
      BY <3>1, ConcatProperties
  <2> QED
    BY <2>1, <1>2, <1>3
<1>7. Len(r) = Len(run) + z + 1 /\ r # <<>>
  BY <1>4, <1>5, <1>6
<1>8. ASSUME NEW k \in 1 .. Len(run) PROVE r[k] = run[k]
  <2>1. k \in 1 .. Len(run) + z /\ k \in 1 .. Len(a) + 1 /\ k <= Len(a) /\ k <= Len(run)
    BY <1>4, <1>5
  <2> QED
    BY <2>1, <1>5, <1>6
<1>9. ASSUME NEW k \in Len(run) + 1 .. Len(run) + z PROVE r[k] = 0
  <2>1. k \in 1 .. Len(run) + z /\ k \in 1 .. Len(a) + 1 /\ k <= Len(a) /\ ~ (k <= Len(run)) /\ k - Len(run) \in 1 .. z
    BY <1>4, <1>5
  <2> QED
    BY <2>1, <1>1, <1>5, <1>6
<1>10. r[Len(run) + z + 1] = c
  <2>1. Len(a) \in Nat /\ Len(a) + 1 \in 1 .. Len(a) + 1 /\ ~ (Len(a) + 1 <= Len(a)) /\ (Len(a) + 1) - Len(a) = 1
    BY <1>5
  <2>2. r[Len(a) + 1] = e[(Len(a) + 1) - Len(a)]
    BY <2>1, <1>6
  <2> QED
    BY <2>1, <2>2, <1>2, <1>5
<1> QED
  BY <1>6, <1>7, <1>8, <1>9, <1>10 DEF IsJoined

(* Counting one more.                                                      *)
LEMMA OneMoreZero ==
  ASSUME NEW a \in Nat, NEW l \in Nat, NEW z \in Nat, NEW b \in Nat, NEW k \in Nat, a + l + z = b + k
  PROVE  a + l + (z + 1) = b + (k + 1)
OBVIOUS

(* A step splits one coefficient more.                                     *)
LEMMA RunStepSplits ==
  ASSUME NEW out, NEW base \in Nat, BlocksOk(out, base), NEW data \in Seq(F), NEW k \in Nat,
         k + 1 <= Len(data), NEW st, SplitterOk(st, out, base, data, k),
         NEW new, new = RunStep(st, base + (k + 1) - 1, data[k + 1])
  PROVE  SplitterOk(new, out, base, data, k + 1)
<1> DEFINE c == data[k + 1]
           d0 == base + (k + 1) - 1
           old == Closed(st)
           n == base + (k + 1)
<1>1. d0 = base + k /\ d0 \in Nat /\ n = base + k + 1 /\ n \in Nat /\ base + k \in Nat
  OBVIOUS
<1>2. c \in F /\ st \in Splitter /\ BlocksOk(old, base + k)
  <2>1. k + 1 \in 1 .. Len(data)
    OBVIOUS
  <2> QED
    BY <2>1, ElementOfSeq DEF SplitterOk, Split
<1>3. \A d \in Nat : StoredAt(old, d) = IF base <= d /\ d < base + k THEN data[d - base + 1]
                                        ELSE StoredAt(out, d)
  BY DEF SplitterOk, Split
<1>4. new = RunStep(st, d0, c) /\ new \in Splitter
  BY <1>1, <1>2, RunStepType
<1>5. \A d \in Nat : d >= base => StoredAt(out, d) = 0
  BY StoredAbove
<1>6. ASSUME NEW bs, BlocksOk(bs, n),
             \A d \in Nat : StoredAt(bs, d) = IF d = base + k THEN c ELSE StoredAt(old, d)
      PROVE  Split(bs, out, base, data, k + 1)
  <2>1. ASSUME NEW d \in Nat
        PROVE  StoredAt(bs, d) = IF base <= d /\ d < n THEN data[d - base + 1] ELSE StoredAt(out, d)
    <3>1. CASE d = base + k
      <4>1. d - base + 1 = k + 1 /\ base <= d /\ d < n
        BY <3>1
      <4> QED
        BY <4>1, <3>1, <1>6
    <3>2. CASE d # base + k
      <4>1. (base <= d /\ d < n) <=> (base <= d /\ d < base + k)
        BY <3>2
      <4>2. StoredAt(bs, d) = StoredAt(old, d)
        BY <3>2, <1>6
      <4> QED
        BY <4>1, <4>2, <1>3
    <3> QED
      BY <3>1, <3>2
  <2> QED
    BY <2>1, <1>6 DEF Split
<1>7. ASSUME c = 0 PROVE Split(old, out, base, data, k + 1)
  <2>1. BlocksOk(old, n)
    BY <1>1, <1>2, BlocksBelow
  <2>2. StoredAt(old, base + k) = 0
    BY <1>1, <1>2, StoredAbove
  <2> HIDE DEF old, c, n
  <2> QED
    BY <2>1, <2>2, <1>6, <1>7
<1> HIDE DEF d0, c, n
<1>8. CASE st.start = -1 /\ c = 0
  <2>1. new = st
    BY <1>4, <1>8 DEF RunStep
  <2> QED
    BY <2>1, <1>2, <1>7, <1>8 DEF SplitterOk
<1>9. CASE st.start = -1 /\ c # 0
  <2>1. new = [st EXCEPT !.start = d0, !.run = <<c>>]
    BY <1>4, <1>9 DEF RunStep
  <2>2. old = st.out /\ st.zeros = 0
    BY <1>9 DEF Closed, SplitterOk
  <2>3. new.start = d0 /\ new.run = <<c>> /\ new.out = st.out /\ new.zeros = 0
    BY <2>1, <2>2, <1>2 DEF Splitter
  <2>4. d0 # -1 /\ d0 = base + k /\ d0 \in Nat
    BY <1>1
  <2>5. Closed(new) = Append(st.out, <<d0, <<c>> >>)
    BY <2>3, <2>4 DEF Closed
  <2>6. <<c>> \in Seq(F) /\ <<c>> # <<>> /\ Len(<<c>>) = 1 /\ <<c>>[1] = c
    BY <1>2
  <2>7. BlocksOk(st.out, d0)
    BY <2>2, <2>4, <1>2
  <2> DEFINE cl == Closed(new)
             v == <<c>>
  <2>8. v \in Seq(F) /\ v # <<>> /\ Len(v) = 1 /\ v[1] = c /\ Behind(cl, st.out, d0, v)
    BY <2>5, <2>6 DEF Behind
  <2> HIDE DEF cl, v
  <2>9. /\ BlocksOk(cl, d0 + Len(v))
        /\ \A d \in Nat : StoredAt(cl, d) = IF d0 <= d /\ d < d0 + Len(v) THEN v[d - d0 + 1]
                                           ELSE StoredAt(st.out, d)
    BY <2>4, <2>7, <2>8, BlockAdded
  <2>10. BlocksOk(cl, n)
    BY <2>8, <2>9, <1>1
  <2>11. \A d \in Nat : StoredAt(cl, d) = IF d = base + k THEN c ELSE StoredAt(old, d)
    <3> SUFFICES ASSUME NEW d \in Nat
                 PROVE  StoredAt(cl, d) = IF d = base + k THEN c ELSE StoredAt(old, d)
      OBVIOUS
    <3>1. CASE d = d0
      <4>1. d - d0 + 1 = 1 /\ d0 <= d /\ d < d0 + 1
        BY <3>1
      <4> QED
        BY <4>1, <3>1, <2>4, <2>8, <2>9
    <3>2. CASE d # d0
      <4>1. ~ (d0 <= d /\ d < d0 + 1)
        BY <3>2, <2>4
      <4> QED
        BY <4>1, <3>2, <2>2, <2>4, <2>8, <2>9
    <3> QED
      BY <3>1, <3>2
  <2>12. Split(cl, out, base, data, k + 1)
    BY <2>10, <2>11, <1>6
  <2>13. new.start + Len(new.run) + new.zeros = base + (k + 1)
    <3>1. Len(new.run) = 1
      BY <2>3, <2>6
    <3>2. d0 + 1 + 0 = base + (k + 1)
      BY <1>1
    <3> QED
      BY <3>1, <3>2, <2>3, Zenon
  <2>14. new.run # <<>> /\ BlocksOk(new.out, new.start) /\ new.start # -1
    BY <2>3, <2>4, <2>6, <2>7
  <2> QED
    BY <2>12, <2>13, <2>14, <1>4 DEF cl, SplitterOk
<1>10. ASSUME st.start # -1
       PROVE  /\ st.start \in Nat /\ st.run \in Seq(F) /\ st.run # <<>> /\ st.zeros \in Nat
              /\ BlocksOk(st.out, st.start) /\ st.start + Len(st.run) + st.zeros = base + k
              /\ old = Append(st.out, <<st.start, st.run>>)
  BY <1>2, <1>10 DEF Closed, SplitterOk, Splitter
<1>11. CASE st.start # -1 /\ c # 0
  <2> DEFINE s == st.start
             r == st.run \o ZeroRun(st.zeros) \o <<c>>
             l == Len(st.run)
             z == st.zeros
  <2>1. /\ s \in Nat /\ st.run \in Seq(F) /\ st.run # <<>> /\ z \in Nat /\ l \in Nat
        /\ BlocksOk(st.out, s) /\ s + l + z = base + k /\ Behind(old, st.out, s, st.run)
    BY <1>10, <1>11 DEF Behind
  <2>2. new = [st EXCEPT !.run = r, !.zeros = 0]
    BY <1>4, <1>11 DEF RunStep
  <2>3. /\ r \in Seq(F) /\ Len(r) = l + z + 1 /\ r # <<>>
        /\ \A j \in 1 .. l : r[j] = st.run[j]
        /\ \A j \in l + 1 .. l + z : r[j] = 0
        /\ r[l + z + 1] = c
    <3>1. HeldJoined(r, st.run, z, c)
      BY DEF HeldJoined
    <3>2. st.run \in Seq(F) /\ z \in Nat /\ c \in F
      BY <2>1, <1>2
    <3> HIDE DEF r, z
    <3>3. IsJoined(r, st.run, z, c)
      BY <3>1, <3>2, RunJoined
    <3> QED
      BY <3>3, Zenon DEF l, IsJoined
  <2> HIDE DEF r
  <2>4. new.start = s /\ new.run = r /\ new.out = st.out /\ new.zeros = 0
    BY <2>2, <1>2 DEF Splitter
  <2> DEFINE cl == Closed(new)
  <2>5. Behind(cl, st.out, s, r)
    <3>1. new.start # -1
      BY <2>4, <2>1
    <3> QED
      BY <3>1, <2>4 DEF Closed, Behind
  <2> HIDE DEF cl, s, l, z
  <2>6. /\ BlocksOk(cl, s + Len(r))
        /\ \A d \in Nat : StoredAt(cl, d) = IF s <= d /\ d < s + Len(r) THEN r[d - s + 1]
                                           ELSE StoredAt(st.out, d)
    <3>1. s \in Nat /\ BlocksOk(st.out, s) /\ r \in Seq(F) /\ r # <<>>
      BY <2>1, <2>3
    <3> QED
      BY <3>1, <2>5, BlockAdded
  <2>7. \A d \in Nat : StoredAt(old, d) = IF s <= d /\ d < s + l THEN st.run[d - s + 1]
                                            ELSE StoredAt(st.out, d)
    <3>1. \A d \in Nat : StoredAt(old, d) = IF s <= d /\ d < s + Len(st.run) THEN st.run[d - s + 1]
                                              ELSE StoredAt(st.out, d)
      <4>1. s \in Nat /\ BlocksOk(st.out, s) /\ st.run \in Seq(F) /\ st.run # <<>>
            /\ Behind(old, st.out, s, st.run)
        BY <2>1
      <4> HIDE DEF old
      <4> QED
        BY <4>1, BlockAdded
    <3> QED
      BY <3>1 DEF l
  <2>8. BlocksOk(cl, n)
    <3>1. s + Len(r) = n
      BY <2>1, <2>3, <1>1
    <3> QED
      BY <3>1, <2>6
  <2>9. \A d \in Nat : StoredAt(cl, d) = IF d = base + k THEN c ELSE StoredAt(old, d)
    <3> SUFFICES ASSUME NEW d \in Nat
                 PROVE  StoredAt(cl, d) = IF d = base + k THEN c ELSE StoredAt(old, d)
      OBVIOUS
    <3>1. CASE ~ (s <= d /\ d < s + Len(r))
      <4>1. d # base + k /\ ~ (s <= d /\ d < s + l)
        BY <3>1, <2>1, <2>3
      <4> QED
        BY <4>1, <3>1, <2>6, <2>7
    <3>2. CASE s <= d /\ d < s + l
      <4>1. d # base + k /\ s <= d /\ d < s + Len(r) /\ d - s + 1 \in 1 .. l
        <5>1. s \in Nat /\ l \in Nat /\ z \in Nat /\ Len(r) = l + z + 1 /\ base + k = s + l + z
          BY <2>1, <2>3
        <5> HIDE DEF s, l, z, r
        <5> QED
          BY <5>1, <3>2
      <4> QED
        BY <4>1, <3>2, <2>3, <2>6, <2>7
    <3>3. CASE s + l <= d /\ d < s + l + z
      <4>1. d # base + k /\ s <= d /\ d < s + Len(r) /\ d - s + 1 \in l + 1 .. l + z
            /\ ~ (s <= d /\ d < s + l) /\ d >= s
        BY <3>3, <2>1, <2>3
      <4>2. StoredAt(cl, d) = 0
        BY <4>1, <2>3, <2>6
      <4>3. StoredAt(st.out, d) = 0
        BY <4>1, <2>1, StoredAbove
      <4> QED
        BY <4>1, <4>2, <4>3, <2>7
    <3>4. CASE d = s + l + z
      <4>1. d = base + k /\ s <= d /\ d < s + Len(r) /\ d - s + 1 = l + z + 1
        BY <3>4, <2>1, <2>3
      <4> QED
        BY <4>1, <2>3, <2>6
    <3>5. d < s \/ d < s + l \/ d < s + l + z \/ d = s + l + z \/ d >= s + Len(r)
      <4>1. s \in Nat /\ l \in Nat /\ z \in Nat /\ Len(r) = l + z + 1
        BY <2>1, <2>3
      <4> HIDE DEF s, l, z, r
      <4> QED
        BY <4>1
    <3> QED
      BY <3>1, <3>2, <3>3, <3>4, <3>5, <2>1, <2>3
  <2>10. Split(cl, out, base, data, k + 1)
    BY <2>8, <2>9, <1>6
  <2>11. new.start + Len(new.run) + new.zeros = base + (k + 1)
    <3>1. s + Len(r) + 0 = base + (k + 1)
      BY <2>1, <2>3
    <3> QED
      BY <3>1, <2>4, Zenon
  <2>12. new.run # <<>> /\ BlocksOk(new.out, new.start) /\ new.start # -1
    BY <2>1, <2>3, <2>4
  <2> QED
    BY <2>10, <2>11, <2>12, <1>4 DEF cl, SplitterOk
<1>12. CASE st.start # -1 /\ c = 0
  <2>1. /\ st.start \in Nat /\ st.run \in Seq(F) /\ st.run # <<>> /\ st.zeros \in Nat
        /\ BlocksOk(st.out, st.start) /\ st.start + Len(st.run) + st.zeros = base + k
        /\ old = Append(st.out, <<st.start, st.run>>)
    BY <1>10, <1>12
  <2>0. st.start # -1
    BY <1>12
  <2>2. new = IF st.zeros + 1 > GAP_TOLERANCE
                THEN [out |-> old, start |-> -1, run |-> <<>>, zeros |-> 0]
                ELSE [st EXCEPT !.zeros = @ + 1]
    BY <1>4, <1>12, <2>1 DEF RunStep
  <2>3. Split(old, out, base, data, k + 1)
    BY <1>7, <1>12
  <2> HIDE DEF old
  <2>4. CASE st.zeros + 1 > GAP_TOLERANCE
    <3>1. new.start = -1 /\ new.out = old /\ new.run = <<>> /\ new.zeros = 0
      BY <2>2, <2>4
    <3>2. Closed(new) = old
      BY <3>1 DEF Closed
    <3> QED
      BY <3>1, <3>2, <2>3, <1>4 DEF SplitterOk
  <2>5. CASE ~ (st.zeros + 1 > GAP_TOLERANCE)
    <3>1. new.start = st.start /\ new.out = st.out /\ new.run = st.run /\ new.zeros = st.zeros + 1
      BY <2>2, <2>5, <1>2 DEF Splitter
    <3>2. Closed(new) = old
      BY <3>1, <2>0, <2>1 DEF Closed
    <3>3. new.start + Len(new.run) + new.zeros = base + (k + 1) /\ new.start # -1
      <4>1. Len(st.run) \in Nat
        BY <2>1
      <4>2. new.start + Len(st.run) + new.zeros = base + (k + 1)
        <5>1. st.start + Len(st.run) + (st.zeros + 1) = base + (k + 1)
          <6>1. st.start \in Nat /\ st.zeros \in Nat
            BY <2>1, Zenon
          <6>2. st.start + Len(st.run) + st.zeros = base + k
            BY <2>1, Zenon
          <6>3. PICK a \in Nat, l \in Nat, z \in Nat : a = st.start /\ l = Len(st.run) /\ z = st.zeros
            BY <6>1, <4>1, Zenon
          <6>4. a + l + z = base + k
            BY <6>2, <6>3, Zenon
          <6>5. a + l + (z + 1) = base + (k + 1)
            BY <6>4
          <6> QED
            BY <6>5, <6>3, Zenon
        <5> QED
          BY <5>1, <3>1, Zenon
      <4>3. Len(st.run) = Len(new.run)
        BY <3>1
      <4> QED
        BY <4>2, <4>3, <3>1, <2>0, Zenon
    <3> QED
      BY <3>1, <3>2, <3>3, <2>1, <2>3, <1>4 DEF SplitterOk
  <2> QED
    BY <2>4, <2>5
<1> QED
  BY <1>8, <1>9, <1>11, <1>12

(* The splitter's states over the data.                                    *)
Scans(scan, out, base, data) ==
  /\ scan \in [0 .. Len(data) -> Splitter]
  /\ scan[0] = [out |-> out, start |-> -1, run |-> <<>>, zeros |-> 0]
  /\ \A i \in 1 .. Len(data) : scan[i] = RunStep(scan[i - 1], base + i - 1, data[i])
  /\ ExtendRuns(out, base, data) = Closed(scan[Len(data)])

(* They exist, so the compressed data are blocks.                          *)
LEMMA RunsExist ==
  ASSUME NEW out \in Seq(Block), NEW base \in Nat, NEW data \in Seq(F)
  PROVE  (\E scan : Scans(scan, out, base, data)) /\ ExtendRuns(out, base, data) \in Seq(Block)
<1> DEFINE n == Len(data)
           init == [out |-> out, start |-> -1, run |-> <<>>, zeros |-> 0]
           at(i) == base + i - 1
           Solves(g) == g = [i \in 0 .. n |-> IF i = 0 THEN init
                                              ELSE RunStep(g[i - 1], at(i), data[i])]
           scan == CHOOSE g : Solves(g)
           last == scan[n]
           Step == [c \in Splitter \X (0 + 1 .. n) |-> RunStep(c[1], at(c[2]), data[c[2]])]
<1>1. ExtendRuns(out, base, data) = Closed(last)
  BY DEF ExtendRuns, Closed
<1>2. n \in Nat /\ \A i \in 0 + 1 .. n : at(i) \in Nat /\ data[i] \in F /\ i \in 1 .. n
  <2> SUFFICES ASSUME NEW i \in 0 + 1 .. n PROVE at(i) \in Nat /\ data[i] \in F /\ i \in 1 .. n
    OBVIOUS
  <2>1. i \in 1 .. n /\ at(i) \in Nat
    OBVIOUS
  <2> QED
    BY <2>1, ElementOfSeq
<1>3. init \in Splitter
  BY DEF Splitter
<1>4. Step \in [Splitter \X (0 + 1 .. n) -> Splitter]
  <2>1. \A v \in Splitter, i \in 0 + 1 .. n : RunStep(v, at(i), data[i]) \in Splitter
    BY <1>2, RunStepType
  <2> QED
    BY <2>1
<1>5. ASSUME NEW v \in Splitter, NEW i \in 0 + 1 .. n PROVE Step[<<v, i>>] = RunStep(v, at(i), data[i])
  OBVIOUS
<1> HIDE DEF Step, init, n
<1>6. PICK f : Follows(f, 0, n, Splitter, init, Step)
  BY <1>2, <1>3, <1>4, Iterates, 0 \in Int, n \in Int, 0 <= n
<1>7. f \in [0 .. n -> Splitter] /\ f[0] = init /\ \A i \in 0 + 1 .. n : f[i] = Step[<<f[i - 1], i>>]
  BY <1>6 DEF Follows
<1>8. ASSUME NEW i \in 0 .. n, i # 0 PROVE i \in 0 + 1 .. n /\ i - 1 \in 0 .. n
  BY <1>2, <1>8
<1> HIDE DEF at
<1>9. \A i \in 0 .. n : f[i] = IF i = 0 THEN init ELSE RunStep(f[i - 1], at(i), data[i])
  <2> SUFFICES ASSUME NEW i \in 0 .. n
               PROVE  f[i] = IF i = 0 THEN init ELSE RunStep(f[i - 1], at(i), data[i])
    OBVIOUS
  <2>1. CASE i = 0
    BY <2>1, <1>7
  <2>2. CASE i # 0
    <3>1. i \in 0 + 1 .. n /\ f[i - 1] \in Splitter
      BY <2>2, <1>7, <1>8
    <3>2. f[i] = RunStep(f[i - 1], at(i), data[i])
      BY <3>1, <1>5, <1>7
    <3> QED
      BY <3>2, <2>2
  <2> QED
    BY <2>1, <2>2
<1>10. Solves(scan)
  <2>1. f = [i \in 0 .. n |-> f[i]]
    BY <1>7
  <2>2. Solves(f)
    BY <2>1, <1>9
  <2> QED
    BY <2>2
<1>11. \A i \in 0 .. n : scan[i] = IF i = 0 THEN init ELSE RunStep(scan[i - 1], at(i), data[i])
  BY <1>10, Zenon
<1> HIDE DEF scan, Solves
<1>12. ASSUME NEW i \in 0 + 1 .. n, scan[i - 1] \in Splitter PROVE scan[i] \in Splitter
  <2>1. i \in 0 .. n /\ i # 0
    BY <1>2
  <2>2. scan[i] = RunStep(scan[i - 1], at(i), data[i])
    BY <2>1, <1>11
  <2> QED
    BY <2>2, <1>2, <1>12, RunStepType
<1>13. 0 \in 0 .. n /\ scan[0] = init
  BY <1>2, <1>11
<1>14. \A i \in 0 .. n : scan[i] \in Splitter
  BY <1>2, <1>3, <1>12, <1>13, Stays, 0 \in Int, n \in Int, 0 <= n
<1>15. scan \in [0 .. n -> Splitter]
  <2>1. scan = [i \in 0 .. n |-> IF i = 0 THEN init ELSE RunStep(scan[i - 1], at(i), data[i])]
    BY <1>10 DEF Solves
  <2>2. DOMAIN scan = 0 .. n
    BY <2>1, Zenon
  <2>3. scan = [i \in 0 .. n |-> scan[i]]
    BY <2>1, <1>11, Zenon
  <2> QED
    BY <2>3, <1>14
<1>16. \A i \in 1 .. n : scan[i] = RunStep(scan[i - 1], base + i - 1, data[i])
  <2> SUFFICES ASSUME NEW i \in 1 .. n PROVE scan[i] = RunStep(scan[i - 1], base + i - 1, data[i])
    OBVIOUS
  <2>1. i \in 0 .. n /\ i # 0
    BY <1>2
  <2>2. scan[i] = RunStep(scan[i - 1], at(i), data[i])
    BY <2>1, <1>11
  <2> QED
    BY <2>2 DEF at
<1>17. Scans(scan, out, base, data)
  BY <1>1, <1>13, <1>15, <1>16 DEF Scans, init, n
<1>18. Closed(scan[n]) \in Seq(Block)
  <2> DEFINE st == scan[n]
  <2>1. st \in Splitter
    BY <1>2, <1>14
  <2> SUFFICES Closed(st) \in Seq(Block)
    OBVIOUS
  <2> HIDE DEF st
  <2>2. CASE st.start = -1
    BY <2>1, <2>2 DEF Closed, Splitter
  <2>3. CASE st.start # -1
    <3>1. <<st.start, st.run>> \in Block /\ st.out \in Seq(Block)
      BY <2>1, <2>3 DEF Splitter, Block
    <3>2. Append(st.out, <<st.start, st.run>>) \in Seq(Block)
      BY <3>1, AppendProperties
    <3> QED
      BY <3>2, <2>3 DEF Closed
  <2> QED
    BY <2>2, <2>3
<1> QED
  BY <1>1, <1>17, <1>18

(* Compressing data behind blocks that end where the data starts keeps the *)
(* blocks' order and every coefficient.                                    *)
LEMMA Compresses ==
  ASSUME NEW out, NEW base \in Nat, BlocksOk(out, base), NEW data \in Seq(F)
  PROVE  Split(ExtendRuns(out, base, data), out, base, data, Len(data))
<1>1. PICK scan : Scans(scan, out, base, data)
  BY RunsExist DEF BlocksOk
<1> DEFINE n == Len(data)
           init == [out |-> out, start |-> -1, run |-> <<>>, zeros |-> 0]
<1>2. n \in Nat /\ init \in Splitter
  BY DEF Splitter, BlocksOk
<1>3. /\ scan[0] = init
      /\ \A i \in 1 .. n : scan[i] = RunStep(scan[i - 1], base + i - 1, data[i])
      /\ ExtendRuns(out, base, data) = Closed(scan[n])
  BY <1>1 DEF Scans
<1> HIDE DEF init, n
<1>4. SplitterOk(init, out, base, data, 0)
  <2>1. Closed(init) = out /\ init.start = -1 /\ init.run = <<>> /\ init.zeros = 0
    BY DEF Closed, init
  <2>2. Split(out, out, base, data, 0)
    <3>1. base + 0 = base
      OBVIOUS
    <3>2. \A d \in Nat : ~ (base <= d /\ d < base + 0)
      OBVIOUS
    <3> QED
      BY <3>1, <3>2 DEF Split
  <2> QED
    BY <2>1, <2>2, <1>2 DEF SplitterOk
<1>5. ASSUME NEW i \in 0 + 1 .. n, SplitterOk(scan[i - 1], out, base, data, i - 1)
      PROVE  SplitterOk(scan[i], out, base, data, i)
  <2>1. PICK k \in Nat : k = i - 1 /\ i = k + 1 /\ k + 1 <= Len(data)
    BY <1>2 DEF n
  <2>2. scan[k + 1] = RunStep(scan[k], base + (k + 1) - 1, data[k + 1])
    <3>1. k + 1 \in 1 .. n /\ (k + 1) - 1 = k
      BY <1>2, <2>1
    <3>2. scan[k + 1] = RunStep(scan[(k + 1) - 1], base + (k + 1) - 1, data[k + 1])
      BY <3>1, <1>3
    <3> QED
      BY <3>1, <3>2, Zenon
  <2>3. SplitterOk(scan[k], out, base, data, k)
    BY <1>5, <2>1, Zenon
  <2>4. SplitterOk(scan[k + 1], out, base, data, k + 1)
    BY <2>1, <2>2, <2>3, RunStepSplits
  <2> QED
    BY <2>1, <2>4, Zenon
<1> DEFINE U == { i \in 0 .. n : SplitterOk(scan[i], out, base, data, i) }
<1>6. 0 \in U
  BY <1>2, <1>3, <1>4
<1>7. \A i \in 0 + 1 .. n : i - 1 \in U => i \in U
  <2> SUFFICES ASSUME NEW i \in 0 + 1 .. n, i - 1 \in U PROVE i \in U
    OBVIOUS
  <2>1. i \in 0 .. n
    BY <1>2
  <2> QED
    BY <2>1, <1>5
<1> HIDE DEF U
<1>8. n \in U
  BY <1>2, <1>6, <1>7, Interval, 0 \in Int, n \in Int, n \in 0 .. n
<1>9. SplitterOk(scan[n], out, base, data, n)
  BY <1>8 DEF U
<1> QED
  BY <1>3, <1>9 DEF SplitterOk, n

(* A sparse polynomial compressed from coefficients (from_coeffs) keeps    *)
(* its invariants and stores every coefficient at its degree.              *)
THEOREM SparseBuilds ==
  ASSUME NEW coeffs \in Seq(F), Len(coeffs) <= NumCoeffs
  PROVE  /\ FromCoeffs(coeffs) \in Sparse
         /\ \A d \in Nat : StoredAt(FromCoeffs(coeffs), d) = IF d < Len(coeffs) THEN coeffs[d + 1] ELSE 0
<1> DEFINE new == FromCoeffs(coeffs)
           n == Len(coeffs)
<1>1. 0 + n = n /\ n \in Nat /\ NumCoeffs \in Nat /\ n <= NumCoeffs
  BY Elements
<1>2. Split(new, <<>>, 0, coeffs, n)
  <2>1. BlocksOk(<<>>, 0)
    BY NoBlocks
  <2> QED
    BY <2>1, Compresses DEF FromCoeffs
<1> HIDE DEF new, n
<1>3. BlocksOk(new, n) /\ \A d \in Nat : StoredAt(new, d) = IF 0 <= d /\ d < 0 + n THEN coeffs[d - 0 + 1]
                                                            ELSE StoredAt(<<>>, d)
  BY <1>1, <1>2 DEF Split
<1>4. BlocksOk(new, NumCoeffs)
  BY <1>1, <1>3, BlocksBelow
<1>5. ASSUME NEW d \in Nat PROVE StoredAt(new, d) = IF d < n THEN coeffs[d + 1] ELSE 0
  <2>1. (0 <= d /\ d < 0 + n) <=> d < n
    BY <1>1
  <2>2. d - 0 + 1 = d + 1 /\ StoredAt(<<>>, d) = 0
    BY NoBlocks
  <2>3. StoredAt(new, d) = IF 0 <= d /\ d < 0 + n THEN coeffs[d - 0 + 1] ELSE StoredAt(<<>>, d)
    BY <1>3
  <2> QED
    BY <2>1, <2>2, <2>3, Zenon
<1> QED
  BY <1>4, <1>5, SparseAre DEF new, n
-----------------------------------------------------------------------------
(* The reader.  The blocks before its front cursor end at or before the    *)
(* next degree from the front; the ones behind its back cursor start at or *)
(* after the last degree read from the back.                               *)
ReaderOk(bs, it) ==
  /\ it \in [front : Nat, back : Int, fblock : 1 .. Len(bs) + 1, bblock : 0 .. Len(bs)]
  /\ \A i \in 1 .. Len(bs) : i < it.fblock => EndOf(bs[i]) <= it.front
  /\ \A i \in 1 .. Len(bs) : i > it.bblock => it.back <= StartOf(bs[i])

(* The first and the last of some places.                                  *)
LEMMA EndsOf ==
  ASSUME NEW lo \in Int, NEW hi \in Int, NEW A, A \subseteq lo .. hi, A # {}
  PROVE  /\ FirstOf(A) \in A /\ \A j \in A : FirstOf(A) <= j
         /\ LastOf(A) \in A /\ \A j \in A : LastOf(A) >= j
<1>1. \E i \in A : \A j \in A : i <= j
  <2> DEFINE T == { i - lo : i \in A }
  <2>1. T \subseteq Nat /\ T # {}
    OBVIOUS
  <2>2. PICK x \in T : \A y \in T : x <= y
    BY <2>1, NatMin
  <2>3. PICK i \in A : x = i - lo
    BY <2>2
  <2>4. ASSUME NEW j \in A PROVE i <= j
    <3>1. j - lo \in T /\ i \in Int /\ j \in Int
      OBVIOUS
    <3>2. x <= j - lo
      BY <3>1, <2>2
    <3> QED
      BY <3>1, <3>2, <2>3
  <2> QED
    BY <2>4
<1>2. \E i \in A : \A j \in A : i >= j
  <2> DEFINE T == { hi - i : i \in A }
  <2>1. T \subseteq Nat /\ T # {}
    OBVIOUS
  <2>2. PICK x \in T : \A y \in T : x <= y
    BY <2>1, NatMin
  <2>3. PICK i \in A : x = hi - i
    BY <2>2
  <2>4. ASSUME NEW j \in A PROVE i >= j
    <3>1. hi - j \in T /\ i \in Int /\ j \in Int
      OBVIOUS
    <3>2. x <= hi - j
      BY <3>1, <2>2
    <3> QED
      BY <3>1, <3>2, <2>3
  <2> QED
    BY <2>4
<1> QED
  BY <1>1, <1>2 DEF FirstOf, LastOf

(* What the reader gives from the front.                                   *)
LEMMA ReadsFront ==
  ASSUME NEW bs, BlocksOk(bs, NumCoeffs), NEW it, ReaderOk(bs, it)
  PROVE  /\ ReaderOk(bs, IterNext(bs, it).it) /\ IterNext(bs, it).val = StoredAt(bs, it.front)
         /\ IterNext(bs, it).it.front = it.front + 1 /\ IterNext(bs, it).it.back = it.back
<1> DEFINE l == Len(bs)
           ahead == { i \in it.fblock .. l : EndOf(bs[i]) > it.front }
           fb == FirstOf(ahead \union {l + 1})
           val == IF fb <= l /\ it.front >= StartOf(bs[fb])
                    THEN bs[fb][2][it.front - StartOf(bs[fb]) + 1] ELSE 0
           d == it.front
<1>1. IterNext(bs, it) = [it |-> [it EXCEPT !.front = @ + 1, !.fblock = fb], val |-> val]
  BY DEF IterNext
<1>2. /\ l \in Nat
      /\ \A i \in 1 .. l : bs[i] \in Block /\ StartOf(bs[i]) \in Nat /\ EndOf(bs[i]) \in Nat
                           /\ StartOf(bs[i]) < EndOf(bs[i]) /\ StartOf(bs[i]) = bs[i][1]
      /\ \A i, j \in 1 .. l : i < j => EndOf(bs[i]) <= StartOf(bs[j])
  BY BlocksAre DEF StartOf
<1>3. /\ d \in Nat /\ it.back \in Int /\ it.fblock \in 1 .. l + 1 /\ it.bblock \in 0 .. l
      /\ it = [front |-> d, back |-> it.back, fblock |-> it.fblock, bblock |-> it.bblock]
      /\ \A i \in 1 .. l : i < it.fblock => EndOf(bs[i]) <= d
      /\ \A i \in 1 .. l : i > it.bblock => it.back <= StartOf(bs[i])
  BY DEF ReaderOk
<1>4. /\ fb \in 1 .. l + 1
      /\ fb <= l => EndOf(bs[fb]) > d
      /\ \A i \in 1 .. l : i < fb => EndOf(bs[i]) <= d
  <2> DEFINE A == ahead \union {l + 1}
  <2>1. A \subseteq it.fblock .. l + 1 /\ A # {} /\ it.fblock \in Int /\ l + 1 \in Int
    BY <1>2, <1>3
  <2>2. \A i : i \in A <=> i = l + 1 \/ (i \in it.fblock .. l /\ EndOf(bs[i]) > d)
    OBVIOUS
  <2> HIDE DEF A
  <2>3. FirstOf(A) \in A /\ \A j \in A : FirstOf(A) <= j
    BY <2>1, EndsOf
  <2>4. fb = FirstOf(A)
    BY DEF A
  <2> HIDE DEF fb, d, ahead
  <2>5. fb \in it.fblock .. l + 1 /\ fb \in 1 .. l + 1
    BY <2>1, <2>3, <2>4, <1>2, <1>3
  <2>6. fb <= l => EndOf(bs[fb]) > d
    BY <2>2, <2>3, <2>4, <2>5, <1>2
  <2>7. ASSUME NEW i \in 1 .. l, i < fb PROVE EndOf(bs[i]) <= d
    <3>1. CASE i < it.fblock
      BY <3>1, <1>3
    <3>2. CASE i >= it.fblock
      <4>1. i \in it.fblock .. l /\ ~ (fb <= i)
        BY <3>2, <2>5, <2>7, <1>2, <1>3
      <4>2. ~ (EndOf(bs[i]) > d)
        BY <4>1, <2>2, <2>3, <2>4
      <4> QED
        BY <4>2, <1>2, <1>3
    <3> QED
      BY <3>1, <3>2, <1>2, <1>3
  <2> QED
    BY <2>5, <2>6, <2>7
<1>5. val = StoredAt(bs, d)
  <2>1. CASE fb <= l /\ d >= StartOf(bs[fb])
    <3>1. fb \in 1 .. l /\ Covers(bs[fb], d)
      BY <2>1, <1>2, <1>3, <1>4 DEF Covers
    <3>2. StoredAt(bs, d) = bs[fb][2][d - bs[fb][1] + 1]
      BY <3>1, <1>3, StoredIs
    <3> HIDE DEF fb
    <3> QED
      BY <3>1, <3>2, <2>1, <1>2
  <2>2. CASE ~ (fb <= l /\ d >= StartOf(bs[fb]))
    <3> HIDE DEF fb, d
    <3>1. ASSUME NEW i \in 1 .. l PROVE ~ Covers(bs[i], d)
      <4>1. CASE i < fb
        BY <4>1, <1>2, <1>3, <1>4 DEF Covers
      <4>2. CASE i = fb
        BY <4>2, <2>2, <1>2, <1>3, <1>4 DEF Covers
      <4>3. CASE i > fb
        <5>1. fb \in 1 .. l /\ d < EndOf(bs[fb]) /\ EndOf(bs[fb]) <= StartOf(bs[i])
          BY <4>3, <1>2, <1>4
        <5> QED
          BY <5>1, <1>2, <1>3 DEF Covers
      <4> QED
        BY <4>1, <4>2, <4>3, <1>2, <1>4
    <3>2. StoredAt(bs, d) = 0
      BY <3>1, <1>3, StoredIs
    <3>3. val = 0
      BY <2>2 DEF d
    <3> QED
      BY <3>2, <3>3
  <2> QED
    BY <2>1, <2>2
<1> HIDE DEF fb, val
<1>6. IterNext(bs, it).it = [front |-> d + 1, back |-> it.back, fblock |-> fb, bblock |-> it.bblock]
      /\ IterNext(bs, it).val = val
  <2>1. it \in [front : Int, back : Int, fblock : Int, bblock : Int]
    BY <1>2, <1>3 DEF ReaderOk
  <2>2. PICK y : y = [it EXCEPT !.front = @ + 1, !.fblock = fb]
    OBVIOUS
  <2>3. y = [front |-> d + 1, back |-> it.back, fblock |-> fb, bblock |-> it.bblock]
    BY <2>1, <2>2, <1>3 DEF d
  <2>4. IterNext(bs, it) = [it |-> y, val |-> val]
    BY <1>1, <2>2, Zenon
  <2> QED
    BY <2>3, <2>4
<1> HIDE DEF d
<1>7. ReaderOk(bs, [front |-> d + 1, back |-> it.back, fblock |-> fb, bblock |-> it.bblock])
  <2>1. \A i \in 1 .. l : i < fb => EndOf(bs[i]) <= d + 1
    BY <1>2, <1>3, <1>4
  <2> QED
    BY <2>1, <1>3, <1>4 DEF ReaderOk
<1> QED
  BY <1>5, <1>6, <1>7 DEF d

(* And from the back.                                                      *)
LEMMA ReadsBack ==
  ASSUME NEW bs, BlocksOk(bs, NumCoeffs), NEW it, ReaderOk(bs, it), it.back > 0
  PROVE  /\ ReaderOk(bs, IterNextBack(bs, it).it)
         /\ IterNextBack(bs, it).val = StoredAt(bs, it.back - 1)
         /\ IterNextBack(bs, it).it.front = it.front /\ IterNextBack(bs, it).it.back = it.back - 1
<1> DEFINE l == Len(bs)
           d == it.back - 1
           bb == BlockBehind(bs, it.bblock, d)
           val == IF bb > 0 /\ d < EndOf(bs[bb])
                    THEN bs[bb][2][d - StartOf(bs[bb]) + 1] ELSE 0
<1>1. IterNextBack(bs, it) = [it |-> [it EXCEPT !.back = d, !.bblock = bb], val |-> val]
  BY DEF IterNextBack
<1>2. /\ l \in Nat
      /\ \A i \in 1 .. l : bs[i] \in Block /\ StartOf(bs[i]) \in Nat /\ EndOf(bs[i]) \in Nat
                           /\ StartOf(bs[i]) < EndOf(bs[i]) /\ StartOf(bs[i]) = bs[i][1]
      /\ \A i, j \in 1 .. l : i < j => EndOf(bs[i]) <= StartOf(bs[j])
  BY BlocksAre DEF StartOf
<1>3. /\ it.back = d + 1 /\ d \in Nat /\ it.front \in Nat /\ it.fblock \in 1 .. l + 1 /\ it.bblock \in 0 .. l
      /\ it = [front |-> it.front, back |-> it.back, fblock |-> it.fblock, bblock |-> it.bblock]
      /\ \A i \in 1 .. l : i < it.fblock => EndOf(bs[i]) <= it.front
      /\ \A i \in 1 .. l : i > it.bblock => it.back <= StartOf(bs[i])
  BY DEF ReaderOk
<1> HIDE DEF d
<1>4. /\ bb \in 0 .. l
      /\ bb > 0 => StartOf(bs[bb]) <= d
      /\ \A i \in 1 .. l : i > bb => d < StartOf(bs[i])
  <2> DEFINE A == {0} \union { i \in 1 .. it.bblock : StartOf(bs[i]) <= d }
  <2>1. A \subseteq 0 .. l /\ A # {} /\ 0 \in Int /\ l \in Int
    BY <1>2, <1>3
  <2>2. \A i : i \in A <=> i = 0 \/ (i \in 1 .. it.bblock /\ StartOf(bs[i]) <= d)
    OBVIOUS
  <2>3. bb = LastOf(A)
    BY DEF BlockBehind
  <2> HIDE DEF A, bb
  <2>4. bb \in A /\ \A j \in A : bb >= j
    BY <2>1, <2>3, EndsOf
  <2>5. bb \in 0 .. l
    BY <2>1, <2>4
  <2>6. bb > 0 => StartOf(bs[bb]) <= d
    BY <2>2, <2>4
  <2>7. ASSUME NEW i \in 1 .. l, i > bb PROVE d < StartOf(bs[i])
    <3>1. CASE i > it.bblock
      BY <3>1, <1>2, <1>3
    <3>2. CASE i <= it.bblock
      <4>1. i \in 1 .. it.bblock /\ ~ (bb >= i)
        BY <3>2, <2>5, <2>7, <1>2, <1>3
      <4>2. ~ (StartOf(bs[i]) <= d)
        BY <4>1, <2>2, <2>4
      <4> QED
        BY <4>2, <1>2, <1>3
    <3> QED
      BY <3>1, <3>2, <1>2, <1>3
  <2> QED
    BY <2>5, <2>6, <2>7
<1> HIDE DEF bb
<1>5. val = StoredAt(bs, d)
  <2>1. CASE bb > 0 /\ d < EndOf(bs[bb])
    <3>1. bb \in 1 .. l /\ Covers(bs[bb], d)
      BY <2>1, <1>2, <1>3, <1>4 DEF Covers
    <3>2. StoredAt(bs, d) = bs[bb][2][d - bs[bb][1] + 1]
      BY <3>1, <1>3, StoredIs
    <3> QED
      BY <3>1, <3>2, <2>1, <1>2
  <2>2. CASE ~ (bb > 0 /\ d < EndOf(bs[bb]))
    <3>1. ASSUME NEW i \in 1 .. l PROVE ~ Covers(bs[i], d)
      <4>1. CASE i > bb
        BY <4>1, <1>2, <1>3, <1>4 DEF Covers
      <4>2. CASE i = bb
        BY <4>2, <2>2, <1>2, <1>3, <1>4 DEF Covers
      <4>3. CASE i < bb
        <5>1. bb \in 1 .. l /\ StartOf(bs[bb]) <= d /\ EndOf(bs[i]) <= StartOf(bs[bb])
          BY <4>3, <1>2, <1>4
        <5> QED
          BY <5>1, <1>2, <1>3 DEF Covers
      <4> QED
        BY <4>1, <4>2, <4>3, <1>2, <1>4
    <3>2. StoredAt(bs, d) = 0
      BY <3>1, <1>3, StoredIs
    <3>3. val = 0
      BY <2>2
    <3> QED
      BY <3>2, <3>3
  <2> QED
    BY <2>1, <2>2
<1> HIDE DEF val
<1>6. IterNextBack(bs, it).it = [front |-> it.front, back |-> d, fblock |-> it.fblock, bblock |-> bb]
      /\ IterNextBack(bs, it).val = val
  <2>1. it \in [front : Int, back : Int, fblock : Int, bblock : Int]
    BY <1>2, <1>3 DEF ReaderOk
  <2>2. PICK y : y = [it EXCEPT !.back = d, !.bblock = bb]
    OBVIOUS
  <2>3. y = [front |-> it.front, back |-> d, fblock |-> it.fblock, bblock |-> bb]
    BY <2>1, <2>2
  <2>4. IterNextBack(bs, it) = [it |-> y, val |-> val]
    BY <1>1, <2>2, Zenon
  <2> QED
    BY <2>3, <2>4
<1>7. ReaderOk(bs, [front |-> it.front, back |-> d, fblock |-> it.fblock, bblock |-> bb])
  <2>1. \A i \in 1 .. l : i > bb => d <= StartOf(bs[i])
    BY <1>2, <1>3, <1>4
  <2> QED
    BY <2>1, <1>3, <1>4 DEF ReaderOk
<1> QED
  BY <1>5, <1>6, <1>7 DEF d

(* The reader (CoeffIter) of a polynomial that keeps its invariants:       *)
(* whatever was read before and from whichever end, the next coefficient   *)
(* from the front and the next from the back are those the polynomial      *)
(* stores at their degrees.                                                *)
THEOREM SparseReads ==
  ASSUME NEW bs \in Sparse
  PROVE  /\ ReaderOk(bs, NewIter(bs)) /\ NewIter(bs).front = 0 /\ NewIter(bs).back = NumCoeffs
         /\ \A it : ReaderOk(bs, it) =>
              /\ ReaderOk(bs, IterNext(bs, it).it)
              /\ IterNext(bs, it).it.front = it.front + 1 /\ IterNext(bs, it).it.back = it.back
              /\ IterNext(bs, it).val = StoredAt(bs, it.front)
         /\ \A it : ReaderOk(bs, it) /\ it.back > 0 =>
              /\ ReaderOk(bs, IterNextBack(bs, it).it)
              /\ IterNextBack(bs, it).it.front = it.front
              /\ IterNextBack(bs, it).it.back = it.back - 1
              /\ IterNextBack(bs, it).val = StoredAt(bs, it.back - 1)
<1>0. BlocksOk(bs, NumCoeffs)
  BY SparseAre
<1>1. ReaderOk(bs, NewIter(bs)) /\ NewIter(bs).front = 0 /\ NewIter(bs).back = NumCoeffs
  <2>1. Len(bs) \in Nat /\ NumCoeffs \in Nat
    BY <1>0, BlocksAre, Elements
  <2> QED
    BY <2>1 DEF NewIter, ReaderOk
<1>2. ASSUME NEW it, ReaderOk(bs, it)
      PROVE  /\ ReaderOk(bs, IterNext(bs, it).it)
             /\ IterNext(bs, it).it.front = it.front + 1 /\ IterNext(bs, it).it.back = it.back
             /\ IterNext(bs, it).val = StoredAt(bs, it.front)
  BY <1>0, <1>2, ReadsFront
<1>3. ASSUME NEW it, ReaderOk(bs, it), it.back > 0
      PROVE  /\ ReaderOk(bs, IterNextBack(bs, it).it)
             /\ IterNextBack(bs, it).it.front = it.front
             /\ IterNextBack(bs, it).it.back = it.back - 1
             /\ IterNextBack(bs, it).val = StoredAt(bs, it.back - 1)
  BY <1>0, <1>3, ReadsBack
<1> QED
  BY <1>1, <1>2, <1>3
-----------------------------------------------------------------------------
(* A remainder from the number's cut.                                      *)
LEMMA RemainderIs ==
  ASSUME NEW x \in Nat, NEW r \in Nat, r >= 1, NEW q \in Int, NEW m \in 0 .. r - 1, x = r * q + m
  PROVE  x % r = m
<1>1. x \div r \in Int /\ x % r \in 0 .. r - 1 /\ x = r * (x \div r) + (x % r)
  BY Division
<1>2. r * (x \div r) + (x % r) = r * q + m
  BY <1>1
<1> QED
  BY <1>1, <1>2, UniqueRemainder

(* The field's arithmetic with 0 and -1.                                   *)
LEMMA FieldFacts ==
  ASSUME NEW c \in F
  PROVE  /\ Plus(0, c) = c /\ Plus(c, 0) = c /\ Minus(c, 0) = c
         /\ Times(0, c) = 0 /\ Times(c, 0) = 0 /\ Times(c, P - 1) = Minus(0, c)
<1>1. P \in Nat /\ P >= 2 /\ P >= 1 /\ c \in Nat /\ c \in 0 .. P - 1 /\ 0 \in 0 .. P - 1
  BY Elements DEF F
<1>2. c % P = c
  <2>1. c = P * 0 + c
    BY <1>1
  <2> QED
    BY <2>1, <1>1, RemainderIs, 0 \in Int
<1>3. 0 % P = 0
  <2>1. 0 = P * 0 + 0
    BY <1>1
  <2> QED
    BY <2>1, <1>1, RemainderIs, 0 \in Int
<1>4. (c + P) % P = c
  <2>1. c + P \in Nat /\ c + P = P * 1 + c
    BY <1>1
  <2> QED
    BY <2>1, <1>1, RemainderIs, 1 \in Int
<1>5. Plus(0, c) = c /\ Plus(c, 0) = c
  <2>1. 0 + c = c /\ c + 0 = c
    BY <1>1
  <2> QED
    BY <2>1, <1>2 DEF Plus
<1>6. Minus(c, 0) = c
  <2>1. c + P - 0 = c + P
    BY <1>1
  <2> QED
    BY <2>1, <1>4 DEF Minus
<1>7. Times(0, c) = 0 /\ Times(c, 0) = 0
  <2>1. 0 * c = 0 /\ c * 0 = 0
    BY <1>1
  <2> QED
    BY <2>1, <1>3 DEF Times
<1>8. Times(c, P - 1) = Minus(0, c)
  <2>1. CASE c = 0
    <3>1. Minus(0, 0) = 0 /\ Times(0, P - 1) = 0
      <4>1. P - 1 \in F /\ 0 + P - 0 = 0 + P /\ 0 * (P - 1) = 0
        BY <1>1 DEF F
      <4>2. (0 + P) % P = 0
        BY <2>1, <1>4
      <4> QED
        BY <4>1, <4>2, <1>3 DEF Minus, Times
    <3> QED
      BY <3>1, <2>1
  <2>2. CASE c # 0
    <3> DEFINE m == P - c
    <3>1. m \in 0 .. P - 1 /\ m \in Nat /\ c - 1 \in Int
      BY <2>2, <1>1
    <3>2. c * (P - 1) = P * (c - 1) + m /\ c * (P - 1) \in Nat
      <4>1. P - 1 \in Nat /\ P * c \in Nat /\ c * P = P * c
        BY <1>1
      <4>2. c * (P - 1) = c * P - c
        BY <1>1
      <4>3. P * (c - 1) = P * c - P
        BY <1>1
      <4>4. c * (P - 1) \in Nat
        BY <4>1, <1>1
      <4> QED
        BY <4>1, <4>2, <4>3, <4>4, <1>1
    <3>3. (c * (P - 1)) % P = m
      BY <3>1, <3>2, <1>1, RemainderIs
    <3>4. 0 + P - c = m /\ m = P * 0 + m
      BY <1>1, <3>1
    <3>5. m % P = m
      BY <3>1, <3>4, <1>1, RemainderIs, 0 \in Int
    <3> QED
      BY <3>3, <3>4, <3>5 DEF Times, Minus
  <2> QED
    BY <2>1, <2>2
<1> QED
  BY <1>5, <1>6, <1>7, <1>8

(* The blocks with every coefficient multiplied.                           *)
LEMMA MappedKeeps ==
  ASSUME NEW n \in Nat, NEW bs, BlocksOk(bs, n), NEW by \in F
  PROVE  /\ BlocksOk(Mapped(bs, by), n)
         /\ \A d \in Nat : StoredAt(Mapped(bs, by), d) = Times(StoredAt(bs, d), by)
<1> DEFINE l == Len(bs)
           vals(b) == [i \in DOMAIN bs[b][2] |-> Times(bs[b][2][i], by)]
           new == Mapped(bs, by)
<1>1. new = [b \in DOMAIN bs |-> <<bs[b][1], vals(b)>>]
  BY DEF Mapped
<1>2. /\ l \in Nat /\ DOMAIN bs = 1 .. l
      /\ \A b \in 1 .. l : bs[b] \in Block /\ bs[b][2] # <<>> /\ EndOf(bs[b]) <= n
      /\ \A i, j \in 1 .. l : i < j => EndOf(bs[i]) <= StartOf(bs[j])
  BY BlocksAre
<1>3. ASSUME NEW b \in 1 .. l
      PROVE  /\ vals(b) \in Seq(F) /\ Len(vals(b)) = Len(bs[b][2]) /\ vals(b) # <<>>
             /\ bs[b][1] \in Nat /\ Len(bs[b][2]) \in Nat
             /\ \A i \in 1 .. Len(bs[b][2]) : vals(b)[i] = Times(bs[b][2][i], by)
  <2> DEFINE k == Len(bs[b][2])
  <2>1. bs[b][2] \in Seq(F) /\ k \in Nat /\ DOMAIN bs[b][2] = 1 .. k /\ bs[b][1] \in Nat /\ k # 0
    BY <1>2, <1>3, BlockIs, EmptySeq
  <2>2. \A i \in 1 .. k : Times(bs[b][2][i], by) \in F
    <3>1. \A i \in 1 .. k : bs[b][2][i] \in F
      BY <2>1, ElementOfSeq
    <3> QED
      BY <3>1, Elements
  <2> HIDE DEF k
  <2>3. vals(b) = [i \in 1 .. k |-> Times(bs[b][2][i], by)]
    BY <2>1
  <2>4. vals(b) \in [1 .. k -> F]
    BY <2>2, <2>3
  <2>5. vals(b) \in Seq(F) /\ Len(vals(b)) = k
    BY <2>1, <2>3, <2>4
  <2>6. vals(b) # <<>>
    BY <2>1, <2>5, EmptySeq
  <2>7. \A i \in 1 .. k : vals(b)[i] = Times(bs[b][2][i], by)
    BY <2>3
  <2> QED
    BY <2>1, <2>5, <2>6, <2>7 DEF k
<1> HIDE DEF vals, new
<1>4. ASSUME NEW b \in 1 .. l
      PROVE  /\ new[b] = <<bs[b][1], vals(b)>> /\ new[b] \in Block /\ new[b][1] = bs[b][1]
             /\ new[b][2] = vals(b) /\ StartOf(new[b]) = StartOf(bs[b]) /\ EndOf(new[b]) = EndOf(bs[b])
  <2>1. new[b] = <<bs[b][1], vals(b)>>
    BY <1>1, <1>2, <1>4
  <2> QED
    BY <2>1, <1>3, <1>4 DEF Block, StartOf, EndOf
<1>5. new \in Seq(Block) /\ Len(new) = l /\ DOMAIN new = 1 .. l
  <2>1. new \in [1 .. l -> Block]
    BY <1>1, <1>2, <1>4
  <2> QED
    BY <2>1, <1>2
<1>6. BlocksOk(new, n)
  <2>1. \A i \in 1 .. l : new[i][2] # <<>> /\ EndOf(new[i]) <= n
    BY <1>2, <1>3, <1>4
  <2>2. \A i, j \in 1 .. l : i < j => EndOf(new[i]) <= StartOf(new[j])
    BY <1>2, <1>4
  <2> QED
    BY <2>1, <2>2, <1>5 DEF BlocksOk
<1>7. ASSUME NEW d \in Nat PROVE StoredAt(new, d) = Times(StoredAt(bs, d), by)
  <2>1. \A i \in 1 .. l : Covers(new[i], d) <=> Covers(bs[i], d)
    BY <1>4 DEF Covers
  <2>2. CASE \E i \in 1 .. l : Covers(bs[i], d)
    <3>1. PICK i \in 1 .. l : Covers(bs[i], d)
      BY <2>2
    <3>2. StoredAt(bs, d) = bs[i][2][d - bs[i][1] + 1]
      BY <3>1, StoredIs
    <3>3. StoredAt(new, d) = new[i][2][d - new[i][1] + 1]
      BY <3>1, <2>1, <1>5, <1>6, StoredIs
    <3>4. d - bs[i][1] + 1 \in 1 .. Len(bs[i][2])
      BY <3>1, <1>3 DEF Covers, StartOf, EndOf
    <3> QED
      BY <3>2, <3>3, <3>4, <1>3, <1>4
  <2>3. CASE \A i \in 1 .. l : ~ Covers(bs[i], d)
    <3>1. StoredAt(bs, d) = 0 /\ StoredAt(new, d) = 0
      BY <2>1, <2>3, <1>5, <1>6, StoredIs
    <3> QED
      BY <3>1, FieldFacts
  <2> QED
    BY <2>2, <2>3
<1> QED
  BY <1>6, <1>7 DEF new

(* Multiplying a polynomial by an element (scale), and negating it, keeps  *)
(* the invariants and does it to every coefficient, multiplying by 0,      *)
(* which takes the blocks away, included.                                  *)
THEOREM SparseScales ==
  ASSUME NEW bs \in Sparse, NEW by \in F
  PROVE  /\ Scale(bs, by) \in Sparse /\ Negate(bs) \in Sparse
         /\ \A d \in Nat : /\ StoredAt(Scale(bs, by), d) = Times(StoredAt(bs, d), by)
                           /\ StoredAt(Negate(bs), d) = Minus(0, StoredAt(bs, d))
<1> SUFFICES ASSUME BlocksOk(bs, NumCoeffs)
             PROVE  /\ BlocksOk(Scale(bs, by), NumCoeffs) /\ BlocksOk(Negate(bs), NumCoeffs)
                    /\ \A d \in Nat : /\ StoredAt(Scale(bs, by), d) = Times(StoredAt(bs, d), by)
                                      /\ StoredAt(Negate(bs), d) = Minus(0, StoredAt(bs, d))
  BY SparseAre
<1>1. NumCoeffs \in Nat /\ P - 1 \in F
  BY Elements DEF F
<1>2. ASSUME NEW d \in Nat PROVE StoredAt(bs, d) \in F
  BY StoredIs
<1>3. /\ BlocksOk(Negate(bs), NumCoeffs)
      /\ \A d \in Nat : StoredAt(Negate(bs), d) = Minus(0, StoredAt(bs, d))
  <2>1. /\ BlocksOk(Negate(bs), NumCoeffs)
        /\ \A d \in Nat : StoredAt(Negate(bs), d) = Times(StoredAt(bs, d), P - 1)
    BY <1>1, MappedKeeps DEF Negate
  <2> QED
    BY <2>1, <1>2, FieldFacts
<1>4. /\ BlocksOk(Scale(bs, by), NumCoeffs)
      /\ \A d \in Nat : StoredAt(Scale(bs, by), d) = Times(StoredAt(bs, d), by)
  <2>1. CASE by = 0
    <3>1. Scale(bs, by) = <<>>
      BY <2>1 DEF Scale
    <3>2. BlocksOk(<<>>, NumCoeffs) /\ \A d \in Nat : StoredAt(<<>>, d) = 0
      BY <1>1, NoBlocks
    <3>3. \A d \in Nat : Times(StoredAt(bs, d), by) = 0
      BY <2>1, <1>2, FieldFacts
    <3> QED
      BY <3>1, <3>2, <3>3
  <2>2. CASE by # 0
    <3>1. Scale(bs, by) = Mapped(bs, by)
      BY <2>2 DEF Scale
    <3> QED
      BY <3>1, <1>1, MappedKeeps
  <2> QED
    BY <2>1, <2>2
<1> QED
  BY <1>3, <1>4
-----------------------------------------------------------------------------
(* Combining two polynomials: the operation's results, with 0 too.         *)
LEMMA Applies ==
  ASSUME NEW op, NEW a \in F
  PROVE  /\ \A b \in F : Apply(op, a, b) \in F
         /\ Apply(op, a, 0) = a /\ Apply(op, 0, 0) = 0
<1>1. 0 \in F /\ \A b \in F : Plus(a, b) \in F /\ Minus(a, b) \in F
  BY Elements
<1>2. Plus(a, 0) = a /\ Minus(a, 0) = a /\ Plus(0, 0) = 0 /\ Minus(0, 0) = 0
  BY <1>1, FieldFacts
<1> QED
  BY <1>1, <1>2 DEF Apply

(* Data compressed behind other blocks.                                    *)
Extended(new, out, s, data) == new = ExtendRuns(out, s, data)

(* Compressing behind blocks that end at or before the data's start.       *)
LEMMA Extends ==
  ASSUME NEW out, NEW e \in Nat, BlocksOk(out, e), NEW s \in Nat, e <= s, NEW data \in Seq(F),
         NEW new, Extended(new, out, s, data)
  PROVE  Split(new, out, s, data, Len(data))
<1>1. BlocksOk(out, s)
  BY BlocksBelow
<1> QED
  BY <1>1, Compresses DEF Extended

(* Some of the blocks, from a to before b.                                 *)
IsWindow(w, bs, a, b) == w = SubSeq(bs, a, b - 1)
WindowIs(w, bs, a, b, z) ==
  /\ BlocksOk(w, z) /\ Len(w) = b - a /\ \A i \in 1 .. Len(w) : w[i] = bs[a + i - 1]
  /\ \A d \in Nat : (\A i \in a .. b - 1 : ~ Covers(bs[i], d)) => StoredAt(w, d) = 0
  /\ \A d \in Nat : (\A i \in 1 .. Len(bs) : Covers(bs[i], d) => i \in a .. b - 1)
                      => StoredAt(w, d) = StoredAt(bs, d)

(* They are in order too, and store what all the blocks store where they   *)
(* are the ones to look at.                                                *)
LEMMA Window ==
  ASSUME NEW n \in Nat, NEW bs, BlocksOk(bs, n), NEW a \in 1 .. Len(bs) + 1, NEW b \in a .. Len(bs) + 1,
         NEW z \in Nat, \A i \in a .. b - 1 : EndOf(bs[i]) <= z,
         NEW w, IsWindow(w, bs, a, b)
  PROVE  WindowIs(w, bs, a, b, z)
<1> DEFINE l == Len(bs)
<1>1. /\ l \in Nat /\ DOMAIN bs = 1 .. l
      /\ \A i \in 1 .. l : bs[i] \in Block /\ bs[i][2] # <<>>
      /\ \A i, j \in 1 .. l : i < j => EndOf(bs[i]) <= StartOf(bs[j])
  BY BlocksAre
<1>2. a \in Int /\ b - 1 \in Int /\ a \in 1 .. l + 1 /\ b \in a .. l + 1 /\ a .. b - 1 \subseteq 1 .. l
  BY <1>1
<1> HIDE DEF l
<1>3. \A i \in a .. b - 1 : bs[i] \in Block
  BY <1>1, <1>2
<1>4. /\ w \in Seq(Block) /\ Len(w) = IF a <= b - 1 THEN b - 1 - a + 1 ELSE 0
      /\ \A i \in 1 .. b - 1 - a + 1 : w[i] = bs[a + i - 1]
  BY <1>2, <1>3, SubSeqProperties DEF IsWindow
<1>5. Len(w) = b - a /\ Len(w) \in Nat /\ b - 1 - a + 1 = b - a
  BY <1>2, <1>4
<1>6. DOMAIN w = 1 .. Len(w) /\ \A i \in 1 .. Len(w) : w[i] = bs[a + i - 1]
  BY <1>4, <1>5
<1>7. \A i \in 1 .. Len(w) : a + i - 1 \in a .. b - 1 /\ a + i - 1 \in 1 .. l
  BY <1>2, <1>5
<1>8. BlocksOk(w, z)
  <2>1. \A i \in 1 .. Len(w) : w[i][2] # <<>> /\ EndOf(w[i]) <= z
    BY <1>1, <1>6, <1>7
  <2>2. ASSUME NEW i \in 1 .. Len(w), NEW j \in 1 .. Len(w), i < j PROVE EndOf(w[i]) <= StartOf(w[j])
    <3>1. a + i - 1 < a + j - 1
      BY <2>2, <1>2
    <3> QED
      BY <3>1, <1>1, <1>6, <1>7
  <2> QED
    BY <2>1, <2>2, <1>4, <1>6 DEF BlocksOk
<1>9. ASSUME NEW d \in Nat, \A i \in a .. b - 1 : ~ Covers(bs[i], d) PROVE StoredAt(w, d) = 0
  <2>1. \A i \in 1 .. Len(w) : ~ Covers(w[i], d)
    BY <1>6, <1>7, <1>9
  <2> QED
    BY <2>1, <1>8, StoredIs
<1>10. ASSUME NEW d \in Nat, \A i \in 1 .. Len(bs) : Covers(bs[i], d) => i \in a .. b - 1
       PROVE  StoredAt(w, d) = StoredAt(bs, d)
  <2>1. CASE \E i \in 1 .. Len(bs) : Covers(bs[i], d)
    <3>1. PICK i \in 1 .. Len(bs) : Covers(bs[i], d)
      BY <2>1
    <3>2. PICK k \in 1 .. Len(w) : i = a + k - 1
      <4>1. i \in a .. b - 1
        BY <3>1, <1>10
      <4>2. i - a + 1 \in 1 .. Len(w) /\ i = a + (i - a + 1) - 1
        BY <4>1, <1>2, <1>5
      <4> QED
        BY <4>2
    <3>3. w[k] = bs[i]
      BY <3>2, <1>6
    <3>4. StoredAt(bs, d) = bs[i][2][d - bs[i][1] + 1]
      BY <3>1, StoredIs
    <3>5. StoredAt(w, d) = w[k][2][d - w[k][1] + 1]
      BY <3>1, <3>3, <1>8, StoredIs
    <3> QED
      BY <3>3, <3>4, <3>5
  <2>2. CASE \A i \in 1 .. Len(bs) : ~ Covers(bs[i], d)
    <3>1. StoredAt(bs, d) = 0
      BY <2>2, StoredIs
    <3>2. \A i \in a .. b - 1 : ~ Covers(bs[i], d)
      BY <2>2, <1>2 DEF l
    <3> QED
      BY <3>1, <3>2, <1>9
  <2> QED
    BY <2>1, <2>2
<1> QED
  BY <1>5, <1>6, <1>8, <1>9, <1>10 DEF WindowIs

(* Blocks put behind blocks below degree e.                                *)
IsJoin(new, out, w) == new = out \o w
JoinIs(new, out, w, e, z) ==
  /\ BlocksOk(new, z)
  /\ \A d \in Nat : StoredAt(new, d) = IF d < e THEN StoredAt(out, d) ELSE StoredAt(w, d)

(* Blocks from e on, put behind blocks below e.                            *)
LEMMA BlocksJoin ==
  ASSUME NEW out, NEW e \in Nat, BlocksOk(out, e), NEW w, NEW z \in Nat, e <= z, BlocksOk(w, z),
         \A i \in 1 .. Len(w) : e <= StartOf(w[i]),
         NEW new, IsJoin(new, out, w)
  PROVE  JoinIs(new, out, w, e, z)
<1> DEFINE l == Len(out)
           m == Len(w)
<1>1. /\ l \in Nat /\ IsList(out) /\ out \in Seq(Block)
      /\ \A i \in 1 .. l : out[i][2] # <<>> /\ EndOf(out[i]) <= e /\ EndOf(out[i]) \in Nat
      /\ \A i, j \in 1 .. l : i < j => EndOf(out[i]) <= StartOf(out[j])
  BY BlocksAre DEF BlocksOk
<1>2. /\ m \in Nat /\ IsList(w) /\ w \in Seq(Block)
      /\ \A i \in 1 .. m : w[i][2] # <<>> /\ EndOf(w[i]) <= z /\ e <= StartOf(w[i]) /\ StartOf(w[i]) \in Nat
      /\ \A i, j \in 1 .. m : i < j => EndOf(w[i]) <= StartOf(w[j])
  BY BlocksAre DEF BlocksOk
<1>3. /\ new \in Seq(Block) /\ Len(new) = l + m /\ DOMAIN new = 1 .. l + m
      /\ \A i \in 1 .. l : new[i] = out[i]
      /\ \A i \in 1 .. m : new[l + i] = w[i]
  <2>0. new = out \o w
    BY DEF IsJoin
  <2>1. new \in Seq(Block)
    BY <2>0, <1>1, <1>2, ConcatProperties
  <2>2. /\ Len(out \o w) = Len(out) + Len(w) /\ DOMAIN (out \o w) = 1 .. Len(out) + Len(w)
        /\ \A k \in 1 .. Len(out) : (out \o w)[k] = out[k]
        /\ \A k \in 1 .. Len(w) : (out \o w)[Len(out) + k] = w[k]
    BY <1>1, <1>2, Joined
  <2> QED
    BY <2>0, <2>1, <2>2
<1> HIDE DEF l, m
<1>4. \A i \in 1 .. l + m : i \in 1 .. l \/ (i - l \in 1 .. m /\ new[i] = w[i - l])
  <2> SUFFICES ASSUME NEW i \in 1 .. l + m, i \notin 1 .. l PROVE i - l \in 1 .. m /\ new[i] = w[i - l]
    OBVIOUS
  <2>1. i - l \in 1 .. m /\ l + (i - l) = i
    BY <1>1, <1>2
  <2>2. new[l + (i - l)] = w[i - l]
    BY <2>1, <1>3
  <2> QED
    BY <2>1, <2>2
<1>5. ASSUME NEW i \in 1 .. l + m PROVE new[i][2] # <<>> /\ EndOf(new[i]) <= z
  <2>1. CASE i \in 1 .. l
    BY <2>1, <1>1, <1>3
  <2>2. CASE i - l \in 1 .. m /\ new[i] = w[i - l]
    BY <2>2, <1>2
  <2> QED
    BY <2>1, <2>2, <1>4, <1>5
<1>6. ASSUME NEW i \in 1 .. l + m, NEW j \in 1 .. l + m, i < j PROVE EndOf(new[i]) <= StartOf(new[j])
  <2>1. CASE j \in 1 .. l
    <3>1. i \in 1 .. l
      BY <2>1, <1>1, <1>6
    <3> QED
      BY <2>1, <3>1, <1>1, <1>3, <1>6
  <2>2. CASE j - l \in 1 .. m /\ new[j] = w[j - l]
    <3>1. CASE i \in 1 .. l
      <4>1. EndOf(new[i]) <= e /\ EndOf(new[i]) \in Nat /\ e <= StartOf(new[j]) /\ StartOf(new[j]) \in Nat
        BY <2>2, <3>1, <1>1, <1>2, <1>3
      <4>2. PICK p \in Nat, q \in Nat : p = EndOf(new[i]) /\ q = StartOf(new[j])
        BY <4>1, Zenon
      <4>3. p <= e /\ e <= q
        BY <4>1, <4>2, Zenon
      <4>4. p <= q
        BY <4>3
      <4> QED
        BY <4>2, <4>4, Zenon
    <3>2. CASE i - l \in 1 .. m /\ new[i] = w[i - l]
      <4>1. PICK x \in 1 .. m, y \in 1 .. m : x = i - l /\ y = j - l
        BY <2>2, <3>2
      <4>2. x < y
        BY <4>1, <1>1, <1>6
      <4>3. EndOf(w[x]) <= StartOf(w[y])
        BY <4>2, <1>2
      <4>4. new[i] = w[x] /\ new[j] = w[y]
        BY <4>1, <2>2, <3>2, Zenon
      <4> QED
        BY <4>3, <4>4, Zenon
    <3> QED
      BY <3>1, <3>2, <1>4
  <2> QED
    BY <2>1, <2>2, <1>4
<1>7. BlocksOk(new, z)
  BY <1>3, <1>5, <1>6 DEF BlocksOk
<1>8. \A i \in 1 .. l : i \in 1 .. l + m
  BY <1>1, <1>2
<1>9. \A i \in 1 .. m : l + i \in 1 .. l + m
  BY <1>1, <1>2
<1>10. ASSUME NEW d \in Nat, d < e PROVE StoredAt(new, d) = StoredAt(out, d)
  <2>1. \A i \in 1 .. m : ~ Covers(w[i], d)
    BY <1>2, <1>10 DEF Covers
  <2>2. CASE \E i \in 1 .. l : Covers(out[i], d)
    <3>1. PICK i \in 1 .. l : Covers(out[i], d)
      BY <2>2
    <3>2. StoredAt(out, d) = out[i][2][d - out[i][1] + 1]
      BY <3>1, StoredIs DEF l
    <3>3. StoredAt(new, d) = new[i][2][d - new[i][1] + 1]
      BY <3>1, <1>3, <1>7, <1>8, StoredIs
    <3> QED
      BY <3>1, <3>2, <3>3, <1>3
  <2>3. CASE \A i \in 1 .. l : ~ Covers(out[i], d)
    <3>1. StoredAt(out, d) = 0
      BY <2>3, StoredIs DEF l
    <3>2. \A i \in 1 .. Len(new) : ~ Covers(new[i], d)
      BY <2>1, <2>3, <1>3, <1>4
    <3>3. StoredAt(new, d) = 0
      BY <3>2, <1>7, StoredIs
    <3> QED
      BY <3>1, <3>3
  <2> QED
    BY <2>2, <2>3
<1>11. ASSUME NEW d \in Nat, ~ (d < e) PROVE StoredAt(new, d) = StoredAt(w, d)
  <2>1. \A i \in 1 .. l : ~ Covers(out[i], d)
    BY <1>1, <1>11 DEF Covers
  <2>2. CASE \E i \in 1 .. m : Covers(w[i], d)
    <3>1. PICK i \in 1 .. m : Covers(w[i], d)
      BY <2>2
    <3>2. StoredAt(w, d) = w[i][2][d - w[i][1] + 1]
      BY <3>1, StoredIs DEF m
    <3>3. l + i \in 1 .. Len(new) /\ new[l + i] = w[i]
      BY <3>1, <1>3, <1>9
    <3>4. StoredAt(new, d) = new[l + i][2][d - new[l + i][1] + 1]
      BY <3>1, <3>3, <1>7, StoredIs
    <3> QED
      BY <3>2, <3>3, <3>4
  <2>3. CASE \A i \in 1 .. m : ~ Covers(w[i], d)
    <3>1. StoredAt(w, d) = 0
      BY <2>3, StoredIs DEF m
    <3>2. \A i \in 1 .. Len(new) : ~ Covers(new[i], d)
      BY <2>1, <2>3, <1>3, <1>4
    <3>3. StoredAt(new, d) = 0
      BY <3>2, <1>7, StoredIs
    <3> QED
      BY <3>1, <3>3
  <2> QED
    BY <2>2, <2>3
<1> QED
  BY <1>7, <1>10, <1>11 DEF JoinIs
-----------------------------------------------------------------------------
(* A cluster as it grows from places li and ri of the two sides: k steps   *)
(* make it k blocks longer, unless no block of either side starts in it or *)
(* touches it any more.                                                    *)
ClusterDone(lhs, rhs, c) ==
  /\ c.li <= Len(lhs) => c.end < StartOf(lhs[c.li])
  /\ c.ri <= Len(rhs) => c.end < StartOf(rhs[c.ri])
ClusterState(lhs, rhs) == [li : 1 .. Len(lhs) + 1, ri : 1 .. Len(rhs) + 1, end : Nat]
Clustered(c, lhs, rhs, li, ri, start, n) ==
  /\ c \in ClusterState(lhs, rhs)
  /\ li <= c.li /\ ri <= c.ri /\ start <= c.end /\ c.end <= n
  /\ \A i \in li .. c.li - 1 : EndOf(lhs[i]) <= c.end
  /\ \A i \in ri .. c.ri - 1 : EndOf(rhs[i]) <= c.end
GrowStep(lhs, rhs, c) ==
  LET l == c.li <= Len(lhs) /\ lhs[c.li][1] <= c.end
      r == c.ri <= Len(rhs) /\ rhs[c.ri][1] <= c.end
      higher(e) == IF e > c.end THEN e ELSE c.end
  IN  CASE l -> [c EXCEPT !.li = @ + 1, !.end = higher(EndOf(lhs[c.li]))]
        [] ~l /\ r -> [c EXCEPT !.ri = @ + 1, !.end = higher(EndOf(rhs[c.ri]))]
        [] ~l /\ ~r -> c

(* One step of a cluster.                                                  *)
LEMMA GrowSteps ==
  ASSUME NEW n \in Nat, NEW lhs, NEW rhs, BlocksOk(lhs, n), BlocksOk(rhs, n),
         NEW li \in 1 .. Len(lhs) + 1, NEW ri \in 1 .. Len(rhs) + 1, NEW start \in Nat,
         NEW c, Clustered(c, lhs, rhs, li, ri, start, n), NEW new, new = GrowStep(lhs, rhs, c)
  PROVE  /\ Clustered(new, lhs, rhs, li, ri, start, n)
         /\ ~ ClusterDone(lhs, rhs, c) => new.li + new.ri = c.li + c.ri + 1
         /\ ClusterDone(lhs, rhs, c) => new = c
<1> DEFINE x == Len(lhs)
           y == Len(rhs)
           l == c.li <= x /\ lhs[c.li][1] <= c.end
           r == c.ri <= y /\ rhs[c.ri][1] <= c.end
           higher(e) == IF e > c.end THEN e ELSE c.end
<1>1. /\ x \in Nat
      /\ \A i \in 1 .. x : StartOf(lhs[i]) \in Nat /\ EndOf(lhs[i]) \in Nat /\ EndOf(lhs[i]) <= n
                           /\ StartOf(lhs[i]) = lhs[i][1]
  BY BlocksAre DEF StartOf
<1>2. /\ y \in Nat
      /\ \A i \in 1 .. y : StartOf(rhs[i]) \in Nat /\ EndOf(rhs[i]) \in Nat /\ EndOf(rhs[i]) <= n
                           /\ StartOf(rhs[i]) = rhs[i][1]
  BY BlocksAre DEF StartOf
<1>3. /\ c \in [li : 1 .. x + 1, ri : 1 .. y + 1, end : Nat]
      /\ c.li \in 1 .. x + 1 /\ c.ri \in 1 .. y + 1 /\ c.end \in Nat /\ li \in 1 .. x + 1 /\ ri \in 1 .. y + 1
      /\ li <= c.li /\ ri <= c.ri /\ start <= c.end /\ c.end <= n
      /\ \A i \in li .. c.li - 1 : EndOf(lhs[i]) <= c.end
      /\ \A i \in ri .. c.ri - 1 : EndOf(rhs[i]) <= c.end
  BY DEF Clustered, ClusterState
<1>4. new = CASE l -> [c EXCEPT !.li = @ + 1, !.end = higher(EndOf(lhs[c.li]))]
             [] ~l /\ r -> [c EXCEPT !.ri = @ + 1, !.end = higher(EndOf(rhs[c.ri]))]
             [] ~l /\ ~r -> c
  BY DEF GrowStep
<1>5. \A e \in Nat : e <= n => higher(e) \in Nat /\ c.end <= higher(e) /\ e <= higher(e) /\ higher(e) <= n
  BY <1>3
<1>6. ClusterDone(lhs, rhs, c) <=> ~l /\ ~r
  BY <1>1, <1>2, <1>3 DEF ClusterDone
<1>7. CASE l
  <2> DEFINE h == higher(EndOf(lhs[c.li]))
  <2>1. c.li \in 1 .. x
    BY <1>3, <1>7
  <2>2. h \in Nat /\ c.end <= h /\ EndOf(lhs[c.li]) <= h /\ h <= n
    BY <2>1, <1>1, <1>5
  <2>3. new = [c EXCEPT !.li = @ + 1, !.end = h]
    BY <1>4, <1>7
  <2> HIDE DEF h, l
  <2>4. new = [li |-> c.li + 1, ri |-> c.ri, end |-> h]
    BY <2>3, <1>3
  <2>5. new \in ClusterState(lhs, rhs)
    BY <2>1, <2>2, <2>4, <1>1, <1>3 DEF ClusterState
  <2>6. ASSUME NEW i \in li .. new.li - 1 PROVE EndOf(lhs[i]) <= new.end
    <3>1. CASE i = c.li
      BY <3>1, <2>2, <2>4
    <3>2. CASE i # c.li
      <4>1. i \in li .. c.li - 1 /\ i \in 1 .. x
        BY <3>2, <2>4, <2>6, <1>1, <1>3
      <4>2. EndOf(lhs[i]) <= c.end /\ EndOf(lhs[i]) \in Nat
        BY <4>1, <1>1, <1>3
      <4> QED
        BY <4>2, <2>2, <2>4, <1>3
    <3> QED
      BY <3>1, <3>2
  <2>7. ASSUME NEW i \in ri .. new.ri - 1 PROVE EndOf(rhs[i]) <= new.end
    <3>1. i \in ri .. c.ri - 1 /\ i \in 1 .. y
      BY <2>4, <2>7, <1>2, <1>3
    <3>2. EndOf(rhs[i]) <= c.end /\ EndOf(rhs[i]) \in Nat
      BY <3>1, <1>2, <1>3
    <3> QED
      BY <3>2, <2>2, <2>4, <1>3
  <2>8. li <= new.li /\ ri <= new.ri /\ start <= new.end /\ new.end <= n
    BY <2>2, <2>4, <1>3
  <2>9. new.li + new.ri = c.li + c.ri + 1
    BY <2>4, <1>3
  <2> QED
    BY <2>5, <2>6, <2>7, <2>8, <2>9, <1>6, <1>7 DEF Clustered
<1>8. CASE ~l /\ r
  <2> DEFINE h == higher(EndOf(rhs[c.ri]))
  <2>1. c.ri \in 1 .. y
    BY <1>3, <1>8
  <2>2. h \in Nat /\ c.end <= h /\ EndOf(rhs[c.ri]) <= h /\ h <= n
    BY <2>1, <1>2, <1>5
  <2>3. new = [c EXCEPT !.ri = @ + 1, !.end = h]
    BY <1>4, <1>8
  <2> HIDE DEF h, l, r
  <2>4. new = [li |-> c.li, ri |-> c.ri + 1, end |-> h]
    BY <2>3, <1>3
  <2>5. new \in ClusterState(lhs, rhs)
    BY <2>1, <2>2, <2>4, <1>2, <1>3 DEF ClusterState
  <2>6. ASSUME NEW i \in ri .. new.ri - 1 PROVE EndOf(rhs[i]) <= new.end
    <3>1. CASE i = c.ri
      BY <3>1, <2>2, <2>4
    <3>2. CASE i # c.ri
      <4>1. i \in ri .. c.ri - 1 /\ i \in 1 .. y
        BY <3>2, <2>4, <2>6, <1>2, <1>3
      <4>2. EndOf(rhs[i]) <= c.end /\ EndOf(rhs[i]) \in Nat
        BY <4>1, <1>2, <1>3
      <4> QED
        BY <4>2, <2>2, <2>4, <1>3
    <3> QED
      BY <3>1, <3>2
  <2>7. ASSUME NEW i \in li .. new.li - 1 PROVE EndOf(lhs[i]) <= new.end
    <3>1. i \in li .. c.li - 1 /\ i \in 1 .. x
      BY <2>4, <2>7, <1>1, <1>3
    <3>2. EndOf(lhs[i]) <= c.end /\ EndOf(lhs[i]) \in Nat
      BY <3>1, <1>1, <1>3
    <3> QED
      BY <3>2, <2>2, <2>4, <1>3
  <2>8. li <= new.li /\ ri <= new.ri /\ start <= new.end /\ new.end <= n
    BY <2>2, <2>4, <1>3
  <2>9. new.li + new.ri = c.li + c.ri + 1
    BY <2>4, <1>3
  <2> QED
    BY <2>5, <2>6, <2>7, <2>8, <2>9, <1>6, <1>8 DEF Clustered
<1>9. CASE ~l /\ ~r
  BY <1>4, <1>6, <1>9
<1> QED
  BY <1>7, <1>8, <1>9

(* The whole cluster.                                                      *)
LEMMA ClusterIs ==
  ASSUME NEW n \in Nat, NEW lhs, NEW rhs, BlocksOk(lhs, n), BlocksOk(rhs, n),
         NEW li \in 1 .. Len(lhs) + 1, NEW ri \in 1 .. Len(rhs) + 1, NEW start \in Nat, start <= n,
         \/ li <= Len(lhs) /\ StartOf(lhs[li]) = start
         \/ ri <= Len(rhs) /\ StartOf(rhs[ri]) = start,
         NEW c, c = Cluster(lhs, rhs, li, ri, start)
  PROVE  /\ Clustered(c, lhs, rhs, li, ri, start, n) /\ ClusterDone(lhs, rhs, c)
         /\ c.li + c.ri > li + ri
<1> DEFINE m == Len(lhs) + Len(rhs)
           base == [li |-> li, ri |-> ri, end |-> start]
           CS == { v \in ClusterState(lhs, rhs) : Clustered(v, lhs, rhs, li, ri, start, n) }
           Solves(g) == g = [k \in 0 .. m |-> IF k = 0 THEN base ELSE GrowStep(lhs, rhs, g[k - 1])]
           grow == CHOOSE g : Solves(g)
           Step == [v \in CS \X (0 + 1 .. m) |-> GrowStep(lhs, rhs, v[1])]
<1>1. c = grow[m]
  BY DEF Cluster, GrowStep
<1>2. Len(lhs) \in Nat /\ Len(rhs) \in Nat /\ m \in Nat
  BY BlocksAre
<1>3. base \in ClusterState(lhs, rhs) /\ Clustered(base, lhs, rhs, li, ri, start, n) /\ base \in CS
  <2>1. base \in ClusterState(lhs, rhs)
    BY <1>2 DEF ClusterState
  <2>2. li .. base.li - 1 = {} /\ ri .. base.ri - 1 = {}
    BY <1>2
  <2>3. Clustered(base, lhs, rhs, li, ri, start, n)
    BY <2>1, <2>2, <1>2 DEF Clustered
  <2> QED
    BY <2>1, <2>3
<1>4. ASSUME NEW v \in CS PROVE GrowStep(lhs, rhs, v) \in CS
  <2>1. Clustered(v, lhs, rhs, li, ri, start, n)
    OBVIOUS
  <2>2. Clustered(GrowStep(lhs, rhs, v), lhs, rhs, li, ri, start, n)
    BY <2>1, GrowSteps
  <2> QED
    BY <2>2 DEF Clustered
<1>5. \A v \in CS : Clustered(v, lhs, rhs, li, ri, start, n)
  OBVIOUS
<1> HIDE DEF CS, base, m
<1>6. Step \in [CS \X (0 + 1 .. m) -> CS]
  BY <1>4
<1>7. ASSUME NEW v \in CS, NEW k \in 0 + 1 .. m PROVE Step[<<v, k>>] = GrowStep(lhs, rhs, v)
  OBVIOUS
<1> HIDE DEF Step
<1>8. PICK f : Follows(f, 0, m, CS, base, Step)
  BY <1>2, <1>3, <1>6, Iterates, 0 \in Int, m \in Int, 0 <= m
<1>9. f \in [0 .. m -> CS] /\ f[0] = base /\ \A k \in 0 + 1 .. m : f[k] = Step[<<f[k - 1], k>>]
  BY <1>8 DEF Follows
<1>10. ASSUME NEW k \in 0 .. m, k # 0 PROVE k \in 0 + 1 .. m /\ k - 1 \in 0 .. m
  BY <1>2, <1>10
<1>11. \A k \in 0 .. m : f[k] = IF k = 0 THEN base ELSE GrowStep(lhs, rhs, f[k - 1])
  <2> SUFFICES ASSUME NEW k \in 0 .. m
               PROVE  f[k] = IF k = 0 THEN base ELSE GrowStep(lhs, rhs, f[k - 1])
    OBVIOUS
  <2>1. CASE k = 0
    BY <2>1, <1>9
  <2>2. CASE k # 0
    <3>1. k \in 0 + 1 .. m /\ f[k - 1] \in CS
      BY <2>2, <1>9, <1>10
    <3>2. f[k] = GrowStep(lhs, rhs, f[k - 1])
      BY <3>1, <1>7, <1>9
    <3> QED
      BY <3>2, <2>2
  <2> QED
    BY <2>1, <2>2
<1>12. Solves(grow)
  <2>1. f = [k \in 0 .. m |-> f[k]]
    BY <1>9
  <2>2. Solves(f)
    BY <2>1, <1>11
  <2> QED
    BY <2>2
<1>13. \A k \in 0 .. m : grow[k] = IF k = 0 THEN base ELSE GrowStep(lhs, rhs, grow[k - 1])
  BY <1>12, Zenon
<1> HIDE DEF grow, Solves
<1> DEFINE U == { k \in 0 .. m : /\ grow[k] \in CS
                                 /\ grow[k].li + grow[k].ri >= li + ri
                                 /\ k > 0 => grow[k].li + grow[k].ri > li + ri
                                 /\ \/ ClusterDone(lhs, rhs, grow[k])
                                    \/ grow[k].li + grow[k].ri >= li + ri + k }
<1>14. 0 \in U /\ ~ ClusterDone(lhs, rhs, grow[0])
  <2>1. 0 \in 0 .. m /\ grow[0] = base
    BY <1>2, <1>13
  <2>2. base.li = li /\ base.ri = ri /\ base.end = start
    BY DEF base
  <2>3. ~ ClusterDone(lhs, rhs, base)
    BY <2>2, <1>2 DEF ClusterDone
  <2> QED
    BY <2>1, <2>2, <2>3, <1>2, <1>3
<1>15. \A k \in 0 + 1 .. m : k - 1 \in U => k \in U
  <2> SUFFICES ASSUME NEW k \in 0 + 1 .. m, k - 1 \in U PROVE k \in U
    OBVIOUS
  <2> DEFINE v == grow[k - 1]
             w == grow[k]
  <2>1. k \in 0 .. m /\ k # 0 /\ k - 1 \in 0 .. m
    BY <1>2
  <2>2. w = GrowStep(lhs, rhs, v)
    BY <2>1, <1>13
  <2>3. /\ v \in CS /\ v.li + v.ri >= li + ri
        /\ k - 1 > 0 => v.li + v.ri > li + ri
        /\ ClusterDone(lhs, rhs, v) \/ v.li + v.ri >= li + ri + (k - 1)
    OBVIOUS
  <2>4. k - 1 = 0 => ~ ClusterDone(lhs, rhs, v)
    BY <1>14
  <2> HIDE DEF v, w, U
  <2>5. w \in CS
    BY <2>2, <2>3, <1>4
  <2>6. v.li \in Nat /\ v.ri \in Nat /\ w.li \in Nat /\ w.ri \in Nat
    BY <2>3, <2>5, <1>2, <1>5 DEF Clustered, ClusterState
  <2>7. /\ ~ ClusterDone(lhs, rhs, v) => w.li + w.ri = v.li + v.ri + 1
        /\ ClusterDone(lhs, rhs, v) => w = v
    BY <2>2, <2>3, <1>5, GrowSteps
  <2>8. /\ w.li + w.ri >= li + ri /\ w.li + w.ri > li + ri
        /\ ClusterDone(lhs, rhs, w) \/ w.li + w.ri >= li + ri + k
    <3>1. CASE ClusterDone(lhs, rhs, v)
      <4>1. w = v /\ k - 1 > 0
        BY <3>1, <2>1, <2>4, <2>7, <1>2
      <4>2. ClusterDone(lhs, rhs, w) /\ w.li + w.ri > li + ri
        BY <3>1, <4>1, <2>3
      <4> QED
        BY <4>2, <2>6, <1>2
    <3>2. CASE ~ ClusterDone(lhs, rhs, v)
      <4>1. w.li + w.ri = v.li + v.ri + 1
        BY <3>2, <2>7
      <4>2. v.li + v.ri >= li + ri /\ v.li + v.ri >= li + ri + (k - 1)
        BY <3>2, <2>3
      <4>3. li \in Nat /\ ri \in Nat /\ k \in Int /\ v.li \in Nat /\ v.ri \in Nat
        BY <1>2, <2>1, <2>6
      <4>4. w.li + w.ri > li + ri /\ w.li + w.ri >= li + ri + k
        BY ONLY <4>1, <4>2, <4>3
      <4> QED
        BY <4>3, <4>4, <2>6
    <3> QED
      BY <3>1, <3>2
  <2> QED
    BY <2>1, <2>5, <2>8 DEF U, w
<1>16. m > 0 /\ m \in 0 .. m
  BY <1>2 DEF m
<1> HIDE DEF U
<1>17. m \in U
  BY <1>2, <1>14, <1>15, <1>16, Interval, 0 \in Int, m \in Int
<1>18. /\ Clustered(c, lhs, rhs, li, ri, start, n) /\ c.li + c.ri > li + ri
       /\ ClusterDone(lhs, rhs, c) \/ c.li + c.ri >= li + ri + m
  BY <1>1, <1>5, <1>16, <1>17 DEF U
<1>19. ClusterDone(lhs, rhs, c)
  <2> SUFFICES ASSUME c.li + c.ri >= li + ri + m PROVE ClusterDone(lhs, rhs, c)
    BY <1>18
  <2>1. c.li \in 1 .. Len(lhs) + 1 /\ c.ri \in 1 .. Len(rhs) + 1
    BY <1>18 DEF Clustered, ClusterState
  <2>2. c.li = Len(lhs) + 1 /\ c.ri = Len(rhs) + 1
    BY <2>1, <1>2 DEF m
  <2> QED
    BY <2>2, <1>2 DEF ClusterDone
<1> QED
  BY <1>18, <1>19

(* Where the merge is: up to degree e every block of both sides is merged, *)
(* from e on none.                                                         *)
MergeState(lhs, rhs) == [li : 1 .. Len(lhs) + 1, ri : 1 .. Len(rhs) + 1, out : Seq(Block)]
Passes(bs, i, e) == \A k \in 1 .. Len(bs) : IF k < i THEN EndOf(bs[k]) <= e ELSE e <= StartOf(bs[k])
Merged(m, e, lhs, rhs, op, n) ==
  /\ m \in MergeState(lhs, rhs) /\ e \in Nat /\ e <= n
  /\ BlocksOk(m.out, e) /\ Passes(lhs, m.li, e) /\ Passes(rhs, m.ri, e)
  /\ \A d \in Nat : d < e => StoredAt(m.out, d) = Apply(op, StoredAt(lhs, d), StoredAt(rhs, d))

(* One side's blocks a to before b are those of a cluster from start to z  *)
(* after the frontier e; what the window of these blocks then is.          *)
InCluster(bs, a, b, e, start, z) ==
  /\ e \in Nat /\ start \in Nat /\ z \in Nat /\ e <= start /\ start <= z
  /\ a \in 1 .. Len(bs) + 1 /\ b \in a .. Len(bs) + 1
  /\ Passes(bs, a, e) /\ (a <= Len(bs) => start <= StartOf(bs[a]))
  /\ \A i \in a .. b - 1 : EndOf(bs[i]) <= z
  /\ b <= Len(bs) => z < StartOf(bs[b])
SideIs(w, bs, b, e, start, z) ==
  /\ BlocksOk(w, z) /\ \A i \in 1 .. Len(w) : start <= StartOf(w[i])
  /\ Passes(bs, b, z)
  /\ \A d \in Nat : e <= d /\ d < z => StoredAt(w, d) = StoredAt(bs, d)
  /\ \A d \in Nat : e <= d /\ d < start => StoredAt(bs, d) = 0

(* One side's blocks in a cluster from start to end: those and only those  *)
(* cover the degrees from the frontier to the cluster's end.               *)
LEMMA ClusterSide ==
  ASSUME NEW n \in Nat, NEW bs, BlocksOk(bs, n), NEW a, NEW b, NEW e, NEW start, NEW z,
         InCluster(bs, a, b, e, start, z), NEW w, IsWindow(w, bs, a, b)
  PROVE  SideIs(w, bs, b, e, start, z)
<1>0. /\ e \in Nat /\ start \in Nat /\ z \in Nat /\ e <= start /\ start <= z
      /\ a \in 1 .. Len(bs) + 1 /\ b \in a .. Len(bs) + 1
      /\ \A i \in a .. b - 1 : EndOf(bs[i]) <= z
  BY DEF InCluster
<1> DEFINE l == Len(bs)
<1>1. /\ l \in Nat
      /\ \A i \in 1 .. l : StartOf(bs[i]) \in Nat /\ EndOf(bs[i]) \in Nat /\ StartOf(bs[i]) < EndOf(bs[i])
      /\ \A i, j \in 1 .. l : i < j => EndOf(bs[i]) <= StartOf(bs[j])
  BY BlocksAre
<1> HIDE DEF l
<1>2. a \in 1 .. l + 1 /\ b \in a .. l + 1 /\ a \in Int /\ b \in Int
  BY <1>0, <1>1 DEF l
<1>3. /\ \A k \in 1 .. l : IF k < a THEN EndOf(bs[k]) <= e ELSE e <= StartOf(bs[k])
      /\ a <= l => start <= StartOf(bs[a])
      /\ b <= l => z < StartOf(bs[b])
  BY DEF InCluster, Passes, l
<1>4. ASSUME NEW i \in 1 .. l, i >= a PROVE start <= StartOf(bs[i])
  <2>1. a \in 1 .. l
    BY <1>2, <1>4, <1>1
  <2>2. CASE i = a
    BY <2>1, <2>2, <1>2, <1>3, <1>1
  <2>3. CASE i # a
    <3>1. a < i /\ start <= StartOf(bs[a]) /\ EndOf(bs[a]) <= StartOf(bs[i])
      BY <2>1, <2>3, <1>1, <1>2, <1>3, <1>4
    <3>2. StartOf(bs[a]) \in Nat /\ EndOf(bs[a]) \in Nat /\ StartOf(bs[i]) \in Nat /\ StartOf(bs[a]) < EndOf(bs[a])
      BY <2>1, <1>1
    <3> QED
      BY <1>0, <3>1, <3>2
  <2> QED
    BY <2>2, <2>3
<1>5. ASSUME NEW i \in 1 .. l, i >= b PROVE z < StartOf(bs[i])
  <2>1. b \in 1 .. l
    BY <1>2, <1>5, <1>1
  <2>2. CASE i = b
    BY <2>1, <2>2, <1>2, <1>3, <1>1
  <2>3. CASE i # b
    <3>1. b < i /\ z < StartOf(bs[b]) /\ EndOf(bs[b]) <= StartOf(bs[i])
      BY <2>1, <2>3, <1>1, <1>2, <1>3, <1>5
    <3>2. StartOf(bs[b]) \in Nat /\ EndOf(bs[b]) \in Nat /\ StartOf(bs[i]) \in Nat /\ StartOf(bs[b]) < EndOf(bs[b])
      BY <2>1, <1>1
    <3> QED
      BY <1>0, <3>1, <3>2
  <2> QED
    BY <2>2, <2>3
<1>6. /\ BlocksOk(w, z) /\ Len(w) = b - a /\ \A i \in 1 .. Len(w) : w[i] = bs[a + i - 1]
      /\ \A d \in Nat : (\A i \in 1 .. Len(bs) : Covers(bs[i], d) => i \in a .. b - 1)
                             => StoredAt(w, d) = StoredAt(bs, d)
  <2>1. WindowIs(w, bs, a, b, z)
    BY <1>0, Window
  <2> QED
    BY <2>1, Zenon DEF WindowIs
<1>7. \A i \in 1 .. Len(w) : start <= StartOf(w[i])
  <2> SUFFICES ASSUME NEW i \in 1 .. Len(w) PROVE start <= StartOf(w[i])
    OBVIOUS
  <2>1. a + i - 1 \in 1 .. l /\ a + i - 1 >= a
    BY <1>1, <1>2, <1>6
  <2>2. start <= StartOf(bs[a + i - 1])
    BY <2>1, <1>4
  <2> QED
    BY <2>2, <1>6
<1>8. Passes(bs, b, z)
  <2> SUFFICES ASSUME NEW k \in 1 .. l PROVE IF k < b THEN EndOf(bs[k]) <= z ELSE z <= StartOf(bs[k])
    BY DEF InCluster, Passes, l
  <2>1. CASE k >= b
    BY <1>0, <2>1, <1>1, <1>2, <1>5
  <2>2. CASE k < b /\ k >= a
    BY <1>0, <2>2, <1>2
  <2>3. CASE k < b /\ k < a
    <3>1. EndOf(bs[k]) <= e /\ EndOf(bs[k]) \in Nat
      BY <2>3, <1>1, <1>3
    <3> QED
      BY <1>0, <3>1, <2>3
  <2> QED
    BY <2>1, <2>2, <2>3, <1>2
<1>9. ASSUME NEW d \in Nat, e <= d, NEW i \in 1 .. l, Covers(bs[i], d) PROVE i >= a /\ start <= d
  <2>1. StartOf(bs[i]) <= d /\ d < EndOf(bs[i]) /\ StartOf(bs[i]) \in Nat /\ EndOf(bs[i]) \in Nat
    BY <1>1, <1>9 DEF Covers
  <2>2. i >= a
    BY <1>0, <2>1, <1>2, <1>3, <1>9
  <2>3. start <= StartOf(bs[i])
    BY <2>2, <1>4
  <2> QED
    BY <1>0, <2>1, <2>2, <2>3
<1>10. ASSUME NEW d \in Nat, e <= d, d < z PROVE StoredAt(w, d) = StoredAt(bs, d)
  <2>1. ASSUME NEW i \in 1 .. l, Covers(bs[i], d) PROVE i \in a .. b - 1
    <3>1. i >= a
      BY <2>1, <1>9, <1>10
    <3>2. StartOf(bs[i]) <= d /\ StartOf(bs[i]) \in Nat
      BY <2>1, <1>1 DEF Covers
    <3>3. ~ (i >= b)
      BY <1>0, <3>2, <1>5, <1>10
    <3> QED
      BY <3>1, <3>3, <1>2
  <2> QED
    BY <2>1, <1>6 DEF l
<1>11. ASSUME NEW d \in Nat, e <= d, d < start PROVE StoredAt(bs, d) = 0
  <2>1. \A i \in 1 .. l : ~ Covers(bs[i], d)
    <3> SUFFICES ASSUME NEW i \in 1 .. l, Covers(bs[i], d) PROVE FALSE
      OBVIOUS
    <3>1. start <= d
      BY <1>9, <1>11
    <3> QED
      BY <1>0, <3>1, <1>11
  <2> QED
    BY <2>1, StoredIs DEF l
<1> QED
  BY <1>6, <1>7, <1>8, <1>10, <1>11 DEF SideIs

(* Where the next cluster starts.                                          *)
ClusterStart(lhs, rhs, li, ri) ==
  CASE li > Len(lhs) -> rhs[ri][1]
    [] ri > Len(rhs) -> lhs[li][1]
    [] OTHER -> IF lhs[li][1] <= rhs[ri][1] THEN lhs[li][1] ELSE rhs[ri][1]

(* At or after the frontier, and at the first block of a side.             *)
LEMMA ClusterStarts ==
  ASSUME NEW n \in Nat, NEW lhs, NEW rhs, BlocksOk(lhs, n), BlocksOk(rhs, n), NEW op,
         NEW m, NEW e, Merged(m, e, lhs, rhs, op, n),
         ~ (m.li > Len(lhs) /\ m.ri > Len(rhs)), NEW start, start = ClusterStart(lhs, rhs, m.li, m.ri)
  PROVE  /\ start \in Nat /\ e <= start /\ start <= n
         /\ m.li <= Len(lhs) => start <= StartOf(lhs[m.li])
         /\ m.ri <= Len(rhs) => start <= StartOf(rhs[m.ri])
         /\ \/ m.li <= Len(lhs) /\ StartOf(lhs[m.li]) = start
            \/ m.ri <= Len(rhs) /\ StartOf(rhs[m.ri]) = start
<1> DEFINE x == Len(lhs)
           y == Len(rhs)
           li == m.li
           ri == m.ri
<1>1. /\ x \in Nat /\ y \in Nat
      /\ \A i \in 1 .. x : StartOf(lhs[i]) \in Nat /\ StartOf(lhs[i]) <= n /\ StartOf(lhs[i]) = lhs[i][1]
      /\ \A i \in 1 .. y : StartOf(rhs[i]) \in Nat /\ StartOf(rhs[i]) <= n /\ StartOf(rhs[i]) = rhs[i][1]
  <2>1. /\ \A i \in 1 .. x : StartOf(lhs[i]) \in Nat /\ EndOf(lhs[i]) \in Nat
                             /\ StartOf(lhs[i]) < EndOf(lhs[i]) /\ EndOf(lhs[i]) <= n
        /\ \A i \in 1 .. y : StartOf(rhs[i]) \in Nat /\ EndOf(rhs[i]) \in Nat
                             /\ StartOf(rhs[i]) < EndOf(rhs[i]) /\ EndOf(rhs[i]) <= n
        /\ x \in Nat /\ y \in Nat
    BY BlocksAre
  <2>2. ASSUME NEW i \in 1 .. x PROVE StartOf(lhs[i]) <= n
    BY <2>1
  <2>3. ASSUME NEW i \in 1 .. y PROVE StartOf(rhs[i]) <= n
    BY <2>1
  <2> QED
    BY <2>1, <2>2, <2>3 DEF StartOf
<1>2. /\ li \in 1 .. x + 1 /\ ri \in 1 .. y + 1 /\ e \in Nat
      /\ \A k \in 1 .. x : IF k < li THEN EndOf(lhs[k]) <= e ELSE e <= StartOf(lhs[k])
      /\ \A k \in 1 .. y : IF k < ri THEN EndOf(rhs[k]) <= e ELSE e <= StartOf(rhs[k])
  BY DEF Merged, MergeState, Passes
<1>3. start = CASE li > x -> rhs[ri][1]
                [] ri > y -> lhs[li][1]
                [] OTHER -> IF lhs[li][1] <= rhs[ri][1] THEN lhs[li][1] ELSE rhs[ri][1]
  BY DEF ClusterStart
<1>4. ~ (li > x /\ ri > y)
  OBVIOUS
<1> HIDE DEF x, y, li, ri
<1>5. li <= x => li \in 1 .. x /\ e <= StartOf(lhs[li]) /\ StartOf(lhs[li]) \in Nat /\ StartOf(lhs[li]) <= n
                 /\ StartOf(lhs[li]) = lhs[li][1]
  BY <1>1, <1>2
<1>6. ri <= y => ri \in 1 .. y /\ e <= StartOf(rhs[ri]) /\ StartOf(rhs[ri]) \in Nat /\ StartOf(rhs[ri]) <= n
                 /\ StartOf(rhs[ri]) = rhs[ri][1]
  BY <1>1, <1>2
<1>7. /\ start \in Nat /\ e <= start /\ start <= n
      /\ li <= x => start <= StartOf(lhs[li])
      /\ ri <= y => start <= StartOf(rhs[ri])
      /\ (li <= x /\ StartOf(lhs[li]) = start) \/ (ri <= y /\ StartOf(rhs[ri]) = start)
  <2>1. CASE li > x
    <3>1. ri <= y /\ ~ (li <= x) /\ start = rhs[ri][1]
      BY <2>1, <1>1, <1>2, <1>3, <1>4
    <3> QED
      BY <3>1, <1>6
  <2>2. CASE ~ (li > x) /\ ri > y
    <3>1. li <= x /\ ~ (ri <= y) /\ start = lhs[li][1]
      BY <2>2, <1>1, <1>2, <1>3
    <3> QED
      BY <3>1, <1>5
  <2>3. CASE ~ (li > x) /\ ~ (ri > y)
    <3>1. li <= x /\ ri <= y
      BY <2>3, <1>1, <1>2
    <3>2. start = IF lhs[li][1] <= rhs[ri][1] THEN lhs[li][1] ELSE rhs[ri][1]
      BY <2>3, <1>3
    <3> QED
      BY <3>1, <3>2, <1>5, <1>6
  <2> QED
    BY <2>1, <2>2, <2>3
<1> QED
  BY <1>7 DEF x, y, li, ri

(* A cluster merged: the frontier moves to the cluster's end.              *)
LEMMA ClusterMerges ==
  ASSUME NEW lhs, NEW rhs, BlocksOk(lhs, NumCoeffs), BlocksOk(rhs, NumCoeffs), NEW op,
         NEW m, NEW e, Merged(m, e, lhs, rhs, op, NumCoeffs),
         ~ (m.li > Len(lhs) /\ m.ri > Len(rhs)),
         NEW new, new = MergeCluster(lhs, rhs, op, m.li, m.ri, m.out)
  PROVE  /\ \E z \in Nat : Merged(new, z, lhs, rhs, op, NumCoeffs)
         /\ new.li + new.ri > m.li + m.ri
<1> DEFINE n == NumCoeffs
           start == ClusterStart(lhs, rhs, m.li, m.ri)
           c == Cluster(lhs, rhs, m.li, m.ri, start)
           left == SubSeq(lhs, m.li, c.li - 1)
           right == SubSeq(rhs, m.ri, c.ri - 1)
           data == [i \in 1 .. c.end - start |->
                      Apply(op, StoredAt(left, start + i - 1), StoredAt(right, start + i - 1))]
           out == CASE right = <<>> -> m.out \o left
                    [] right # <<>> /\ start = 0 /\ Len(data) = NumCoeffs -> Append(m.out, <<0, data>>)
                    [] OTHER -> ExtendRuns(m.out, start, data)
           z == c.end
<1>1. new = [li |-> c.li, ri |-> c.ri, out |-> out]
  BY DEF MergeCluster, ClusterStart
<1>2. n \in Nat /\ n # 0 /\ 0 \in F /\ Len(lhs) \in Nat /\ Len(rhs) \in Nat
  BY Elements, BlocksAre
<1>3. /\ m.li \in 1 .. Len(lhs) + 1 /\ m.ri \in 1 .. Len(rhs) + 1 /\ m.out \in Seq(Block)
      /\ e \in Nat /\ e <= n /\ BlocksOk(m.out, e) /\ Passes(lhs, m.li, e) /\ Passes(rhs, m.ri, e)
      /\ \A d \in Nat : d < e => StoredAt(m.out, d) = Apply(op, StoredAt(lhs, d), StoredAt(rhs, d))
  BY DEF Merged, MergeState
<1>4. /\ start \in Nat /\ e <= start /\ start <= n
      /\ m.li <= Len(lhs) => start <= StartOf(lhs[m.li])
      /\ m.ri <= Len(rhs) => start <= StartOf(rhs[m.ri])
      /\ \/ m.li <= Len(lhs) /\ StartOf(lhs[m.li]) = start
         \/ m.ri <= Len(rhs) /\ StartOf(rhs[m.ri]) = start
  BY <1>2, ClusterStarts
<1> HIDE DEF start, n
<1>5. /\ Clustered(c, lhs, rhs, m.li, m.ri, start, n) /\ ClusterDone(lhs, rhs, c)
      /\ c.li + c.ri > m.li + m.ri
  BY <1>2, <1>3, <1>4, ClusterIs DEF n
<1> HIDE DEF c
<1>6. /\ c.li \in m.li .. Len(lhs) + 1 /\ c.ri \in m.ri .. Len(rhs) + 1
      /\ c.li \in 1 .. Len(lhs) + 1 /\ c.ri \in 1 .. Len(rhs) + 1
      /\ z \in Nat /\ start <= z /\ z <= n
      /\ \A i \in m.li .. c.li - 1 : EndOf(lhs[i]) <= z
      /\ \A i \in m.ri .. c.ri - 1 : EndOf(rhs[i]) <= z
      /\ c.li <= Len(lhs) => z < StartOf(lhs[c.li])
      /\ c.ri <= Len(rhs) => z < StartOf(rhs[c.ri])
  BY <1>2, <1>3, <1>5 DEF Clustered, ClusterState, ClusterDone
<1>7. IsWindow(left, lhs, m.li, c.li) /\ IsWindow(right, rhs, m.ri, c.ri)
  BY DEF IsWindow
<1> HIDE DEF z, left, right
<1>8. InCluster(lhs, m.li, c.li, e, start, z) /\ InCluster(rhs, m.ri, c.ri, e, start, z)
  BY <1>2, <1>3, <1>4, <1>6 DEF InCluster
<1>9. SideIs(left, lhs, c.li, e, start, z) /\ SideIs(right, rhs, c.ri, e, start, z)
  BY <1>2, <1>7, <1>8, ClusterSide DEF n
<1>10. /\ BlocksOk(left, z) /\ \A i \in 1 .. Len(left) : start <= StartOf(left[i])
       /\ Passes(lhs, c.li, z)
       /\ \A d \in Nat : e <= d /\ d < z => StoredAt(left, d) = StoredAt(lhs, d)
       /\ \A d \in Nat : e <= d /\ d < start => StoredAt(lhs, d) = 0
  BY <1>9 DEF SideIs
<1>11. /\ BlocksOk(right, z)
       /\ Passes(rhs, c.ri, z)
       /\ \A d \in Nat : e <= d /\ d < z => StoredAt(right, d) = StoredAt(rhs, d)
       /\ \A d \in Nat : e <= d /\ d < start => StoredAt(rhs, d) = 0
  BY <1>9 DEF SideIs
<1>12. \A d \in Nat : StoredAt(left, d) \in F /\ StoredAt(right, d) \in F
  BY <1>10, <1>11, StoredIs
<1>13. /\ data \in Seq(F) /\ Len(data) = z - start
       /\ \A d \in Nat : start <= d /\ d < z => data[d - start + 1] = Apply(op, StoredAt(lhs, d), StoredAt(rhs, d))
  <2> DEFINE v(i) == Apply(op, StoredAt(left, start + i - 1), StoredAt(right, start + i - 1))
             k == z - start
  <2>1. k \in Nat
    BY <1>4, <1>6
  <2>2. ASSUME NEW i \in 1 .. k PROVE v(i) \in F
    <3>1. start + i - 1 \in Nat
      BY <1>4
    <3> QED
      BY <3>1, <1>12, Applies
  <2>3. data = [i \in 1 .. k |-> v(i)]
    BY DEF z
  <2> HIDE DEF data, k, v
  <2>4. data \in Seq(F) /\ Len(data) = k
    BY <2>1, <2>2, <2>3
  <2>5. ASSUME NEW d \in Nat, start <= d, d < z
        PROVE  data[d - start + 1] = Apply(op, StoredAt(lhs, d), StoredAt(rhs, d))
    <3>1. d - start + 1 \in 1 .. k /\ start + (d - start + 1) - 1 = d /\ e <= d
      BY <2>5, <1>3, <1>4, <1>6 DEF k
    <3>2. data[d - start + 1] = v(d - start + 1)
      BY <3>1, <2>3
    <3>3. v(d - start + 1) = Apply(op, StoredAt(left, d), StoredAt(right, d))
      BY <3>1, Zenon DEF v
    <3> QED
      BY <3>1, <3>2, <3>3, <2>5, <1>10, <1>11
  <2> QED
    BY <2>4, <2>5 DEF k
<1> HIDE DEF data
<1>14. ASSUME NEW new_out, BlocksOk(new_out, z),
              \A d \in Nat : StoredAt(new_out, d) = IF start <= d /\ d < z THEN data[d - start + 1]
                                                    ELSE StoredAt(m.out, d)
       PROVE  \A d \in Nat : d < z => StoredAt(new_out, d) = Apply(op, StoredAt(lhs, d), StoredAt(rhs, d))
  <2> SUFFICES ASSUME NEW d \in Nat, d < z
               PROVE  StoredAt(new_out, d) = Apply(op, StoredAt(lhs, d), StoredAt(rhs, d))
    OBVIOUS
  <2>1. CASE d < e
    BY <2>1, <1>3, <1>4, <1>14
  <2>2. CASE e <= d /\ d < start
    <3>1. StoredAt(new_out, d) = 0
      <4>1. StoredAt(m.out, d) = 0
        BY <2>2, <1>3, StoredAbove
      <4> QED
        BY <4>1, <2>2, <1>4, <1>14
    <3>2. StoredAt(lhs, d) = 0 /\ StoredAt(rhs, d) = 0
      BY <2>2, <1>10, <1>11
    <3>3. Apply(op, 0, 0) = 0
      BY <1>2, Applies
    <3> QED
      BY <3>1, <3>2, <3>3
  <2>3. CASE start <= d
    BY <2>3, <1>13, <1>14
  <2> QED
    BY <2>1, <2>2, <2>3, <1>3, <1>4
<1>15. BlocksOk(out, z) /\ \A d \in Nat : d < z => StoredAt(out, d) = Apply(op, StoredAt(lhs, d), StoredAt(rhs, d))
  <2>1. CASE right = <<>>
    <3>1. out = m.out \o left
      BY <2>1
    <3>2. \A i \in 1 .. Len(left) : e <= StartOf(left[i])
      <4> SUFFICES ASSUME NEW i \in 1 .. Len(left) PROVE e <= StartOf(left[i])
        OBVIOUS
      <4>1. start <= StartOf(left[i]) /\ StartOf(left[i]) \in Nat
        BY <1>10, BlocksAre
      <4> QED
        BY <4>1, <1>3, <1>4
    <3>3. e <= z
      BY <1>3, <1>4, <1>6
    <3> HIDE DEF out
    <3>4. /\ BlocksOk(out, z)
          /\ \A d \in Nat : StoredAt(out, d) = IF d < e THEN StoredAt(m.out, d) ELSE StoredAt(left, d)
      <4>1. IsJoin(out, m.out, left)
        BY <3>1 DEF IsJoin
      <4>2. JoinIs(out, m.out, left, e, z)
        BY <4>1, <3>2, <3>3, <1>3, <1>6, <1>10, BlocksJoin
      <4> QED
        BY <4>2 DEF JoinIs
    <3>5. ASSUME NEW d \in Nat, d < z PROVE StoredAt(out, d) = Apply(op, StoredAt(lhs, d), StoredAt(rhs, d))
      <4>1. CASE d < e
        BY <4>1, <3>4, <1>3
      <4>2. CASE ~ (d < e)
        <5>1. e <= d
          BY <4>2, <1>3
        <5>2. StoredAt(rhs, d) = 0
          <6>1. StoredAt(right, d) = 0
            BY <2>1, <1>2, NoBlocks
          <6> QED
            BY <6>1, <5>1, <3>5, <1>11
        <5>3. StoredAt(out, d) = StoredAt(left, d) /\ StoredAt(left, d) = StoredAt(lhs, d)
          BY <4>2, <5>1, <3>4, <3>5, <1>10
        <5>4. Apply(op, StoredAt(lhs, d), 0) = StoredAt(lhs, d)
          BY Applies, StoredIs
        <5> QED
          BY <5>2, <5>3, <5>4
      <4> QED
        BY <4>1, <4>2
    <3> QED
      BY <3>4, <3>5
  <2>2. CASE right # <<>> /\ start = 0 /\ Len(data) = NumCoeffs
    <3>1. out = Append(m.out, <<0, data>>)
      BY <2>2
    <3> HIDE DEF out
    <3>2. e = 0 /\ BlocksOk(m.out, 0) /\ Behind(out, m.out, 0, data) /\ data # <<>>
      <4>1. e = 0
        BY <2>2, <1>3, <1>4
      <4>2. data # <<>>
        BY <2>2, <1>2, <1>13, EmptySeq DEF n
      <4> QED
        BY <4>1, <4>2, <3>1, <1>3 DEF Behind
    <3>3. /\ BlocksOk(out, 0 + Len(data))
          /\ \A d \in Nat : StoredAt(out, d) = IF 0 <= d /\ d < 0 + Len(data) THEN data[d - 0 + 1]
                                               ELSE StoredAt(m.out, d)
      BY <3>2, <1>13, BlockAdded, 0 \in Nat
    <3>4. 0 + Len(data) = z
      BY <2>2, <1>4, <1>6, <1>13
    <3>5. BlocksOk(out, z) /\ \A d \in Nat : StoredAt(out, d) = IF start <= d /\ d < z THEN data[d - start + 1]
                                               ELSE StoredAt(m.out, d)
      BY <3>3, <3>4, <2>2, Zenon
    <3> QED
      BY <3>5, <1>14
  <2>3. CASE right # <<>> /\ ~ (start = 0 /\ Len(data) = NumCoeffs)
    <3>1. out = ExtendRuns(m.out, start, data)
      BY <2>3
    <3> HIDE DEF out
    <3>2. /\ BlocksOk(out, start + Len(data))
          /\ \A d \in Nat : StoredAt(out, d) = IF start <= d /\ d < start + Len(data) THEN data[d - start + 1]
                                               ELSE StoredAt(m.out, d)
      <4>1. Extended(out, m.out, start, data)
        BY <3>1 DEF Extended
      <4>2. Split(out, m.out, start, data, Len(data))
        BY <4>1, <1>3, <1>4, <1>13, Extends
      <4> QED
        BY <4>2 DEF Split
    <3>3. start + Len(data) = z
      BY <1>4, <1>6, <1>13
    <3>4. BlocksOk(out, z) /\ \A d \in Nat : StoredAt(out, d) = IF start <= d /\ d < z THEN data[d - start + 1]
                                               ELSE StoredAt(m.out, d)
      BY <3>2, <3>3, Zenon
    <3> QED
      BY <3>4, <1>14
  <2> QED
    BY <2>1, <2>2, <2>3
<1> HIDE DEF out
<1>16. new.li = c.li /\ new.ri = c.ri /\ new.out = out /\ new \in MergeState(lhs, rhs)
  <2>1. out \in Seq(Block)
    BY <1>15 DEF BlocksOk
  <2> QED
    BY <2>1, <1>1, <1>6 DEF MergeState
<1>17. Merged(new, z, lhs, rhs, op, n)
  BY <1>6, <1>10, <1>11, <1>15, <1>16 DEF Merged
<1> QED
  BY <1>5, <1>6, <1>16, <1>17 DEF n
-----------------------------------------------------------------------------
(* The right side alone, put block by block onto no blocks.                *)
OntoZero(rhs, op) ==
  LET onto_zero[k \in 0 .. Len(rhs)] ==
        IF k = 0 THEN <<>>
        ELSE ExtendRuns(onto_zero[k - 1], rhs[k][1],
                        [i \in DOMAIN rhs[k][2] |-> Apply(op, 0, rhs[k][2][i])])
  IN  onto_zero[Len(rhs)]
UpTo(out, e, rhs, op) ==
  /\ BlocksOk(out, e)
  /\ \A d \in Nat : d < e => StoredAt(out, d) = Apply(op, 0, StoredAt(rhs, d))

(* One block more of it.                                                   *)
LEMMA OntoOneMore ==
  ASSUME NEW n \in Nat, NEW rhs, BlocksOk(rhs, n), NEW op, NEW k \in 1 .. Len(rhs),
         NEW out, NEW e \in Nat, UpTo(out, e, rhs, op),
         k = 1 => e = 0, k > 1 => e = EndOf(rhs[k - 1]),
         NEW vals \in Seq(F), Len(vals) = Len(rhs[k][2]),
         \A i \in 1 .. Len(vals) : vals[i] = Apply(op, 0, rhs[k][2][i]),
         NEW new, Extended(new, out, rhs[k][1], vals)
  PROVE  UpTo(new, EndOf(rhs[k]), rhs, op)
<1> DEFINE s == rhs[k][1]
           z == EndOf(rhs[k])
           l == Len(rhs)
<1>1. /\ l \in Nat
      /\ \A i \in 1 .. l : StartOf(rhs[i]) \in Nat /\ EndOf(rhs[i]) \in Nat /\ StartOf(rhs[i]) < EndOf(rhs[i])
                           /\ rhs[i] \in Block
      /\ \A i, j \in 1 .. l : i < j => EndOf(rhs[i]) <= StartOf(rhs[j])
  BY BlocksAre
<1>2. s \in Nat /\ StartOf(rhs[k]) = s /\ z = s + Len(vals) /\ z \in Nat /\ Len(vals) \in Nat
  BY <1>1 DEF StartOf, EndOf
<1>3. e <= s
  <2>1. CASE k = 1
    BY <2>1, <1>2
  <2>2. CASE k > 1
    <3>1. k - 1 \in 1 .. l /\ k - 1 < k
      BY <2>2, <1>1
    <3>2. EndOf(rhs[k - 1]) <= StartOf(rhs[k])
      BY <3>1, <1>1
    <3> QED
      BY <3>2, <2>2, <1>2
  <2> QED
    BY <2>1, <2>2
<1>4. Split(new, out, s, vals, Len(vals))
  BY <1>2, <1>3, Extends DEF UpTo
<1> HIDE DEF s, z, l
<1>5. /\ BlocksOk(new, z)
      /\ \A d \in Nat : StoredAt(new, d) = IF s <= d /\ d < z THEN vals[d - s + 1] ELSE StoredAt(out, d)
  BY <1>2, <1>4 DEF Split
<1>6. ASSUME NEW d \in Nat, d < z PROVE StoredAt(new, d) = Apply(op, 0, StoredAt(rhs, d))
  <2>1. CASE d < e
    BY <2>1, <1>2, <1>3, <1>5 DEF UpTo
  <2>2. CASE e <= d /\ d < s
    <3>1. StoredAt(out, d) = 0
      BY <2>2, StoredAbove DEF UpTo
    <3>2. StoredAt(new, d) = 0
      BY <3>1, <2>2, <1>2, <1>5
    <3>3. ASSUME NEW i \in 1 .. l, Covers(rhs[i], d) PROVE FALSE
      <4>1. StartOf(rhs[i]) <= d /\ d < EndOf(rhs[i]) /\ StartOf(rhs[i]) \in Nat /\ EndOf(rhs[i]) \in Nat
        BY <3>3, <1>1 DEF Covers
      <4>2. CASE i = k
        BY <4>1, <4>2, <2>2, <1>2
      <4>3. CASE i > k
        <5>1. EndOf(rhs[k]) <= StartOf(rhs[i]) /\ StartOf(rhs[k]) < EndOf(rhs[k]) /\ EndOf(rhs[k]) \in Nat
          BY <4>3, <1>1 DEF l
        <5> QED
          BY <5>1, <4>1, <2>2, <1>2
      <4>4. CASE i < k
        <5>1. k - 1 \in 1 .. l /\ k > 1 /\ e = EndOf(rhs[k - 1])
          BY <4>4, <1>1 DEF l
        <5>2. EndOf(rhs[i]) <= e
          <6>1. CASE i = k - 1
            BY <6>1, <5>1
          <6>2. CASE i < k - 1
            <7>1. EndOf(rhs[i]) <= StartOf(rhs[k - 1]) /\ StartOf(rhs[k - 1]) < EndOf(rhs[k - 1])
                  /\ StartOf(rhs[k - 1]) \in Nat
              BY <6>2, <5>1, <1>1
            <7> QED
              BY <7>1, <5>1, <4>1
          <6> QED
            BY <6>1, <6>2, <4>4, <5>1, <1>1
        <5> QED
          BY <5>2, <4>1, <2>2
      <4> QED
        BY <4>2, <4>3, <4>4
    <3>4. StoredAt(rhs, d) = 0
      BY <3>3, StoredIs DEF l
    <3>5. Apply(op, 0, 0) = 0
      BY Elements, Applies
    <3> QED
      BY <3>2, <3>4, <3>5
  <2>3. CASE s <= d
    <3>1. Covers(rhs[k], d) /\ d - s + 1 \in 1 .. Len(vals)
      BY <2>3, <1>2, <1>6 DEF Covers, z
    <3>2. StoredAt(rhs, d) = rhs[k][2][d - s + 1]
      BY <3>1, StoredIs DEF s
    <3>3. vals[d - s + 1] = Apply(op, 0, rhs[k][2][d - s + 1])
      BY <3>1
    <3>4. StoredAt(new, d) = vals[d - s + 1]
      BY <2>3, <1>5, <1>6
    <3> QED
      BY <3>2, <3>3, <3>4
  <2> QED
    BY <2>1, <2>2, <2>3, <1>2
<1> QED
  BY <1>5, <1>6 DEF UpTo, z

(* All of it.                                                              *)
LEMMA OntoZeroIs ==
  ASSUME NEW n \in Nat, NEW rhs, BlocksOk(rhs, n), rhs # <<>>, NEW op
  PROVE  UpTo(OntoZero(rhs, op), EndOf(rhs[Len(rhs)]), rhs, op)
<1> DEFINE l == Len(rhs)
           vals(k) == [i \in DOMAIN rhs[k][2] |-> Apply(op, 0, rhs[k][2][i])]
           On(out, k) == ExtendRuns(out, rhs[k][1], vals(k))
           Solves(g) == g = [k \in 0 .. l |-> IF k = 0 THEN <<>> ELSE On(g[k - 1], k)]
           onto == CHOOSE g : Solves(g)
           Step == [v \in Seq(Block) \X (0 + 1 .. l) |-> On(v[1], v[2])]
<1>1. OntoZero(rhs, op) = onto[l]
  BY DEF OntoZero
<1>2. l \in Nat /\ l # 0 /\ \A k \in 1 .. l : rhs[k] \in Block /\ EndOf(rhs[k]) \in Nat
  BY BlocksAre, EmptySeq DEF BlocksOk
<1>3. ASSUME NEW k \in 1 .. l
      PROVE  /\ vals(k) \in Seq(F) /\ Len(vals(k)) = Len(rhs[k][2]) /\ rhs[k][1] \in Nat
             /\ \A i \in 1 .. Len(vals(k)) : vals(k)[i] = Apply(op, 0, rhs[k][2][i])
  <2> DEFINE m == Len(rhs[k][2])
  <2>1. rhs[k][2] \in Seq(F) /\ m \in Nat /\ DOMAIN rhs[k][2] = 1 .. m /\ rhs[k][1] \in Nat
    BY <1>2, <1>3, BlockIs
  <2>2. \A i \in 1 .. m : Apply(op, 0, rhs[k][2][i]) \in F
    <3>1. \A i \in 1 .. m : rhs[k][2][i] \in F
      BY <2>1, ElementOfSeq
    <3> QED
      BY <3>1, Elements, Applies
  <2> HIDE DEF m
  <2>3. vals(k) = [i \in 1 .. m |-> Apply(op, 0, rhs[k][2][i])]
    BY <2>1
  <2> HIDE DEF vals
  <2>4. vals(k) \in Seq(F) /\ Len(vals(k)) = m
    BY <2>1, <2>2, <2>3
  <2>5. \A i \in 1 .. m : vals(k)[i] = Apply(op, 0, rhs[k][2][i])
    BY <2>3
  <2> QED
    BY <2>1, <2>4, <2>5 DEF m
<1> HIDE DEF vals, l
<1>4. ASSUME NEW out \in Seq(Block), NEW k \in 1 .. l PROVE On(out, k) \in Seq(Block)
  BY <1>3, RunsExist
<1>5. \A k \in 0 + 1 .. l : k \in 1 .. l
  OBVIOUS
<1> HIDE DEF On
<1>6. Step \in [Seq(Block) \X (0 + 1 .. l) -> Seq(Block)]
  BY <1>4, <1>5
<1>7. ASSUME NEW v \in Seq(Block), NEW k \in 0 + 1 .. l PROVE Step[<<v, k>>] = On(v, k)
  OBVIOUS
<1> HIDE DEF Step
<1>8. <<>> \in Seq(Block)
  OBVIOUS
<1>9. PICK f : Follows(f, 0, l, Seq(Block), <<>>, Step)
  BY <1>2, <1>6, <1>8, Iterates, 0 \in Int, l \in Int, 0 <= l
<1>10. f \in [0 .. l -> Seq(Block)] /\ f[0] = <<>> /\ \A k \in 0 + 1 .. l : f[k] = Step[<<f[k - 1], k>>]
  BY <1>9 DEF Follows
<1>11. ASSUME NEW k \in 0 .. l, k # 0 PROVE k \in 0 + 1 .. l /\ k - 1 \in 0 .. l
  BY <1>2, <1>11
<1>12. \A k \in 0 .. l : f[k] = IF k = 0 THEN <<>> ELSE On(f[k - 1], k)
  <2> SUFFICES ASSUME NEW k \in 0 .. l PROVE f[k] = IF k = 0 THEN <<>> ELSE On(f[k - 1], k)
    OBVIOUS
  <2>1. CASE k = 0
    BY <2>1, <1>10
  <2>2. CASE k # 0
    <3>1. k \in 0 + 1 .. l /\ f[k - 1] \in Seq(Block)
      BY <2>2, <1>10, <1>11
    <3>2. f[k] = On(f[k - 1], k)
      BY <3>1, <1>7, <1>10
    <3> QED
      BY <3>2, <2>2
  <2> QED
    BY <2>1, <2>2
<1>13. Solves(onto)
  <2>1. f = [k \in 0 .. l |-> f[k]]
    BY <1>10
  <2>2. Solves(f)
    BY <2>1, <1>12
  <2> QED
    BY <2>2
<1>14. \A k \in 0 .. l : onto[k] = IF k = 0 THEN <<>> ELSE On(onto[k - 1], k)
  BY <1>13, Zenon
<1> HIDE DEF onto, Solves
<1> DEFINE z(k) == IF k = 0 THEN 0 ELSE EndOf(rhs[k])
           U == { k \in 0 .. l : UpTo(onto[k], z(k), rhs, op) }
<1>15. 0 \in U
  <2>1. 0 \in 0 .. l /\ onto[0] = <<>> /\ z(0) = 0
    BY <1>2, <1>14
  <2>2. UpTo(<<>>, 0, rhs, op)
    BY NoBlocks DEF UpTo
  <2> QED
    BY <2>1, <2>2
<1>16. \A k \in 0 + 1 .. l : k - 1 \in U => k \in U
  <2> SUFFICES ASSUME NEW k \in 0 + 1 .. l, k - 1 \in U PROVE k \in U
    OBVIOUS
  <2> DEFINE new == onto[k]
             out == onto[k - 1]
             e == z(k - 1)
  <2>1. k \in 0 .. l /\ k # 0 /\ k \in 1 .. l /\ k - 1 \in 0 .. l
    BY <1>2
  <2>2. e \in Nat /\ (k = 1 => e = 0) /\ (k > 1 => e = EndOf(rhs[k - 1]))
    <3>1. CASE k = 1
      BY <3>1
    <3>2. CASE k # 1
      <4>1. k > 1 /\ k - 1 # 0 /\ k - 1 \in 1 .. l
        BY <3>2, <2>1, <1>2
      <4> QED
        BY <4>1, <3>2, <1>2
    <3> QED
      BY <3>1, <3>2
  <2>3. UpTo(out, e, rhs, op)
    OBVIOUS
  <2>4. new = On(out, k)
    BY <2>1, <1>14
  <2>5. z(k) = EndOf(rhs[k])
    BY <2>1
  <2> HIDE DEF new, out, e, z
  <2>6. PICK v : v = vals(k)
    OBVIOUS
  <2>7. /\ v \in Seq(F) /\ Len(v) = Len(rhs[k][2])
        /\ \A i \in 1 .. Len(v) : v[i] = Apply(op, 0, rhs[k][2][i])
    BY <2>1, <2>6, <1>3
  <2>8. Extended(new, out, rhs[k][1], v)
    BY <2>4, <2>6 DEF Extended, On
  <2>9. k \in 1 .. Len(rhs)
    BY <2>1 DEF l
  <2>10. UpTo(new, EndOf(rhs[k]), rhs, op)
    BY <2>2, <2>3, <2>7, <2>8, <2>9, OntoOneMore
  <2> QED
    BY <2>1, <2>5, <2>10 DEF new
<1>17. l \in 0 .. l /\ z(l) = EndOf(rhs[l])
  BY <1>2
<1> HIDE DEF U, z
<1>18. l \in U
  BY <1>2, <1>15, <1>16, <1>17, Interval, 0 \in Int, l \in Int
<1>19. UpTo(onto[l], z(l), rhs, op)
  BY <1>18 DEF U
<1> QED
  BY <1>1, <1>17, <1>19 DEF l

(* Both sides merged, cluster by cluster.                                  *)
MergeBoth(lhs, rhs, op) ==
  LET merge[k \in 0 .. Len(lhs) + Len(rhs)] ==
        IF k = 0 THEN [li |-> 1, ri |-> 1, out |-> <<>>]
        ELSE IF merge[k - 1].li > Len(lhs) /\ merge[k - 1].ri > Len(rhs) THEN merge[k - 1]
        ELSE MergeCluster(lhs, rhs, op, merge[k - 1].li, merge[k - 1].ri, merge[k - 1].out)
  IN  merge[Len(lhs) + Len(rhs)].out

(* The merge ends with both sides behind its frontier.                     *)
LEMMA MergesBoth ==
  ASSUME NEW lhs, NEW rhs, BlocksOk(lhs, NumCoeffs), BlocksOk(rhs, NumCoeffs), NEW op
  PROVE  \E m, e : /\ Merged(m, e, lhs, rhs, op, NumCoeffs) /\ m.out = MergeBoth(lhs, rhs, op)
                   /\ m.li > Len(lhs) /\ m.ri > Len(rhs)
<1> DEFINE x == Len(lhs)
           y == Len(rhs)
           n == x + y
           base == [li |-> 1, ri |-> 1, out |-> <<>>]
           Past(m) == m.li > x /\ m.ri > y
           Next1(m) == IF Past(m) THEN m ELSE MergeCluster(lhs, rhs, op, m.li, m.ri, m.out)
           MS == { m \in MergeState(lhs, rhs) : \E e \in Nat : Merged(m, e, lhs, rhs, op, NumCoeffs) }
           Solves(g) == g = [k \in 0 .. n |-> IF k = 0 THEN base ELSE Next1(g[k - 1])]
           merge == CHOOSE g : Solves(g)
           Step == [v \in MS \X (0 + 1 .. n) |-> Next1(v[1])]
<1>1. MergeBoth(lhs, rhs, op) = merge[n].out
  BY DEF MergeBoth
<1>2. x \in Nat /\ y \in Nat /\ n \in Nat /\ NumCoeffs \in Nat
  BY BlocksAre, Elements
<1>3. base \in MS
  <2>1. base \in MergeState(lhs, rhs)
    BY <1>2 DEF MergeState
  <2>2. BlocksOk(base.out, 0)
    BY NoBlocks
  <2>3. Passes(lhs, base.li, 0) /\ Passes(rhs, base.ri, 0)
    <3>1. \A bs : BlocksOk(bs, NumCoeffs) => Passes(bs, 1, 0)
      <4> SUFFICES ASSUME NEW bs, BlocksOk(bs, NumCoeffs), NEW k \in 1 .. Len(bs)
                   PROVE  ~ (k < 1) /\ 0 <= StartOf(bs[k])
        BY DEF Passes
      <4>1. StartOf(bs[k]) \in Nat
        BY BlocksAre
      <4> QED
        BY <4>1
    <3> QED
      BY <3>1
  <2>4. Merged(base, 0, lhs, rhs, op, NumCoeffs)
    BY <2>1, <2>2, <2>3, <1>2 DEF Merged
  <2> QED
    BY <2>1, <2>4
<1>4. ASSUME NEW m \in MS
      PROVE  /\ Next1(m) \in MS
             /\ Past(m) => Next1(m) = m
             /\ ~ Past(m) => Next1(m).li + Next1(m).ri > m.li + m.ri
  <2>1. PICK e \in Nat : Merged(m, e, lhs, rhs, op, NumCoeffs)
    OBVIOUS
  <2>2. CASE Past(m)
    BY <2>2
  <2>3. CASE ~ Past(m)
    <3>1. PICK new : new = MergeCluster(lhs, rhs, op, m.li, m.ri, m.out)
      OBVIOUS
    <3>2. /\ \E z \in Nat : Merged(new, z, lhs, rhs, op, NumCoeffs)
          /\ new.li + new.ri > m.li + m.ri
      BY <2>1, <2>3, <3>1, ClusterMerges
    <3>3. new \in MS
      BY <3>2 DEF Merged
    <3>4. Next1(m) = new
      BY <2>3, <3>1
    <3> QED
      BY <3>2, <3>3, <3>4, <2>3
  <2> QED
    BY <2>2, <2>3
<1>5. ASSUME NEW m \in MS PROVE m.li \in 1 .. x + 1 /\ m.ri \in 1 .. y + 1
  BY DEF MergeState
<1>6. ASSUME NEW m \in MS PROVE \E e \in Nat : Merged(m, e, lhs, rhs, op, NumCoeffs)
  OBVIOUS
<1>7. base.li = 1 /\ base.ri = 1
  OBVIOUS
<1> HIDE DEF MS, base, Next1, n
<1>8. Step \in [MS \X (0 + 1 .. n) -> MS]
  BY <1>4
<1>9. ASSUME NEW v \in MS, NEW k \in 0 + 1 .. n PROVE Step[<<v, k>>] = Next1(v)
  OBVIOUS
<1> HIDE DEF Step
<1>10. PICK f : Follows(f, 0, n, MS, base, Step)
  BY <1>2, <1>3, <1>8, Iterates, 0 \in Int, n \in Int, 0 <= n
<1>11. f \in [0 .. n -> MS] /\ f[0] = base /\ \A k \in 0 + 1 .. n : f[k] = Step[<<f[k - 1], k>>]
  BY <1>10 DEF Follows
<1>12. ASSUME NEW k \in 0 .. n, k # 0 PROVE k \in 0 + 1 .. n /\ k - 1 \in 0 .. n
  BY <1>2, <1>12
<1>13. \A k \in 0 .. n : f[k] = IF k = 0 THEN base ELSE Next1(f[k - 1])
  <2> SUFFICES ASSUME NEW k \in 0 .. n PROVE f[k] = IF k = 0 THEN base ELSE Next1(f[k - 1])
    OBVIOUS
  <2>1. CASE k = 0
    BY <2>1, <1>11
  <2>2. CASE k # 0
    <3>1. k \in 0 + 1 .. n /\ f[k - 1] \in MS
      BY <2>2, <1>11, <1>12
    <3>2. f[k] = Next1(f[k - 1])
      BY <3>1, <1>9, <1>11
    <3> QED
      BY <3>2, <2>2
  <2> QED
    BY <2>1, <2>2
<1>14. Solves(merge)
  <2>1. f = [k \in 0 .. n |-> f[k]]
    BY <1>11
  <2>2. Solves(f)
    BY <2>1, <1>13
  <2> QED
    BY <2>2
<1>15. \A k \in 0 .. n : merge[k] = IF k = 0 THEN base ELSE Next1(merge[k - 1])
  BY <1>14, Zenon
<1> HIDE DEF merge, Solves, Past
<1> DEFINE U == { k \in 0 .. n : /\ merge[k] \in MS
                                 /\ Past(merge[k]) \/ merge[k].li + merge[k].ri >= 2 + k }
<1>16. 0 \in U
  <2>1. 0 \in 0 .. n /\ merge[0] = base
    BY <1>2, <1>15
  <2> QED
    BY <2>1, <1>3, <1>7
<1>17. \A k \in 0 + 1 .. n : k - 1 \in U => k \in U
  <2> SUFFICES ASSUME NEW k \in 0 + 1 .. n, k - 1 \in U PROVE k \in U
    OBVIOUS
  <2> DEFINE v == merge[k - 1]
             w == merge[k]
  <2>1. k \in 0 .. n /\ k # 0 /\ k - 1 \in 0 .. n
    BY <1>2
  <2>2. w = Next1(v)
    BY <2>1, <1>15
  <2>3. v \in MS /\ (Past(v) \/ v.li + v.ri >= 2 + (k - 1))
    OBVIOUS
  <2> HIDE DEF v, w, U
  <2>4. w \in MS
    BY <2>2, <2>3, <1>4
  <2>5. v.li \in Nat /\ v.ri \in Nat /\ w.li \in Nat /\ w.ri \in Nat
    BY <2>3, <2>4, <1>2, <1>5
  <2>6. Past(w) \/ w.li + w.ri >= 2 + k
    <3>1. CASE Past(v)
      BY <3>1, <2>2, <2>3, <1>4
    <3>2. CASE ~ Past(v)
      <4>1. w.li + w.ri > v.li + v.ri
        BY <3>2, <2>2, <2>3, <1>4
      <4> QED
        BY <4>1, <3>2, <2>1, <2>3, <2>5, <1>2
    <3> QED
      BY <3>1, <3>2
  <2> QED
    BY <2>1, <2>4, <2>6 DEF U, w
<1>18. n \in 0 .. n
  BY <1>2
<1> HIDE DEF U
<1>19. n \in U
  BY <1>2, <1>16, <1>17, <1>18, Interval, 0 \in Int, n \in Int
<1> DEFINE m == merge[n]
<1>20. m \in MS /\ (Past(m) \/ m.li + m.ri >= 2 + n)
  BY <1>19 DEF U
<1> HIDE DEF m
<1>21. m.li > x /\ m.ri > y
  <2>1. m.li \in 1 .. x + 1 /\ m.ri \in 1 .. y + 1
    BY <1>20, <1>5
  <2>2. CASE Past(m)
    BY <2>2 DEF Past
  <2>3. CASE m.li + m.ri >= 2 + n
    BY <2>1, <2>3, <1>2 DEF n
  <2> QED
    BY <2>2, <2>3, <1>20
<1>22. PICK e \in Nat : Merged(m, e, lhs, rhs, op, NumCoeffs)
  BY <1>20, <1>6
<1> QED
  BY <1>1, <1>21, <1>22 DEF m

(* Adding or subtracting polynomials (combine_assign) that keep their      *)
(* invariants gives one that keeps them, whose coefficient at every degree *)
(* is the sum or difference of theirs: no coefficient is lost or put at    *)
(* another degree by the clusters, the dense shortcut or the gap           *)
(* tolerance.                                                              *)
THEOREM SparseCombines ==
  ASSUME NEW lhs \in Sparse, NEW rhs \in Sparse, NEW op
  PROVE  /\ CombineAssign(lhs, rhs, op) \in Sparse
         /\ \A d \in Nat : StoredAt(CombineAssign(lhs, rhs, op), d)
                             = Apply(op, StoredAt(lhs, d), StoredAt(rhs, d))
<1> SUFFICES ASSUME BlocksOk(lhs, NumCoeffs), BlocksOk(rhs, NumCoeffs)
             PROVE  /\ BlocksOk(CombineAssign(lhs, rhs, op), NumCoeffs)
                    /\ \A d \in Nat : StoredAt(CombineAssign(lhs, rhs, op), d)
                                        = Apply(op, StoredAt(lhs, d), StoredAt(rhs, d))
  BY SparseAre
<1> DEFINE out == CombineAssign(lhs, rhs, op)
<1>1. out = CASE rhs = <<>> -> lhs
              [] rhs # <<>> /\ lhs = <<>> -> OntoZero(rhs, op)
              [] OTHER -> MergeBoth(lhs, rhs, op)
  BY DEF CombineAssign, OntoZero, MergeBoth
<1>2. NumCoeffs \in Nat /\ 0 \in F /\ \A d \in Nat : StoredAt(lhs, d) \in F /\ StoredAt(rhs, d) \in F
  BY Elements, StoredIs
<1>3. Apply(op, 0, 0) = 0
  BY <1>2, Applies
<1> HIDE DEF out
<1>4. CASE rhs = <<>>
  <2>1. out = lhs
    BY <1>1, <1>4
  <2>2. \A d \in Nat : StoredAt(rhs, d) = 0
    BY <1>4, <1>2, NoBlocks
  <2>3. \A d \in Nat : Apply(op, StoredAt(lhs, d), 0) = StoredAt(lhs, d)
    BY <1>2, Applies
  <2> QED
    BY <2>1, <2>2, <2>3 DEF out
<1>5. CASE rhs # <<>> /\ lhs = <<>>
  <2> DEFINE e == EndOf(rhs[Len(rhs)])
  <2>1. out = OntoZero(rhs, op)
    BY <1>1, <1>5
  <2>2. UpTo(out, e, rhs, op)
    BY <2>1, <1>2, <1>5, OntoZeroIs
  <2>3. /\ Len(rhs) \in 1 .. Len(rhs) /\ e \in Nat /\ e <= NumCoeffs
        /\ \A i \in 1 .. Len(rhs) : StartOf(rhs[i]) \in Nat /\ EndOf(rhs[i]) \in Nat
        /\ \A i \in 1 .. Len(rhs) : i < Len(rhs) => EndOf(rhs[i]) <= StartOf(rhs[Len(rhs)])
        /\ StartOf(rhs[Len(rhs)]) < e
    <3>1. Len(rhs) \in Nat /\ Len(rhs) # 0
      BY <1>5, BlocksAre, EmptySeq DEF BlocksOk
    <3>2. Len(rhs) \in 1 .. Len(rhs)
      BY <3>1
    <3> QED
      BY <3>2, BlocksAre
  <2> HIDE DEF e
  <2>4. BlocksOk(out, NumCoeffs)
    BY <2>2, <2>3, <1>2, BlocksBelow DEF UpTo
  <2>5. \A d \in Nat : StoredAt(lhs, d) = 0
    BY <1>5, <1>2, NoBlocks
  <2>6. ASSUME NEW d \in Nat PROVE StoredAt(out, d) = Apply(op, 0, StoredAt(rhs, d))
    <3>1. CASE d < e
      BY <3>1, <2>2 DEF UpTo
    <3>2. CASE d >= e
      <4>1. StoredAt(out, d) = 0
        BY <3>2, <2>2, <2>3, StoredAbove DEF UpTo
      <4>2. ASSUME NEW i \in 1 .. Len(rhs) PROVE ~ Covers(rhs[i], d)
        <5>1. EndOf(rhs[i]) \in Nat /\ EndOf(rhs[i]) <= e
          <6>1. CASE i = Len(rhs)
            BY <6>1, <2>3 DEF e
          <6>2. CASE i # Len(rhs)
            <7>1. EndOf(rhs[i]) <= StartOf(rhs[Len(rhs)]) /\ EndOf(rhs[i]) \in Nat
                  /\ StartOf(rhs[Len(rhs)]) \in Nat
              BY <6>2, <2>3
            <7> QED
              BY <7>1, <2>3
          <6> QED
            BY <6>1, <6>2
        <5> QED
          BY <5>1, <3>2, <2>3 DEF Covers
      <4>3. StoredAt(rhs, d) = 0
        BY <4>2, StoredIs
      <4> QED
        BY <4>1, <4>3, <1>3
    <3> QED
      BY <3>1, <3>2, <2>3
  <2> QED
    BY <2>4, <2>5, <2>6 DEF out
<1>6. CASE rhs # <<>> /\ lhs # <<>>
  <2>1. PICK m, e : /\ Merged(m, e, lhs, rhs, op, NumCoeffs) /\ m.out = MergeBoth(lhs, rhs, op)
                    /\ m.li > Len(lhs) /\ m.ri > Len(rhs)
    BY MergesBoth
  <2>2. out = m.out
    BY <2>1, <1>1, <1>6
  <2>3. /\ e \in Nat /\ e <= NumCoeffs /\ BlocksOk(out, e)
        /\ \A d \in Nat : d < e => StoredAt(out, d) = Apply(op, StoredAt(lhs, d), StoredAt(rhs, d))
        /\ Passes(lhs, m.li, e) /\ Passes(rhs, m.ri, e)
        /\ m.li \in 1 .. Len(lhs) + 1 /\ m.ri \in 1 .. Len(rhs) + 1
    BY <2>1, <2>2 DEF Merged, MergeState
  <2>4. BlocksOk(out, NumCoeffs)
    BY <2>3, <1>2, BlocksBelow
  <2>5. ASSUME NEW bs, BlocksOk(bs, NumCoeffs), NEW i \in 1 .. Len(bs) + 1, i > Len(bs), Passes(bs, i, e),
               NEW d \in Nat, d >= e
        PROVE  StoredAt(bs, d) = 0
    <3>1. ASSUME NEW k \in 1 .. Len(bs) PROVE ~ Covers(bs[k], d)
      <4>1. k < i /\ EndOf(bs[k]) \in Nat
        BY <2>5, BlocksAre
      <4>2. EndOf(bs[k]) <= e
        BY <4>1, <2>5 DEF Passes
      <4> QED
        BY <4>1, <4>2, <2>3, <2>5 DEF Covers
    <3> QED
      BY <3>1, <2>5, StoredIs
  <2>6. ASSUME NEW d \in Nat PROVE StoredAt(out, d) = Apply(op, StoredAt(lhs, d), StoredAt(rhs, d))
    <3>1. CASE d < e
      BY <3>1, <2>3
    <3>2. CASE d >= e
      <4>1. StoredAt(out, d) = 0
        BY <3>2, <2>3, StoredAbove
      <4>2. StoredAt(lhs, d) = 0
        BY <3>2, <2>1, <2>3, <2>5
      <4>3. StoredAt(rhs, d) = 0
        BY <3>2, <2>1, <2>3, <2>5
      <4> QED
        BY <4>1, <4>2, <4>3, <1>3
    <3> QED
      BY <3>1, <3>2, <2>3
  <2> QED
    BY <2>4, <2>6 DEF out
<1> QED
  BY <1>4, <1>5, <1>6
=============================================================================
