------------------------------ MODULE SyProofs ------------------------------
(***************************************************************************)
(* Proofs about the evaluator of s(X, y) (Sy.tla) on its own: an inductive *)
(* invariant of its call frames, virtual wire table, free list and work,   *)
(* for every circuit whose calls are wired as Rust's types force them to   *)
(* be (WellWired).  WiringProofs.tla carries it over to the specification. *)
(*                                                                         *)
(* Counting references alone is not inductive.  That a call never reads a  *)
(* dropped wire needs that frames hold all they still need (FrameOk);      *)
(* that a slot is taken clean needs that it is in the free list only when  *)
(* nothing refers to it (FreeOk), and that free() retires each slot once   *)
(* (ItemsOk).  That no slot is leaked at the end needs that no wire is made *)
(* of itself (Acyclic): dropping every handle then empties the table.      *)
(***************************************************************************)
EXTENDS Sy, DataTheorems

(* A virtual wire.                                                         *)
V(i) == <<"v", i>>

(* A wire that is not virtual, or a slot of a table of n.                  *)
Named(w, n) == IsVirtual(w) => \E i \in 1 .. n : w = V(i)

(* Bodies that run: the circuit's and those that are called.               *)
Called(p) == { r \in Routines : r = Main \/ CallsOf(p, r) # {} }

(* A frame's parts, and its handles among the places of its environment.   *)
IsFrame(f) ==
  /\ DOMAIN f = {"call", "held", "seg", "gates", "constraints", "current_y"}
  /\ DOMAIN f.call = {"name", "at", "extras", "env"}
  /\ IsList(f.call.env)
  /\ f.held \subseteq DOMAIN f.call.env

(* A frame under way, waiting for so many outputs of a routine it called:   *)
(* it has the wires the code before its next call made, holds all it still *)
(* needs, and every virtual one is a slot.                                 *)
FrameOk(p, f, n, awaited) ==
  /\ IsFrame(f)
  /\ f.call.name \in Called(p)
  /\ f.call.at \in 1 .. Len(OpsOf(p, f.call.name)) + 1
  /\ Len(f.call.env) + awaited = WiresBefore(p, f.call.name)[f.call.at]
  /\ Needed(p, f) \intersect DOMAIN f.call.env \subseteq f.held
  /\ \A k \in DOMAIN f.call.env : Named(f.call.env[k], n)

Awaited(p, stk, f) == IF f = 1 THEN 0 ELSE Len(p[stk[f - 1].call.name].outs)

FramesOk(p, stk, n) ==
  \A f \in DOMAIN stk :
    /\ FrameOk(p, stk[f], n, Awaited(p, stk, f))
    /\ f < Len(stk) => stk[f].call.name # Main

(* A slot, and the table.                                                  *)
SlotOk(t, n) ==
  /\ DOMAIN t = {"refcount", "terms", "value"}
  /\ IsList(t.terms)
  /\ \A k \in DOMAIN t.terms : Named(t.terms[k].wire, n)

SlotsOk(tab) == \A i \in DOMAIN tab : SlotOk(tab[i], Len(tab))

(* An item of free()'s work; what is retired is spent, and retired once.   *)
ItemOk(item, n) ==
  /\ item.kind \in {"give", "retire"}
  /\ Named(item.wire, n)
  /\ item.kind = "retire" => \E i \in 1 .. n : item = Retire(i)

Retiring(wk, i) == \E k \in DOMAIN wk : wk[k] = Retire(i)

ItemsOk(wk, tab) ==
  /\ \A k \in DOMAIN wk : ItemOk(wk[k], Len(tab))
  /\ \A i \in DOMAIN tab : Retiring(wk, i) => tab[i].refcount = 0 /\ tab[i].terms = <<>>
  /\ \A j, k \in DOMAIN wk : wk[j].kind = "retire" /\ wk[j] = wk[k] => j = k

(* The free list: spent slots, each once, and all of them but those that    *)
(* are being retired.                                                      *)
Dead(fr, i) == \E k \in DOMAIN fr : fr[k] = i

FreeOk(fr, tab, wk) ==
  /\ \A k \in DOMAIN fr : fr[k] \in DOMAIN tab
  /\ \A j, k \in DOMAIN fr : fr[j] = fr[k] => j = k
  /\ \A i \in DOMAIN tab : /\ Dead(fr, i) => Clean(tab[i]) /\ ~Retiring(wk, i)
                           /\ tab[i].refcount = 0 => Dead(fr, i) \/ Retiring(wk, i)

(* References to a slot: by handles, by terms, and drained.                *)
TermsTo(t, i)        == { k \in DOMAIN t.terms : t.terms[k].wire = V(i) }
HandleCount(stk, i)  == Cardinality(UNION { {f} \X HandlesTo(stk[f], i) : f \in DOMAIN stk })
NameCount(tab, i)    == Cardinality(UNION { {j} \X TermsTo(tab[j], i) : j \in DOMAIN tab })
DrainedTo(wk, i)     == { k \in DOMAIN wk : wk[k].kind = "give" /\ wk[k].wire = V(i) }
DrainCount(wk, i)    == Cardinality(DrainedTo(wk, i))

Exact(stk, tab, wk) ==
  \A i \in DOMAIN tab :
    tab[i].refcount = HandleCount(stk, i) + NameCount(tab, i) + DrainCount(wk, i)

(* A sound state, and the inductive invariant.                             *)
Sound(p, stk, tab, fr, wk) ==
  /\ IsList(stk) /\ IsList(tab) /\ IsList(fr) /\ IsList(wk)
  /\ FramesOk(p, stk, Len(tab))
  /\ SlotsOk(tab)
  /\ ItemsOk(wk, tab)
  /\ FreeOk(fr, tab, wk)
  /\ Exact(stk, tab, wk)

IInv ==
  /\ pc = "idle" => stack = <<>> /\ wires = <<>> /\ free = <<>> /\ work = <<>>
  /\ pc = "run" => stack # <<>>
  /\ Sound(prog, stack, wires, free, work)
-----------------------------------------------------------------------------
(* Handles.                                                                *)
LEMMA HandlesFew ==
  ASSUME NEW f, IsFrame(f), NEW i
  PROVE  /\ IsFiniteSet(HandlesTo(f, i)) /\ Cardinality(HandlesTo(f, i)) \in Nat
         /\ Cardinality(HandlesTo(f, i)) = 0 <=> HandlesTo(f, i) = {}
<1>1. Len(f.call.env) \in Nat /\ DOMAIN f.call.env = 1 .. Len(f.call.env)
  BY ListIs DEF IsFrame
<1>2. HandlesTo(f, i) \subseteq 1 .. Len(f.call.env)
  BY <1>1 DEF HandlesTo, IsFrame
<1> QED
  BY <1>1, <1>2, Few

AllFrames(stk) == \A f \in DOMAIN stk : IsFrame(stk[f])

(* The handles of all frames, frame by frame, as sheets to count.          *)
LEMMA HandleSheets ==
  ASSUME NEW stk, IsList(stk), AllFrames(stk), NEW i
  PROVE  /\ \A f \in 1 .. Len(stk) : IsFiniteSet(HandlesTo(stk[f], i))
         /\ HandleCount(stk, i) =
              Cardinality(Sheets(1 .. Len(stk), [f \in 1 .. Len(stk) |-> HandlesTo(stk[f], i)]))
         /\ HandleCount(stk, i) \in Nat
<1> DEFINE A == [f \in 1 .. Len(stk) |-> HandlesTo(stk[f], i)]
<1>1. Len(stk) \in Nat /\ DOMAIN stk = 1 .. Len(stk)
  BY ListIs
<1>2. \A f \in 1 .. Len(stk) : IsFiniteSet(HandlesTo(stk[f], i))
  BY <1>1, HandlesFew DEF AllFrames
<1>6. \A f \in 1 .. Len(stk) : IsFiniteSet(A[f])
  BY <1>2
<1>3. Sheets(1 .. Len(stk), A) = UNION { {f} \X HandlesTo(stk[f], i) : f \in 1 .. Len(stk) }
  BY DEF Sheets
<1>4. HandleCount(stk, i) = Cardinality(Sheets(1 .. Len(stk), A))
  BY <1>1, <1>3 DEF HandleCount
<1> HIDE DEF A
<1>5. Cardinality(Sheets(1 .. Len(stk), A)) \in Nat
  BY <1>1, <1>6, SheetsFinite
<1> QED
  BY <1>2, <1>4, <1>5 DEF A

(* A frame pushed brings its handles.                                      *)
LEMMA HandlesPushed ==
  ASSUME NEW stk, IsList(stk), AllFrames(stk), NEW f, IsFrame(f), NEW i
  PROVE  /\ AllFrames(<<f>> \o stk)
         /\ HandleCount(<<f>> \o stk, i) = Cardinality(HandlesTo(f, i)) + HandleCount(stk, i)
<1> DEFINE s == <<f>> \o stk
           A == [j \in 1 .. Len(s) |-> HandlesTo(s[j], i)]
           B == [j \in 1 .. Len(stk) |-> HandlesTo(stk[j], i)]
           n == Len(stk)
<1>1. n \in Nat /\ DOMAIN stk = 1 .. n
  BY ListIs
<1>2. /\ IsList(s) /\ Len(s) = n + 1 /\ DOMAIN s = 1 .. n + 1 /\ s[1] = f
      /\ \A k \in 1 .. n : s[k + 1] = stk[k]
  BY Pushed
<1> HIDE DEF n, s
<1>3. AllFrames(s)
  <2> SUFFICES ASSUME NEW j \in 1 .. n + 1 PROVE IsFrame(s[j])
    BY <1>2 DEF AllFrames
  <2>1. CASE j = 1
    BY <2>1, <1>2
  <2>2. CASE j # 1
    <3>1. j - 1 \in 1 .. n /\ (j - 1) + 1 = j
      BY <2>2, <1>1
    <3>2. s[(j - 1) + 1] = stk[j - 1]
      BY <3>1, <1>2
    <3> QED
      BY <3>1, <3>2, <1>1 DEF AllFrames
  <2> QED
    BY <2>1, <2>2
<1>4. /\ \A j \in 1 .. n + 1 : IsFiniteSet(A[j])
      /\ HandleCount(s, i) = Cardinality(Sheets(1 .. n + 1, A))
  BY <1>2, <1>3, HandleSheets
<1>5. HandleCount(stk, i) = Cardinality(Sheets(1 .. n, B))
  BY HandleSheets DEF n
<1>6. \A j \in 1 .. n : B[j] = A[j + 1]
  <2> SUFFICES ASSUME NEW j \in 1 .. n PROVE B[j] = A[j + 1]
    OBVIOUS
  <2>1. j + 1 \in 1 .. n + 1 /\ s[j + 1] = stk[j]
    BY <1>1, <1>2
  <2> QED
    BY <2>1, <1>2 DEF n
<1>7. A[1] = HandlesTo(f, i)
  BY <1>1, <1>2
<1> HIDE DEF A, B
<1>8. Cardinality(Sheets(1 .. n + 1, A)) = Cardinality(A[1]) + Cardinality(Sheets(1 .. n, B))
  BY <1>1, <1>4, <1>6, SheetsPushed
<1>9. HandleCount(s, i) = Cardinality(HandlesTo(f, i)) + HandleCount(stk, i)
  BY <1>4, <1>5, <1>7, <1>8
<1> QED
  BY <1>3, <1>9 DEF s

(* No frame, no handle.                                                    *)
LEMMA NoHandles == \A i : HandleCount(<<>>, i) = 0
<1>1. \A i : UNION { {f} \X HandlesTo((<<>>)[f], i) : f \in DOMAIN <<>> } = {}
  OBVIOUS
<1> QED
  BY <1>1, FS_EmptySet DEF HandleCount

(* The handles of a stack are those of its top frame and of the rest.      *)
LEMMA HandlesOnTop ==
  ASSUME NEW stk, IsList(stk), stk # <<>>, AllFrames(stk), NEW i
  PROVE  /\ AllFrames(Tail(stk))
         /\ HandleCount(stk, i) =
              Cardinality(HandlesTo(stk[1], i)) + HandleCount(Tail(stk), i)
<1>1. /\ IsList(Tail(stk)) /\ Len(stk) \in Nat \ {0} /\ Len(Tail(stk)) = Len(stk) - 1
      /\ \A k \in 1 .. Len(Tail(stk)) : Tail(stk)[k] = stk[k + 1]
      /\ stk = <<stk[1]>> \o Tail(stk)
  BY Popped
<1>2. DOMAIN stk = 1 .. Len(stk) /\ DOMAIN Tail(stk) = 1 .. Len(Tail(stk))
  BY <1>1, ListIs
<1>3. IsFrame(stk[1])
  BY <1>1, <1>2 DEF AllFrames
<1>4. AllFrames(Tail(stk))
  BY <1>1, <1>2 DEF AllFrames
<1>5. HandleCount(<<stk[1]>> \o Tail(stk), i) =
        Cardinality(HandlesTo(stk[1], i)) + HandleCount(Tail(stk), i)
  BY <1>1, <1>3, <1>4, HandlesPushed
<1> QED
  BY <1>1, <1>4, <1>5

(* Terms.                                                                  *)
AllTerms(tab) == \A j \in DOMAIN tab : IsList(tab[j].terms)
Sheet(tab, i) == [j \in DOMAIN tab |-> TermsTo(tab[j], i)]

(* A virtual wire names another one finitely often.                        *)
LEMMA TermsFew ==
  ASSUME NEW t, IsList(t.terms), NEW i
  PROVE  IsFiniteSet(TermsTo(t, i)) /\ Cardinality(TermsTo(t, i)) \in Nat
<1>1. Len(t.terms) \in Nat /\ DOMAIN t.terms = 1 .. Len(t.terms)
  BY ListIs
<1>2. TermsTo(t, i) \subseteq 1 .. Len(t.terms)
  BY <1>1 DEF TermsTo
<1> QED
  BY <1>1, <1>2, Few

(* The terms of all slots that name a wire, slot by slot.                  *)
LEMMA NameSheets ==
  ASSUME NEW tab, IsList(tab), AllTerms(tab), NEW i
  PROVE  /\ \A j \in 1 .. Len(tab) : IsFiniteSet(Sheet(tab, i)[j]) /\ Sheet(tab, i)[j] = TermsTo(tab[j], i)
         /\ NameCount(tab, i) = Cardinality(Sheets(1 .. Len(tab), Sheet(tab, i)))
         /\ NameCount(tab, i) \in Nat
<1>1. Len(tab) \in Nat /\ DOMAIN tab = 1 .. Len(tab)
  BY ListIs
<1>2. \A j \in 1 .. Len(tab) : IsFiniteSet(Sheet(tab, i)[j]) /\ Sheet(tab, i)[j] = TermsTo(tab[j], i)
  BY <1>1, TermsFew DEF AllTerms, Sheet
<1>3. Sheets(1 .. Len(tab), Sheet(tab, i)) = UNION { {j} \X TermsTo(tab[j], i) : j \in 1 .. Len(tab) }
  BY <1>2 DEF Sheets
<1>4. NameCount(tab, i) = Cardinality(Sheets(1 .. Len(tab), Sheet(tab, i)))
  BY <1>1, <1>3 DEF NameCount
<1>5. Cardinality(Sheets(1 .. Len(tab), Sheet(tab, i))) \in Nat
  BY <1>1, <1>2, SheetsFinite
<1> QED
  BY <1>2, <1>4, <1>5

(* One slot gets other terms: the count of names changes by theirs.        *)
LEMMA NamesChanged ==
  ASSUME NEW tab, IsList(tab), AllTerms(tab), NEW new, IsList(new), AllTerms(new),
         Len(new) = Len(tab), NEW m \in 1 .. Len(tab),
         \A j \in 1 .. Len(tab) : j # m => new[j].terms = tab[j].terms, NEW i
  PROVE  NameCount(new, i) = (NameCount(tab, i) - Cardinality(TermsTo(tab[m], i)))
                               + Cardinality(TermsTo(new[m], i))
<1> DEFINE n == Len(tab)
           A == Sheet(tab, i)
           B == Sheet(new, i)
           D == (1 .. n) \ {m}
<1>1. n \in Nat /\ m \in 1 .. n
  BY ListIs
<1>2. /\ \A j \in 1 .. n : IsFiniteSet(A[j]) /\ A[j] = TermsTo(tab[j], i)
      /\ NameCount(tab, i) = Cardinality(Sheets(1 .. n, A))
  BY NameSheets
<1>3. /\ \A j \in 1 .. n : IsFiniteSet(B[j]) /\ B[j] = TermsTo(new[j], i)
      /\ NameCount(new, i) = Cardinality(Sheets(1 .. n, B))
  BY NameSheets
<1>4. \A j \in D : A[j] = B[j]
  BY <1>2, <1>3 DEF TermsTo
<1> HIDE DEF n, A, B, D
<1>5. Sheets(D, A) = Sheets(D, B)
  BY <1>4, SheetsAgree
<1>6. Cardinality(Sheets(1 .. n, A)) = Cardinality(Sheets(D, A)) + Cardinality(A[m])
  BY <1>1, <1>2, SheetsSplit DEF D
<1>7. Cardinality(Sheets(1 .. n, B)) = Cardinality(Sheets(D, B)) + Cardinality(B[m])
  BY <1>1, <1>3, SheetsSplit DEF D
<1>8. D \subseteq 1 .. n
  BY DEF D
<1>9. Cardinality(Sheets(D, A)) \in Nat
  BY <1>1, <1>2, <1>8, SheetsFinite
<1>10. Cardinality(A[m]) \in Nat /\ Cardinality(B[m]) \in Nat
  BY <1>1, <1>2, <1>3, FS_CardinalityType
<1> QED
  BY <1>1, <1>2, <1>3, <1>5, <1>6, <1>7, <1>9, <1>10

(* A table with the same terms names the same wires.                       *)
LEMMA NamesSame ==
  ASSUME NEW tab, NEW new, DOMAIN new = DOMAIN tab,
         \A j \in DOMAIN tab : new[j].terms = tab[j].terms
  PROVE  \A i : NameCount(new, i) = NameCount(tab, i)
<1>1. \A i : \A j \in DOMAIN tab : TermsTo(new[j], i) = TermsTo(tab[j], i)
  BY DEF TermsTo
<1>2. \A i : UNION { {j} \X TermsTo(new[j], i) : j \in DOMAIN new }
               = UNION { {j} \X TermsTo(tab[j], i) : j \in DOMAIN tab }
  BY <1>1
<1> QED
  BY <1>2 DEF NameCount

(* A slot appended brings its terms.                                       *)
LEMMA NamesAppended ==
  ASSUME NEW tab, IsList(tab), AllTerms(tab), NEW new, IsList(new), AllTerms(new),
         Len(new) = Len(tab) + 1,
         \A j \in 1 .. Len(tab) : new[j].terms = tab[j].terms, NEW i
  PROVE  NameCount(new, i) = NameCount(tab, i) + Cardinality(TermsTo(new[Len(tab) + 1], i))
<1> DEFINE n == Len(tab)
           A == Sheet(tab, i)
           B == Sheet(new, i)
<1>1. n \in Nat /\ n + 1 \in 1 .. n + 1 /\ n + 1 \in Nat
  BY ListIs
<1>2. /\ \A j \in 1 .. n : IsFiniteSet(A[j]) /\ A[j] = TermsTo(tab[j], i)
      /\ NameCount(tab, i) = Cardinality(Sheets(1 .. n, A))
  BY NameSheets
<1>3. /\ \A j \in 1 .. n + 1 : IsFiniteSet(B[j]) /\ B[j] = TermsTo(new[j], i)
      /\ NameCount(new, i) = Cardinality(Sheets(1 .. n + 1, B))
  BY NameSheets
<1>4. \A j \in 1 .. n : A[j] = B[j]
  <2> SUFFICES ASSUME NEW j \in 1 .. n PROVE A[j] = B[j]
    OBVIOUS
  <2>1. j \in 1 .. n + 1 /\ new[j].terms = tab[j].terms
    BY <1>1
  <2>2. TermsTo(new[j], i) = TermsTo(tab[j], i)
    BY <2>1 DEF TermsTo
  <2> HIDE DEF n, A, B
  <2> QED
    BY <2>1, <2>2, <1>2, <1>3
<1>5. B[n + 1] = TermsTo(new[n + 1], i)
  BY <1>1, <1>3
<1> HIDE DEF n, A, B
<1>6. Sheets(1 .. n, A) = Sheets(1 .. n, B)
  BY <1>4, SheetsAgree
<1>7. Cardinality(Sheets(1 .. n + 1, B))
        = Cardinality(Sheets((1 .. n + 1) \ {n + 1}, B)) + Cardinality(B[n + 1])
  BY <1>1, <1>3, SheetsSplit
<1>8. (1 .. n + 1) \ {n + 1} = 1 .. n
  BY <1>1
<1>9. NameCount(new, i) = NameCount(tab, i) + Cardinality(TermsTo(new[n + 1], i))
  BY <1>2, <1>3, <1>5, <1>6, <1>7, <1>8
<1> QED
  BY <1>9 DEF n

(* Drained terms, and references from a list of wires.                     *)
LEMMA DrainedJoined ==
  ASSUME NEW s, NEW t, IsList(s), IsList(t), NEW i
  PROVE  /\ DrainCount(s \o t, i) = DrainCount(s, i) + DrainCount(t, i)
         /\ DrainCount(s, i) \in Nat /\ DrainCount(t, i) \in Nat
<1> DEFINE m == Len(s)
           n == Len(t)
           A == DrainedTo(s, i)
           B == DrainedTo(t, i)
           C == A \cup Shifted(m, B)
<1>1. m \in Nat /\ n \in Nat /\ DOMAIN s = 1 .. m /\ DOMAIN t = 1 .. n
  BY ListIs
<1>2. /\ DOMAIN (s \o t) = 1 .. m + n
      /\ \A k \in 1 .. m : (s \o t)[k] = s[k]
      /\ \A k \in 1 .. n : (s \o t)[m + k] = t[k]
  BY Joined
<1>3. A \subseteq 1 .. m /\ B \subseteq 1 .. n
  BY <1>1 DEF DrainedTo
<1> HIDE DEF m, n
<1>4. DrainedTo(s \o t, i) = C
  <2>1. ASSUME NEW k \in DrainedTo(s \o t, i) PROVE k \in C
    <3>1. k \in 1 .. m + n /\ (s \o t)[k].kind = "give" /\ (s \o t)[k].wire = V(i)
      BY <1>2 DEF DrainedTo
    <3>2. CASE k <= m
      <4>1. k \in 1 .. m
        BY <3>1, <3>2, <1>1
      <4> QED
        BY <4>1, <3>1, <1>1, <1>2 DEF DrainedTo
    <3>3. CASE ~(k <= m)
      <4>1. k - m \in 1 .. n /\ m + (k - m) = k
        BY <3>1, <3>3, <1>1
      <4>2. (s \o t)[m + (k - m)] = t[k - m]
        BY <4>1, <1>2
      <4>3. k - m \in B
        BY <4>1, <4>2, <3>1, <1>1 DEF DrainedTo
      <4> QED
        BY <4>1, <4>3 DEF Shifted
    <3> QED
      BY <3>2, <3>3
  <2>2. ASSUME NEW k \in C PROVE k \in DrainedTo(s \o t, i)
    <3>1. CASE k \in A
      <4>1. k \in 1 .. m /\ s[k].kind = "give" /\ s[k].wire = V(i) /\ k \in 1 .. m + n
        BY <3>1, <1>1 DEF DrainedTo
      <4> QED
        BY <4>1, <1>2 DEF DrainedTo
    <3>2. CASE k \notin A
      <4>1. PICK j \in B : k = m + j
        BY <3>2 DEF Shifted
      <4>2. j \in 1 .. n /\ t[j].kind = "give" /\ t[j].wire = V(i) /\ k \in 1 .. m + n
        BY <4>1, <1>1 DEF DrainedTo
      <4>3. (s \o t)[m + j] = t[j]
        BY <4>2, <1>2
      <4> QED
        BY <4>1, <4>2, <4>3, <1>2 DEF DrainedTo
    <3> QED
      BY <3>1, <3>2
  <2> QED
    BY <2>1, <2>2
<1> HIDE DEF A, B
<1>5. /\ IsFiniteSet(A) /\ IsFiniteSet(B)
      /\ Cardinality(C) = Cardinality(A) + Cardinality(B)
  <2>1. IsFiniteSet(A) /\ IsFiniteSet(B)
    BY <1>1, <1>3, Few
  <2>2. m \in Nat /\ A \subseteq 1 .. m /\ B \subseteq Nat \ {0}
    BY <1>1, <1>3
  <2> HIDE DEF A, B, m, n
  <2> QED
    BY <2>1, <2>2, JoinedCount, ZenonT(40)
<1>6. Cardinality(A) \in Nat /\ Cardinality(B) \in Nat
  BY <1>5, FS_CardinalityType
<1> QED
  BY <1>4, <1>5, <1>6 DEF DrainCount, A, B

(* One item of the work list is one drained reference or none.             *)
LEMMA DrainedOne ==
  ASSUME NEW e, NEW i
  PROVE  DrainCount(<<e>>, i) = IF e.kind = "give" /\ e.wire = V(i) THEN 1 ELSE 0
<1>1. DrainedTo(<<e>>, i) = IF e.kind = "give" /\ e.wire = V(i) THEN {1} ELSE {}
  BY DEF DrainedTo
<1> QED
  BY <1>1, FS_EmptySet, FS_Singleton DEF DrainCount

Places(ws, i) == { k \in DOMAIN ws : ws[k] = V(i) }

(* References in a list of wires, and when there are none.                 *)
LEMMA RefsAre ==
  ASSUME NEW ws, IsList(ws), NEW i
  PROVE  /\ RefsTo(i, ws) \in Nat /\ RefsTo(i, ws) = Cardinality(Places(ws, i))
         /\ RefsTo(i, ws) = 0 <=> \A k \in DOMAIN ws : ws[k] # V(i)
<1>1. Len(ws) \in Nat /\ Places(ws, i) \subseteq 1 .. Len(ws)
  BY ListIs DEF Places
<1>2. RefsTo(i, ws) = Cardinality(Places(ws, i))
  BY DEF RefsTo, Places, V
<1> HIDE DEF RefsTo
<1>3. Cardinality(Places(ws, i)) \in Nat /\ (Cardinality(Places(ws, i)) = 0 <=> Places(ws, i) = {})
  BY <1>1, Few
<1> QED
  BY <1>2, <1>3 DEF Places
-----------------------------------------------------------------------------
(* The calls of a circuit. *)

(* What the body of a routine of a circuit is.                             *)
LEMMA BodyIs ==
  ASSUME NEW p \in Programs, NEW r \in Routines
  PROVE  p[r].ops \in Seq(Op) /\ p[r].outs \in Seq(Nat \ {0})
<1>1. p \in [Routines -> Body]
  BY CircuitAssumption
<1> QED
  BY <1>1 DEF Body

(* orchestrate()'s constraints are driver calls.                           *)
LEMMA Constraint ==
  ASSUME NEW w \in Nat
  PROVE  EnforceZero(<< <<w, 1>> >>) \in Op
<1>1. <<w, 1>> \in Term
  BY DEF Term
<1>2. << <<w, 1>> >> \in Seq(Term)
  BY <1>1
<1> QED
  BY <1>2 DEF EnforceZero, Op, LinearOp

(* The driver calls of a body, orchestrate()'s included; the routine calls *)
(* among them are the body's own.                                          *)
LEMMA OpsAre ==
  ASSUME NEW p \in Programs, NEW r \in Routines
  PROVE  /\ OpsOf(p, r) \in Seq(Op)
         /\ \A i \in DOMAIN OpsOf(p, r) : OpsOf(p, r)[i].kind = "routine" =>
              i \in DOMAIN p[r].ops /\ OpsOf(p, r)[i] = p[r].ops[i]
<1> DEFINE ops == p[r].ops
           outs == p[r].outs
           own == [k \in DOMAIN outs |-> EnforceZero(<< <<outs[k], 1>> >>)]
           one == <<EnforceZero(<< <<1, 1>> >>)>>
           more == IF r = Main THEN own \o one ELSE <<>>
<1>1. ops \in Seq(Op) /\ outs \in Seq(Nat \ {0})
  BY BodyIs
<1>2. OpsOf(p, r) = ops \o more
  BY DEF OpsOf
<1>3. own \in Seq(Op) /\ Len(own) = Len(outs)
  <2>1. Len(outs) \in Nat /\ DOMAIN outs = 1 .. Len(outs)
        /\ \A k \in 1 .. Len(outs) : outs[k] \in Nat
    BY <1>1
  <2>2. \A k \in 1 .. Len(outs) : EnforceZero(<< <<outs[k], 1>> >>) \in Op
    BY <2>1, Constraint
  <2>3. own \in [1 .. Len(outs) -> Op]
    BY <2>1, <2>2
  <2> HIDE DEF own
  <2> QED
    BY <2>1, <2>3
<1>4. one \in Seq(Op) /\ Len(one) = 1
  <2>1. EnforceZero(<< <<1, 1>> >>) \in Op
    BY Constraint
  <2> QED
    BY <2>1
<1>5. \A k \in 1 .. Len(own) : own[k].kind = "enforce_zero"
  BY <1>1, <1>3 DEF EnforceZero
<1>6. one[1].kind = "enforce_zero"
  BY DEF EnforceZero
<1> HIDE DEF own, one, ops, outs
<1>7. more \in Seq(Op) /\ \A k \in 1 .. Len(more) : more[k].kind = "enforce_zero"
  <2>1. CASE r = Main
    <3>1. /\ own \o one \in Seq(Op) /\ Len(own \o one) = Len(own) + 1
          /\ \A i \in 1 .. Len(own) + 1 :
               (own \o one)[i] = IF i <= Len(own) THEN own[i] ELSE one[i - Len(own)]
      <4>1. /\ own \o one \in Seq(Op) /\ Len(own \o one) = Len(own) + Len(one)
            /\ \A i \in 1 .. Len(own) + Len(one) :
                 (own \o one)[i] = IF i <= Len(own) THEN own[i] ELSE one[i - Len(own)]
        BY <1>3, <1>4, ConcatProperties, ZenonT(40)
      <4> QED
        BY <4>1, <1>4
    <3>2. Len(own) \in Nat
      BY <1>3
    <3>3. \A i \in 1 .. Len(own) + 1 : (own \o one)[i].kind = "enforce_zero"
      BY <3>1, <3>2, <1>5, <1>6
    <3> QED
      BY <2>1, <3>1, <3>3
  <2>2. CASE r # Main
    BY <2>2
  <2> QED
    BY <2>1, <2>2
<1> HIDE DEF more
<1>8. /\ ops \o more \in Seq(Op) /\ Len(ops \o more) = Len(ops) + Len(more)
      /\ \A i \in 1 .. Len(ops) + Len(more) :
           (ops \o more)[i] = IF i <= Len(ops) THEN ops[i] ELSE more[i - Len(ops)]
  BY <1>1, <1>7, ConcatProperties
<1>9. ASSUME NEW i \in DOMAIN (ops \o more), (ops \o more)[i].kind = "routine"
      PROVE  i \in DOMAIN ops /\ (ops \o more)[i] = ops[i]
  <2>1. Len(ops) \in Nat /\ DOMAIN ops = 1 .. Len(ops) /\ Len(more) \in Nat
    BY <1>1, <1>7
  <2>2. i \in 1 .. Len(ops) + Len(more)
    BY <1>8, LenProperties
  <2>3. i <= Len(ops)
    <3> SUFFICES ASSUME ~(i <= Len(ops)) PROVE FALSE
      BY <2>1, <2>2
    <3>1. i - Len(ops) \in 1 .. Len(more) /\ (ops \o more)[i] = more[i - Len(ops)]
      BY <1>8, <2>1, <2>2
    <3> QED
      BY <3>1, <1>7, <1>9
  <2> QED
    BY <2>1, <2>2, <2>3, <1>8
<1>10. OpsOf(p, r) \in Seq(Op)
  BY <1>2, <1>8
<1> QED
  BY <1>2, <1>9, <1>10 DEF ops

(* The parts of a driver call, by kind.                                    *)
LEMMA OpIs ==
  ASSUME NEW op \in Op
  PROVE  /\ op.kind \in {"gate", "assign_extra", "add", "enforce_zero", "routine"}
         /\ op.kind \in {"add", "enforce_zero"} => op.lc \in Seq(Term)
         /\ op.kind = "routine" => op.name \in Routines /\ op.args \in Seq(Nat \ {0})
BY DEF Op, GateOp, AssignExtraOp, LinearOp, RoutineOp

(* A call adds a number of wires.                                          *)
LEMMA BindsType ==
  ASSUME NEW p \in Programs, NEW op \in Op
  PROVE  Binds(p, op) \in Nat
<1>1. op.kind = "routine" => Len(p[op.name].outs) \in Nat
  BY OpIs, BodyIs, LenProperties
<1> QED
  BY <1>1 DEF Binds

(* What a call of a routine is.                                            *)
LEMMA CallIs ==
  ASSUME NEW p \in Programs, NEW name, NEW c \in CallsOf(p, name)
  PROVE  /\ c[1] \in Routines /\ c[2] \in DOMAIN p[c[1]].ops
         /\ p[c[1]].ops[c[2]].kind = "routine" /\ p[c[1]].ops[c[2]].name = name
         /\ Len(p[c[1]].ops[c[2]].args) \in Nat
<1>1. PICK r \in Routines : c \in {r} \X DOMAIN p[r].ops
  BY DEF CallsOf
<1>2. /\ c[1] \in Routines /\ c[2] \in DOMAIN p[c[1]].ops
      /\ p[c[1]].ops[c[2]].kind = "routine" /\ p[c[1]].ops[c[2]].name = name
  BY <1>1 DEF CallsOf
<1>3. p[c[1]].ops \in Seq(Op)
  BY <1>2, BodyIs
<1>4. p[c[1]].ops[c[2]] \in Op
  BY <1>2, <1>3
<1>5. p[c[1]].ops[c[2]].args \in Seq(Nat \ {0})
  BY <1>2, <1>4, OpIs
<1>6. Len(p[c[1]].ops[c[2]].args) \in Nat
  BY <1>5, LenProperties
<1> QED
  BY <1>2, <1>6

(* A routine takes a number of wires.                                      *)
LEMMA ArityType ==
  ASSUME NEW p \in Programs, NEW name
  PROVE  Arity(p, name) \in Nat
<1> DEFINE C == CallsOf(p, name)
           L == { Len(p[c[1]].ops[c[2]].args) : c \in C }
<1>1. L \subseteq Nat
  BY CallIs
<1>2. C # {} => L # {}
  OBVIOUS
<1>3. Arity(p, name) = IF C = {} THEN 0 ELSE CHOOSE n \in L : TRUE
  BY DEF Arity
<1> HIDE DEF L, C
<1>4. CASE C = {}
  BY <1>3, <1>4
<1>5. CASE C # {}
  <2>1. (CHOOSE n \in L : TRUE) \in L
    BY <1>2, <1>5
  <2> QED
    BY <2>1, <1>1, <1>3, <1>5
<1> QED
  BY <1>4, <1>5

(* The wires a body has before each of its calls: one more step of the     *)
(* recursion that counts them.                                             *)
LEMMA WiresBeforeIs ==
  ASSUME NEW p \in Programs, NEW r \in Routines
  PROVE  /\ WiresBefore(p, r)[1] = 1 + Arity(p, r)
         /\ \A i \in 1 .. Len(OpsOf(p, r)) :
              WiresBefore(p, r)[i + 1] = WiresBefore(p, r)[i] + Binds(p, OpsOf(p, r)[i])
         /\ \A i \in 1 .. Len(OpsOf(p, r)) + 1 : WiresBefore(p, r)[i] \in Nat
<1> DEFINE ops == OpsOf(p, r)
           L == Len(ops)
           base == 1 + Arity(p, r)
           Solves(size) == size = [i \in 1 .. L + 1 |->
                             IF i = 1 THEN base ELSE size[i - 1] + Binds(p, ops[i - 1])]
           sizes == CHOOSE size : Solves(size)
           Step == [c \in Nat \X (1 + 1 .. L + 1) |-> c[1] + Binds(p, ops[c[2] - 1])]
<1>1. WiresBefore(p, r) = sizes
  BY DEF WiresBefore
<1>2. L \in Nat /\ \A i \in 1 .. L : Binds(p, ops[i]) \in Nat
  <2>1. ops \in Seq(Op)
    BY OpsAre
  <2>2. L \in Nat /\ \A i \in 1 .. L : ops[i] \in Op
    BY <2>1, LenProperties
  <2> HIDE DEF ops, L
  <2> QED
    BY <2>2, BindsType
<1>3. base \in Nat
  BY ArityType
<1> HIDE DEF ops, L, base
<1>4. Step \in [Nat \X (1 + 1 .. L + 1) -> Nat]
  <2> SUFFICES ASSUME NEW c \in Nat \X (1 + 1 .. L + 1)
               PROVE  c[1] + Binds(p, ops[c[2] - 1]) \in Nat
    OBVIOUS
  <2>1. c[2] - 1 \in 1 .. L /\ c[1] \in Nat
    BY <1>2
  <2> QED
    BY <2>1, <1>2
<1> HIDE DEF Step
<1>5. 1 \in Int /\ L + 1 \in Int /\ 1 <= L + 1
  BY <1>2
<1>6. PICK f : Follows(f, 1, L + 1, Nat, base, Step)
  BY <1>3, <1>4, <1>5, Iterates
<1>7. Solves(f)
  <2>1. f \in [1 .. L + 1 -> Nat] /\ f[1] = base
        /\ \A k \in 1 + 1 .. L + 1 : f[k] = Step[<<f[k - 1], k>>]
    BY <1>6 DEF Follows
  <2>2. ASSUME NEW k \in 1 .. L + 1
        PROVE  f[k] = IF k = 1 THEN base ELSE f[k - 1] + Binds(p, ops[k - 1])
    <3>1. CASE k = 1
      BY <2>1, <3>1
    <3>2. CASE k # 1
      <4>1. k \in 1 + 1 .. L + 1 /\ k - 1 \in 1 .. L + 1
        BY <3>2, <1>2
      <4>2. f[k - 1] \in Nat
        BY <2>1, <4>1
      <4>3. Step[<<f[k - 1], k>>] = f[k - 1] + Binds(p, ops[k - 1])
        BY <4>1, <4>2 DEF Step
      <4> QED
        BY <2>1, <3>2, <4>1, <4>3
    <3> QED
      BY <3>1, <3>2
  <2> QED
    BY <2>1, <2>2
<1>8. Solves(sizes)
  BY <1>7
<1>9. \A i \in 1 .. L + 1 : sizes[i] = IF i = 1 THEN base ELSE sizes[i - 1] + Binds(p, ops[i - 1])
  BY <1>8, Zenon
<1> HIDE DEF sizes
<1>10. sizes[1] = base
  BY <1>5, <1>9
<1>11. \A i \in 1 .. L : sizes[i + 1] = sizes[i] + Binds(p, ops[i])
  <2> SUFFICES ASSUME NEW i \in 1 .. L PROVE sizes[i + 1] = sizes[i] + Binds(p, ops[i])
    OBVIOUS
  <2>1. i + 1 \in 1 .. L + 1 /\ i + 1 # 1 /\ (i + 1) - 1 = i
    BY <1>2
  <2>2. sizes[i + 1] = sizes[(i + 1) - 1] + Binds(p, ops[(i + 1) - 1])
    BY <2>1, <1>9
  <2> QED
    BY <2>1, <2>2
<1>12. \A i \in 1 .. L + 1 : sizes[i] \in Nat
  <2> DEFINE S == { i \in 1 .. L + 1 : sizes[i] \in Nat }
  <2>1. 1 \in S
    BY <1>3, <1>5, <1>10
  <2>2. \A i \in 1 + 1 .. L + 1 : i - 1 \in S => i \in S
    <3> SUFFICES ASSUME NEW i \in 1 + 1 .. L + 1, i - 1 \in S PROVE i \in S
      OBVIOUS
    <3>1. i - 1 \in 1 .. L /\ i \in 1 .. L + 1 /\ (i - 1) + 1 = i
      BY <1>2
    <3>2. sizes[(i - 1) + 1] = sizes[i - 1] + Binds(p, ops[i - 1])
      BY <3>1, <1>11
    <3>3. sizes[i - 1] \in Nat /\ Binds(p, ops[i - 1]) \in Nat
      BY <3>1, <1>2
    <3> QED
      BY <3>1, <3>2, <3>3
  <2> HIDE DEF S
  <2>3. \A i \in 1 .. L + 1 : i \in S
    BY <1>5, <2>1, <2>2, Interval
  <2> QED
    BY <2>3 DEF S
<1> QED
  BY <1>1, <1>10, <1>11, <1>12 DEF ops, L, base
-----------------------------------------------------------------------------
(* A frame past one more call, with the wires and handles it had.          *)
MovesOn(f, g) ==
  /\ IsFrame(g) /\ g.call.name = f.call.name /\ g.call.at = f.call.at + 1
  /\ g.call.env = f.call.env /\ g.held = f.held

(* Advancing a frame leaves its wires and handles.                         *)
LEMMA AdvancedIs ==
  ASSUME NEW f, IsFrame(f)
  PROVE  MovesOn(f, [f EXCEPT !.call = Advanced(@)])
BY DEF MovesOn, IsFrame, Advanced

(* The places of new wires after those of an environment, and the frame    *)
(* that is past one more call and holds them.                              *)
NewPlaces(env, new) == Len(env) + 1 .. Len(env) + Len(new)

Grown(f, g, new) ==
  /\ IsFrame(g) /\ g.call.name = f.call.name /\ g.call.at = f.call.at + 1
  /\ g.call.env = f.call.env \o new
  /\ g.held = f.held \union NewPlaces(f.call.env, new)

(* Hold binds the new wires and holds them.                                *)
LEMMA HoldIs ==
  ASSUME NEW f, IsFrame(f), NEW new, IsList(new)
  PROVE  Grown(f, Hold(f, new), new)
<1> DEFINE c == Bind(f.call, new)
           n == Len(f.call.env)
           h == f.held \union (n + 1 .. n + Len(new))
<1>1. n \in Nat /\ Len(new) \in Nat /\ IsList(f.call.env) /\ DOMAIN f.call.env = 1 .. n
      /\ f.held \subseteq 1 .. n
  BY ListIs DEF IsFrame
<1>2. IsList(f.call.env \o new) /\ DOMAIN (f.call.env \o new) = 1 .. n + Len(new)
  BY <1>1, Joined
<1>3. /\ DOMAIN c = {"name", "at", "extras", "env"}
      /\ c.name = f.call.name /\ c.at = f.call.at + 1 /\ c.env = f.call.env \o new
  BY DEF IsFrame, Bind, Advanced
<1>4. h \subseteq 1 .. n + Len(new)
  BY <1>1
<1>5. Hold(f, new) = [f EXCEPT !.call = c, !.held = h]
  BY DEF Hold
<1> HIDE DEF c, h
<1>6. /\ DOMAIN Hold(f, new) = DOMAIN f
      /\ Hold(f, new).call = c /\ Hold(f, new).held = h
  BY <1>5 DEF IsFrame
<1>7. IsFrame(Hold(f, new))
  BY <1>2, <1>3, <1>4, <1>6 DEF IsFrame
<1> QED
  BY <1>3, <1>6, <1>7 DEF h, Grown, NewPlaces

(* A frame before its first call.                                          *)
Fresh(g, name, inputs) ==
  /\ IsFrame(g) /\ g.call.name = name /\ g.call.at = 1
  /\ g.call.env = <<ONE>> \o inputs
  /\ g.held = 1 .. 1 + Len(inputs)

(* A new scope holds the ONE wire and its inputs.                          *)
LEMMA NewScopeIs ==
  ASSUME NEW name, NEW inputs, IsList(inputs), NEW seg
  PROVE  Fresh(NewScope(name, inputs, seg), name, inputs)
<1>1. Len(inputs) \in Nat
  BY ListIs
<1>2. IsList(<<ONE>> \o inputs) /\ DOMAIN (<<ONE>> \o inputs) = 1 .. 1 + Len(inputs)
  BY <1>1, Pushed
<1> QED
  BY <1>2 DEF IsFrame, NewScope, NewCallFrame, Fresh

(* The handles to wire i at the places held of an environment.             *)
HeldTo(env, held, i) == { k \in held : env[k] = V(i) }
Widened(env, held, all, more, new) ==
  /\ IsList(env) /\ IsList(new) /\ held \subseteq 1 .. Len(env)
  /\ all = env \o new /\ more = held \union NewPlaces(env, new)

(* New wires held are as many new handles as they refer.                   *)
LEMMA HandlesGrow ==
  ASSUME NEW env, NEW new, NEW held, NEW all, NEW more, NEW i,
         Widened(env, held, all, more, new)
  PROVE  Cardinality(HeldTo(all, more, i)) =
           Cardinality(HeldTo(env, held, i)) + RefsTo(i, new)
<1> DEFINE m == Len(env)
           n == Len(new)
           A == HeldTo(env, held, i)
           B == Places(new, i)
<1>0. IsList(env) /\ IsList(new) /\ held \subseteq 1 .. Len(env)
  BY DEF Widened
<1>1. m \in Nat /\ n \in Nat /\ DOMAIN new = 1 .. n
  BY <1>0, ListIs
<1>2. /\ \A k \in 1 .. m : all[k] = env[k]
      /\ \A k \in 1 .. n : all[m + k] = new[k]
  <2>1. all = env \o new
    BY DEF Widened
  <2> QED
    BY <2>1, <1>0, Joined
<1>3. A \subseteq 1 .. m /\ B \subseteq 1 .. n
  BY <1>0, <1>1 DEF HeldTo, Places
<1> HIDE DEF m, n
<1>4. HeldTo(all, more, i) = A \cup Shifted(m, B)
  <2>0. more = held \union (m + 1 .. m + n)
    BY DEF m, n, NewPlaces, Widened
  <2>1. ASSUME NEW k \in held PROVE k \in 1 .. m /\ all[k] = env[k]
    BY <1>0, <1>2 DEF m
  <2>2. ASSUME NEW k \in m + 1 .. m + n
        PROVE  k - m \in 1 .. n /\ m + (k - m) = k /\ all[k] = new[k - m]
    <3>1. k - m \in 1 .. n /\ m + (k - m) = k
      BY <1>1
    <3>2. all[m + (k - m)] = new[k - m]
      BY <3>1, <1>2
    <3> QED
      BY <3>1, <3>2
  <2>3. ASSUME NEW k \in HeldTo(all, more, i)
        PROVE  k \in A \cup Shifted(m, B)
    <3>1. all[k] = V(i) /\ (k \in held \/ k \in m + 1 .. m + n)
      BY <2>0 DEF HeldTo
    <3>2. CASE k \in held
      BY <3>1, <3>2, <2>1 DEF HeldTo
    <3>3. CASE k \in m + 1 .. m + n
      <4>1. k - m \in B /\ k = m + (k - m)
        BY <3>1, <3>3, <2>2, <1>1 DEF Places
      <4> QED
        BY <4>1 DEF Shifted
    <3> QED
      BY <3>1, <3>2, <3>3
  <2>4. ASSUME NEW k \in A \cup Shifted(m, B)
        PROVE  k \in HeldTo(all, more, i)
    <3>1. CASE k \in A
      BY <3>1, <2>0, <2>1 DEF HeldTo
    <3>2. CASE k \in Shifted(m, B)
      <4>1. PICK j \in B : k = m + j
        BY <3>2 DEF Shifted
      <4>2. j \in 1 .. n /\ new[j] = V(i) /\ k \in m + 1 .. m + n
        BY <4>1, <1>1 DEF Places
      <4>3. all[k] = new[j]
        BY <4>1, <4>2, <1>2
      <4> QED
        BY <4>2, <4>3, <2>0 DEF HeldTo
    <3> QED
      BY <3>1, <3>2
  <2> QED
    BY <2>3, <2>4
<1>5. RefsTo(i, new) = Cardinality(B)
  BY <1>0, RefsAre
<1> HIDE DEF A, B
<1>6. IsFiniteSet(A) /\ IsFiniteSet(B)
  BY <1>1, <1>3, Few
<1>7. A \subseteq 1 .. m /\ B \subseteq Nat \ {0}
  BY <1>1, <1>3
<1>8. Cardinality(A \cup Shifted(m, B)) = Cardinality(A) + Cardinality(B)
  <2>1. m \in Nat /\ A \subseteq 1 .. m /\ B \subseteq Nat \ {0}
    BY <1>1, <1>7
  <2> HIDE DEF m, A, B
  <2> QED
    BY <2>1, <1>6, JoinedCount, ZenonT(40)
<1> QED
  BY <1>4, <1>5, <1>8 DEF A, m, n

(* A frame that goes on, with more wires.                                  *)
LEMMA FrameGrows ==
  ASSUME NEW p, NEW f, NEW n \in Nat, NEW a, FrameOk(p, f, n, a),
         NEW g, IsFrame(g), NEW new, IsList(new), NEW m \in Nat, n <= m, NEW b,
         g.call.name = f.call.name, g.call.env = f.call.env \o new,
         g.call.at \in 1 .. Len(OpsOf(p, g.call.name)) + 1,
         Len(f.call.env) + Len(new) + b = WiresBefore(p, g.call.name)[g.call.at],
         Needed(p, g) \subseteq Needed(p, f),
         \A k \in Needed(p, g) : k \in f.held => k \in g.held,
         Len(f.call.env) + 1 .. Len(f.call.env) + Len(new) \subseteq g.held,
         \A k \in DOMAIN new : Named(new[k], m)
  PROVE  FrameOk(p, g, m, b)
<1> DEFINE c == Len(f.call.env)
           d == Len(new)
<1>1. IsList(f.call.env) /\ DOMAIN f.call.env = 1 .. c /\ c \in Nat /\ d \in Nat /\ DOMAIN new = 1 .. d
  BY ListIs DEF FrameOk, IsFrame
<1>2. /\ Len(g.call.env) = c + d /\ DOMAIN g.call.env = 1 .. c + d
      /\ \A k \in 1 .. c : g.call.env[k] = f.call.env[k]
      /\ \A k \in 1 .. d : g.call.env[c + k] = new[k]
  BY <1>1, Joined
<1>3. ASSUME NEW k \in 1 .. c + d
      PROVE  /\ k <= c => k \in 1 .. c
             /\ ~(k <= c) => k \in c + 1 .. c + d /\ k - c \in 1 .. d /\ c + (k - c) = k
  <2>1. c \in Nat /\ d \in Nat
    BY <1>1
  <2> HIDE DEF c, d
  <2> QED
    BY <2>1
<1>4. Needed(p, g) \intersect DOMAIN g.call.env \subseteq g.held
  BY <1>1, <1>2, <1>3 DEF FrameOk
<1>5. \A k \in 1 .. c : Named(g.call.env[k], m)
  BY <1>1, <1>2 DEF FrameOk, Named
<1>6. \A k \in DOMAIN g.call.env : Named(g.call.env[k], m)
  <2> SUFFICES ASSUME NEW k \in 1 .. c + d PROVE Named(g.call.env[k], m)
    BY <1>2
  <2>1. CASE k <= c
    BY <2>1, <1>3, <1>5
  <2>2. CASE ~(k <= c)
    <3>1. g.call.env[c + (k - c)] = new[k - c] /\ Named(new[k - c], m)
      BY <2>2, <1>1, <1>2, <1>3
    <3> QED
      BY <3>1, <2>2, <1>3
  <2> QED
    BY <2>1, <2>2
<1>7. g.call.name \in Called(p)
  BY DEF FrameOk
<1> QED
  BY <1>2, <1>4, <1>6, <1>7 DEF FrameOk

(* A frame stays one when the table grows.                                 *)
LEMMA FrameWidens ==
  ASSUME NEW p, NEW f, NEW n \in Nat, NEW a, FrameOk(p, f, n, a), NEW m \in Nat, n <= m
  PROVE  FrameOk(p, f, m, a)
BY DEF FrameOk, Named

(* A frame past one more call needs no further wire.                       *)
LEMMA NeededShrinks ==
  ASSUME NEW p, NEW f, NEW g, f.call.at \in Nat, Len(OpsOf(p, f.call.name)) \in Nat,
         g.call.name = f.call.name, g.call.at = f.call.at + 1
  PROVE  Needed(p, g) \subseteq Needed(p, f)
<1> DEFINE ops == OpsOf(p, f.call.name)
<1>1. g.call.at .. Len(ops) \subseteq f.call.at .. Len(ops)
  OBVIOUS
<1>2. UNION { Reads(ops[i]) : i \in g.call.at .. Len(ops) }
        \subseteq UNION { Reads(ops[i]) : i \in f.call.at .. Len(ops) }
  BY <1>1
<1> QED
  BY <1>2 DEF Needed

(* What the next call of the running frame reads, it holds.                *)
LEMMA ReadsAreHeld ==
  ASSUME NEW p \in Programs, WellWired(p), NEW f, NEW n, FrameOk(p, f, n, 0), ~AtEnd(p, f.call)
  PROVE  /\ f.call.name \in Routines /\ f.call.at \in 1 .. Len(OpsOf(p, f.call.name))
         /\ Len(OpsOf(p, f.call.name)) \in Nat
         /\ NextOp(p, f.call) \in Op
         /\ Reads(NextOp(p, f.call)) \subseteq DOMAIN f.call.env
         /\ Reads(NextOp(p, f.call)) \subseteq f.held
         /\ Len(f.call.env) + Binds(p, NextOp(p, f.call)) =
              WiresBefore(p, f.call.name)[f.call.at + 1]
<1> DEFINE r == f.call.name
           ops == OpsOf(p, r)
           at == f.call.at
<1>1. r \in Called(p) /\ r \in Routines
  BY DEF FrameOk, Called
<1>2. ops \in Seq(Op) /\ Len(ops) \in Nat /\ DOMAIN ops = 1 .. Len(ops)
  BY <1>1, OpsAre, LenProperties
<1>3. at \in 1 .. Len(ops)
  BY <1>2 DEF FrameOk, AtEnd
<1>4. Len(f.call.env) \in Nat /\ DOMAIN f.call.env = 1 .. Len(f.call.env)
  BY ListIs DEF FrameOk, IsFrame
<1>5. Len(f.call.env) = WiresBefore(p, r)[at]
  BY <1>4 DEF FrameOk
<1>6. Reads(ops[at]) \subseteq 1 .. WiresBefore(p, r)[at]
  BY <1>1, <1>2, <1>3 DEF WellWired, Called
<1>7. Reads(ops[at]) \subseteq Needed(p, f)
  <2>1. at \in at .. Len(ops)
    BY <1>2, <1>3
  <2> QED
    BY <2>1 DEF Needed
<1>8. WiresBefore(p, r)[at + 1] = WiresBefore(p, r)[at] + Binds(p, ops[at])
  BY <1>1, <1>3, WiresBeforeIs
<1>9. Reads(ops[at]) \subseteq f.held
  BY <1>4, <1>5, <1>6, <1>7 DEF FrameOk
<1>10. ops[at] \in Op
  BY <1>2, <1>3
<1> QED
  BY <1>1, <1>2, <1>3, <1>4, <1>5, <1>6, <1>8, <1>9, <1>10 DEF NextOp

(* What a routine's return reads, it holds.                                *)
LEMMA OutsAreHeld ==
  ASSUME NEW p \in Programs, WellWired(p), NEW f, NEW n, FrameOk(p, f, n, 0), AtEnd(p, f.call),
         f.call.name # Main
  PROVE  /\ f.call.name \in Routines
         /\ IsList(p[f.call.name].outs)
         /\ \A k \in DOMAIN p[f.call.name].outs :
              p[f.call.name].outs[k] \in DOMAIN f.call.env /\ p[f.call.name].outs[k] \in f.held
         /\ Needed(p, f) = { p[f.call.name].outs[k] : k \in DOMAIN p[f.call.name].outs }
<1> DEFINE r == f.call.name
           ops == OpsOf(p, r)
           at == f.call.at
           outs == p[r].outs
<1>1. r \in Called(p) /\ r \in Routines
  BY DEF FrameOk, Called
<1>2. ops \in Seq(Op) /\ Len(ops) \in Nat
  BY <1>1, OpsAre, LenProperties
<1>3. at = Len(ops) + 1
  BY <1>2 DEF FrameOk, AtEnd
<1>4. Len(f.call.env) \in Nat /\ DOMAIN f.call.env = 1 .. Len(f.call.env)
  BY ListIs DEF FrameOk, IsFrame
<1>5. Len(f.call.env) = WiresBefore(p, r)[Len(ops) + 1]
  BY <1>3, <1>4 DEF FrameOk
<1>6. \A k \in DOMAIN outs : outs[k] \in 1 .. WiresBefore(p, r)[Len(ops) + 1]
  BY <1>1 DEF WellWired, Called
<1>7. Needed(p, f) = { outs[k] : k \in DOMAIN outs }
  <2>1. at .. Len(ops) = {}
    BY <1>2, <1>3
  <2>2. UNION { Reads(ops[i]) : i \in at .. Len(ops) } = {}
    BY <2>1
  <2>3. Needed(p, f) = (UNION { Reads(ops[i]) : i \in at .. Len(ops) })
                         \union { outs[k] : k \in DOMAIN outs }
    BY DEF Needed
  <2> QED
    BY <2>2, <2>3
<1>8. IsList(outs)
  BY <1>1, BodyIs, ListOf
<1> QED
  BY <1>1, <1>4, <1>5, <1>6, <1>7, <1>8 DEF FrameOk
-----------------------------------------------------------------------------
(* Stacks. *)

(* The frame on top awaits nothing.                                        *)
LEMMA TopIs ==
  ASSUME NEW p, NEW stk, IsList(stk), stk # <<>>, NEW n, FramesOk(p, stk, n)
  PROVE  /\ Len(stk) \in Nat \ {0} /\ DOMAIN stk = 1 .. Len(stk) /\ 1 \in DOMAIN stk
         /\ FrameOk(p, stk[1], n, 0) /\ IsFrame(stk[1])
         /\ Len(stk) > 1 => stk[1].call.name # Main
<1>1. Len(stk) \in Nat \ {0} /\ DOMAIN stk = 1 .. Len(stk)
  BY Popped, ListIs
<1>2. 1 \in DOMAIN stk
  BY <1>1
<1>3. FrameOk(p, stk[1], n, 0) /\ (1 < Len(stk) => stk[1].call.name # Main)
  BY <1>2 DEF FramesOk, Awaited
<1> QED
  BY <1>1, <1>2, <1>3 DEF FrameOk

(* Sound frames are frames.                                                *)
LEMMA FramesAre ==
  ASSUME NEW p, NEW stk, NEW n, FramesOk(p, stk, n)
  PROVE  AllFrames(stk)
BY DEF AllFrames, FramesOk, FrameOk

(* The stack with another frame on top.                                    *)
Topped(stk, g) == [stk EXCEPT ![1] = g]

(* The top frame goes on, over a table that may have grown.                *)
LEMMA FramesGo ==
  ASSUME NEW p, NEW stk, IsList(stk), stk # <<>>, NEW n \in Nat, FramesOk(p, stk, n),
         NEW m \in Nat, n <= m, NEW g, FrameOk(p, g, m, 0), g.call.name = stk[1].call.name,
         NEW s, s = Topped(stk, g)
  PROVE  /\ IsList(s) /\ s # <<>> /\ FramesOk(p, s, m)
         /\ \A i : HandleCount(s, i) = Cardinality(HandlesTo(g, i)) + HandleCount(Tail(stk), i)
<1>1. s = <<g>> \o Tail(stk) /\ IsList(Tail(stk)) /\ Len(Tail(stk)) = Len(stk) - 1
  BY Popped DEF Topped
<1>2. IsList(s) /\ Len(s) = Len(stk) /\ DOMAIN s = DOMAIN stk
  <2> DEFINE rest == Tail(stk)
  <2>1. Len(stk) \in Nat \ {0} /\ DOMAIN stk = 1 .. Len(stk)
    BY TopIs
  <2>2. IsList(<<g>> \o rest) /\ Len(<<g>> \o rest) = Len(rest) + 1
        /\ DOMAIN (<<g>> \o rest) = 1 .. Len(rest) + 1
    BY <1>1, Pushed
  <2>3. Len(rest) + 1 = Len(stk)
    BY <2>1, <1>1
  <2> QED
    BY <1>1, <2>1, <2>2, <2>3
<1>3. s[1] = g /\ \A k \in DOMAIN stk : k # 1 => s[k] = stk[k]
  BY TopIs DEF Topped
<1>4. Len(stk) \in Nat \ {0} /\ DOMAIN stk = 1 .. Len(stk)
  BY TopIs
<1>5. \A f \in DOMAIN stk : Awaited(p, s, f) = Awaited(p, stk, f)
  <2> SUFFICES ASSUME NEW f \in DOMAIN stk, f # 1 PROVE Awaited(p, s, f) = Awaited(p, stk, f)
    BY DEF Awaited
  <2>1. f - 1 \in DOMAIN stk
    BY <1>4
  <2>2. s[f - 1].call.name = stk[f - 1].call.name
    BY <1>3, <2>1
  <2> QED
    BY <2>2 DEF Awaited
<1>6. ASSUME NEW f \in DOMAIN stk
      PROVE  FrameOk(p, s[f], m, Awaited(p, s, f)) /\ (f < Len(s) => s[f].call.name # Main)
  <2>1. FrameOk(p, stk[f], n, Awaited(p, stk, f)) /\ (f < Len(stk) => stk[f].call.name # Main)
    BY DEF FramesOk
  <2>2. CASE f = 1
    BY <2>1, <2>2, <1>2, <1>3 DEF Awaited
  <2>3. CASE f # 1
    <3>1. FrameOk(p, stk[f], m, Awaited(p, stk, f))
      BY <2>1, FrameWidens
    <3> QED
      BY <2>1, <2>3, <3>1, <1>2, <1>3, <1>5
  <2> QED
    BY <2>2, <2>3
<1>7. FramesOk(p, s, m)
  BY <1>2, <1>6 DEF FramesOk
<1>8. AllFrames(Tail(stk))
  <2>1. AllFrames(stk)
    BY FramesAre
  <2> QED
    BY <2>1, HandlesOnTop
<1>9. IsFrame(g)
  BY DEF FrameOk
<1>10. \A i : HandleCount(s, i) = Cardinality(HandlesTo(g, i)) + HandleCount(Tail(stk), i)
  BY <1>1, <1>8, <1>9, HandlesPushed
<1> QED
  BY <1>2, <1>4, <1>7, <1>10, ListIs

(* A routine is entered: its frame on top of the caller, which awaits its  *)
(* outputs.                                                                *)
LEMMA FramesPushed ==
  ASSUME NEW p, NEW stk, IsList(stk), stk # <<>>, NEW n \in Nat, FramesOk(p, stk, n),
         NEW g, FrameOk(p, g, n, 0), g.call.name # Main,
         NEW c, FrameOk(p, c, n, Len(p[g.call.name].outs)), c.call.name = stk[1].call.name
  PROVE  /\ IsList(<<g, c>> \o Tail(stk))
         /\ FramesOk(p, <<g, c>> \o Tail(stk), n)
         /\ \A i : HandleCount(<<g, c>> \o Tail(stk), i) =
              Cardinality(HandlesTo(g, i)) + (Cardinality(HandlesTo(c, i)) + HandleCount(Tail(stk), i))
<1> DEFINE rest == Tail(stk)
           t == <<c>> \o rest
           s == <<g>> \o t
<1>1. /\ IsList(rest) /\ Len(rest) = Len(stk) - 1
      /\ \A k \in 1 .. Len(rest) : rest[k] = stk[k + 1]
      /\ Len(stk) \in Nat \ {0} /\ DOMAIN stk = 1 .. Len(stk)
  BY Popped, TopIs
<1>2. <<g, c>> \o rest = s
  <2>1. rest \in Seq(Range(rest) \cup {g, c}) /\ <<g>> \in Seq(Range(rest) \cup {g, c})
        /\ <<c>> \in Seq(Range(rest) \cup {g, c})
    BY <1>1, SeqMonotonic DEF IsList
  <2>2. (<<g>> \o <<c>>) \o rest = <<g>> \o (<<c>> \o rest)
    BY <2>1, ConcatAssociative
  <2>3. <<g>> \o <<c>> = <<g, c>>
    <3> DEFINE u == <<g>> \o <<c>>
    <3>1. u \in Seq({g, c}) /\ Len(u) = Len(<<g>>) + Len(<<c>>)
          /\ \A k \in 1 .. Len(<<g>>) + Len(<<c>>) :
               u[k] = IF k <= Len(<<g>>) THEN <<g>>[k] ELSE <<c>>[k - Len(<<g>>)]
      <4>1. <<g>> \in Seq({g, c}) /\ <<c>> \in Seq({g, c})
        OBVIOUS
      <4> QED
        BY <4>1, ConcatProperties
    <3> HIDE DEF u
    <3>2. Len(u) = 2 /\ u[1] = g /\ u[2] = c
      BY <3>1
    <3>3. <<g, c>> \in Seq({g, c}) /\ Len(<<g, c>>) = 2 /\ <<g, c>>[1] = g /\ <<g, c>>[2] = c
      OBVIOUS
    <3>4. \A k \in 1 .. Len(u) : u[k] = <<g, c>>[k]
      BY <3>2, <3>3
    <3>5. u = <<g, c>>
      BY <3>1, <3>2, <3>3, <3>4, SeqEqual
    <3> QED
      BY <3>5 DEF u
  <2> QED
    BY <2>2, <2>3
<1>3. IsList(t) /\ Len(t) = Len(stk) /\ t[1] = c /\ \A k \in 1 .. Len(rest) : t[k + 1] = rest[k]
  BY <1>1, Pushed
<1>4. /\ IsList(s) /\ Len(s) = Len(stk) + 1 /\ DOMAIN s = 1 .. Len(stk) + 1 /\ s[1] = g
      /\ \A k \in 1 .. Len(stk) : s[k + 1] = t[k]
  BY <1>3, Pushed
<1> HIDE DEF rest, t, s
<1>5. s[2] = c /\ \A k \in 3 .. Len(stk) + 1 : s[k] = stk[k - 1]
  <2>1. s[1 + 1] = t[1]
    BY <1>1, <1>4
  <2>2. ASSUME NEW k \in 3 .. Len(stk) + 1 PROVE s[k] = stk[k - 1]
    <3>1. k - 1 \in 1 .. Len(stk) /\ k - 2 \in 1 .. Len(rest) /\ (k - 1) + 1 = k /\ (k - 2) + 1 = k - 1
      BY <1>1
    <3>2. s[(k - 1) + 1] = t[k - 1] /\ t[(k - 2) + 1] = rest[k - 2] /\ rest[k - 2] = stk[(k - 2) + 1]
      BY <3>1, <1>1, <1>3, <1>4
    <3> QED
      BY <3>1, <3>2
  <2> QED
    BY <2>1, <2>2, <1>3
<1>6. ASSUME NEW f \in 1 .. Len(stk) + 1
      PROVE  FrameOk(p, s[f], n, Awaited(p, s, f)) /\ (f < Len(s) => s[f].call.name # Main)
  <2>1. CASE f = 1
    BY <2>1, <1>4 DEF Awaited
  <2>2. CASE f = 2
    <3>1. Awaited(p, s, 2) = Len(p[g.call.name].outs)
      BY <1>4 DEF Awaited
    <3>2. 2 < Len(s) => c.call.name # Main
      BY <1>1, <1>4, TopIs
    <3> QED
      BY <2>2, <3>1, <3>2, <1>5
  <2>3. CASE f # 1 /\ f # 2
    <3>1. f \in 3 .. Len(stk) + 1 /\ f - 1 \in DOMAIN stk /\ f - 1 # 1 /\ f # 1
          /\ (f - 1) - 1 = f - 2 /\ f - 2 \in DOMAIN stk
      BY <2>3, <1>1
    <3>2. s[f - 1].call.name = stk[f - 2].call.name
      <4>1. CASE f = 3
        BY <4>1, <1>5
      <4>2. CASE f # 3
        <5>1. f - 1 \in 3 .. Len(stk) + 1 /\ (f - 1) - 1 = f - 2
          BY <3>1, <4>2, <1>1
        <5> QED
          BY <5>1, <1>5
      <4> QED
        BY <4>1, <4>2
    <3>3. Awaited(p, s, f) = Awaited(p, stk, f - 1)
      BY <3>1, <3>2 DEF Awaited
    <3>4. s[f] = stk[f - 1] /\ (f < Len(s) => f - 1 < Len(stk))
      BY <3>1, <1>1, <1>4, <1>5
    <3> QED
      BY <3>1, <3>3, <3>4 DEF FramesOk
  <2> QED
    BY <2>1, <2>2, <2>3
<1>7. FramesOk(p, s, n)
  BY <1>4, <1>6 DEF FramesOk
<1>8. AllFrames(rest) /\ IsFrame(g) /\ IsFrame(c)
  BY FramesAre, HandlesOnTop DEF rest, FrameOk
<1>9. /\ AllFrames(t)
      /\ \A i : HandleCount(t, i) = Cardinality(HandlesTo(c, i)) + HandleCount(rest, i)
  BY <1>1, <1>8, HandlesPushed DEF t
<1>10. \A i : HandleCount(s, i) = Cardinality(HandlesTo(g, i)) + HandleCount(t, i)
  BY <1>3, <1>8, <1>9, HandlesPushed DEF s
<1> QED
  BY <1>2, <1>4, <1>7, <1>9, <1>10 DEF rest

(* A routine returns: the caller's frame goes on in its place.             *)
LEMMA FramesPopped ==
  ASSUME NEW p, NEW stk, IsList(stk), Len(stk) > 1, NEW n \in Nat, FramesOk(p, stk, n),
         NEW g, FrameOk(p, g, n, 0), g.call.name = stk[2].call.name
  PROVE  /\ FrameOk(p, stk[2], n, Len(p[stk[1].call.name].outs))
         /\ IsList(<<g>> \o Tail(Tail(stk)))
         /\ <<g>> \o Tail(Tail(stk)) # <<>>
         /\ FramesOk(p, <<g>> \o Tail(Tail(stk)), n)
         /\ \A i : HandleCount(<<g>> \o Tail(Tail(stk)), i) =
                     Cardinality(HandlesTo(g, i)) + HandleCount(Tail(Tail(stk)), i)
<1> DEFINE t == Tail(stk)
           rest == Tail(t)
           s == <<g>> \o rest
<1>1. stk # <<>> /\ DOMAIN stk = 1 .. Len(stk) /\ Len(stk) \in Nat
  BY ListIs
<1>2. /\ IsList(t) /\ Len(t) = Len(stk) - 1 /\ \A k \in 1 .. Len(t) : t[k] = stk[k + 1]
  BY <1>1, Popped
<1> HIDE DEF t
<1>3. t # <<>>
  BY <1>1, <1>2, ListIs
<1>4. IsList(rest) /\ Len(rest) = Len(t) - 1 /\ \A k \in 1 .. Len(rest) : rest[k] = t[k + 1]
  BY <1>2, <1>3, Popped
<1> HIDE DEF rest
<1>5. /\ IsList(s) /\ Len(s) = Len(stk) - 1 /\ DOMAIN s = 1 .. Len(stk) - 1 /\ s[1] = g
      /\ \A k \in 1 .. Len(rest) : s[k + 1] = rest[k]
  <2>1. /\ IsList(s) /\ Len(s) = Len(rest) + 1 /\ DOMAIN s = 1 .. Len(rest) + 1 /\ s[1] = g
        /\ \A k \in 1 .. Len(rest) : s[k + 1] = rest[k]
    BY <1>4, Pushed
  <2>2. Len(rest) + 1 = Len(stk) - 1
    BY <1>1, <1>2, <1>4
  <2> QED
    BY <2>1, <2>2
<1>6. \A k \in 2 .. Len(stk) - 1 : s[k] = stk[k + 1]
  <2> SUFFICES ASSUME NEW k \in 2 .. Len(stk) - 1 PROVE s[k] = stk[k + 1]
    OBVIOUS
  <2>1. k - 1 \in 1 .. Len(rest) /\ k \in 1 .. Len(t) /\ (k - 1) + 1 = k
    BY <1>1, <1>2, <1>4
  <2>2. s[(k - 1) + 1] = rest[k - 1] /\ rest[k - 1] = t[(k - 1) + 1] /\ t[k] = stk[k + 1]
    BY <2>1, <1>2, <1>4, <1>5
  <2> QED
    BY <2>1, <2>2
<1> HIDE DEF s
<1>7. FrameOk(p, stk[2], n, Len(p[stk[1].call.name].outs)) /\ (2 < Len(stk) => stk[2].call.name # Main)
  <2>1. 2 \in DOMAIN stk
    BY <1>1
  <2>2. Awaited(p, stk, 2) = Len(p[stk[1].call.name].outs)
    BY DEF Awaited
  <2> QED
    BY <2>1, <2>2 DEF FramesOk
<1>8. ASSUME NEW f \in 1 .. Len(stk) - 1
      PROVE  FrameOk(p, s[f], n, Awaited(p, s, f)) /\ (f < Len(s) => s[f].call.name # Main)
  <2>1. CASE f = 1
    BY <2>1, <1>1, <1>5, <1>7 DEF Awaited
  <2>2. CASE f # 1
    <3>1. f \in 2 .. Len(stk) - 1 /\ f + 1 \in DOMAIN stk /\ f + 1 # 1 /\ (f + 1) - 1 = f
      BY <2>2, <1>1
    <3>2. s[f - 1].call.name = stk[f].call.name
      <4>1. CASE f = 2
        BY <4>1, <1>5
      <4>2. CASE f # 2
        <5>1. f - 1 \in 2 .. Len(stk) - 1 /\ (f - 1) + 1 = f
          BY <3>1, <4>2, <1>1
        <5>2. s[f - 1] = stk[(f - 1) + 1]
          BY <5>1, <1>6
        <5> QED
          BY <5>1, <5>2
      <4> QED
        BY <4>1, <4>2
    <3>3. Awaited(p, s, f) = Awaited(p, stk, f + 1)
      BY <2>2, <3>1, <3>2 DEF Awaited
    <3>4. s[f] = stk[f + 1] /\ (f < Len(s) => f + 1 < Len(stk))
      BY <3>1, <1>1, <1>5, <1>6
    <3> QED
      BY <3>1, <3>3, <3>4 DEF FramesOk
  <2> QED
    BY <2>1, <2>2
<1>9. FramesOk(p, s, n)
  BY <1>5, <1>8 DEF FramesOk
<1>10. AllFrames(t)
  BY <1>1, FramesAre, HandlesOnTop DEF t
<1>11. AllFrames(rest) /\ IsFrame(g)
  BY <1>2, <1>3, <1>10, HandlesOnTop DEF rest, FrameOk
<1>12. \A i : HandleCount(s, i) = Cardinality(HandlesTo(g, i)) + HandleCount(rest, i)
  BY <1>4, <1>11, HandlesPushed DEF s
<1>13. s # <<>>
  BY <1>1, <1>5, ListIs
<1> QED
  BY <1>5, <1>7, <1>9, <1>12, <1>13 DEF s, rest, t
-----------------------------------------------------------------------------
(* What a sound state gives. *)

(* The counts of a sound state, and what its table and work list are.      *)
LEMMA SoundIs ==
  ASSUME NEW p, NEW stk, NEW tab, NEW fr, NEW wk, Sound(p, stk, tab, fr, wk)
  PROVE  /\ Len(tab) \in Nat /\ DOMAIN tab = 1 .. Len(tab)
         /\ Len(wk) \in Nat /\ DOMAIN wk = 1 .. Len(wk)
         /\ AllFrames(stk) /\ AllTerms(tab)
         /\ \A i : HandleCount(stk, i) \in Nat /\ NameCount(tab, i) \in Nat /\ DrainCount(wk, i) \in Nat
         /\ \A i \in DOMAIN tab :
              /\ tab[i].refcount = HandleCount(stk, i) + NameCount(tab, i) + DrainCount(wk, i)
              /\ tab[i].refcount \in Nat
              /\ DOMAIN tab[i] = {"refcount", "terms", "value"}
<1>1. IsList(stk) /\ IsList(tab) /\ IsList(fr) /\ IsList(wk)
  BY DEF Sound
<1>2. Len(tab) \in Nat /\ DOMAIN tab = 1 .. Len(tab) /\ Len(wk) \in Nat /\ DOMAIN wk = 1 .. Len(wk)
  BY <1>1, ListIs
<1>3. AllFrames(stk) /\ AllTerms(tab)
  BY FramesAre DEF Sound, AllTerms, SlotsOk, SlotOk
<1>4. \A i : HandleCount(stk, i) \in Nat
  BY <1>1, <1>3, HandleSheets
<1>5. \A i : NameCount(tab, i) \in Nat
  BY <1>1, <1>3, NameSheets
<1>6. \A i : DrainCount(wk, i) \in Nat
  BY <1>1, DrainedJoined
<1>7. \A i \in DOMAIN tab :
        tab[i].refcount = HandleCount(stk, i) + NameCount(tab, i) + DrainCount(wk, i)
  BY DEF Sound, Exact
<1>8. \A i \in DOMAIN tab : tab[i].refcount \in Nat
  <2> SUFFICES ASSUME NEW i \in DOMAIN tab PROVE tab[i].refcount \in Nat
    OBVIOUS
  <2>1. HandleCount(stk, i) \in Nat /\ NameCount(tab, i) \in Nat /\ DrainCount(wk, i) \in Nat
    BY <1>4, <1>5, <1>6
  <2> QED
    BY <2>1, <1>7
<1>9. \A i \in DOMAIN tab : DOMAIN tab[i] = {"refcount", "terms", "value"}
  BY DEF Sound, SlotsOk, SlotOk
<1> QED
  BY <1>2, <1>3, <1>4, <1>5, <1>6, <1>7, <1>8, <1>9

(* The handles of the frame on top and of those under it.                  *)
LEMMA SoundTop ==
  ASSUME NEW p, NEW stk, NEW tab, NEW fr, NEW wk, Sound(p, stk, tab, fr, wk), stk # <<>>
  PROVE  /\ IsList(stk) /\ FramesOk(p, stk, Len(tab)) /\ Len(tab) \in Nat
         /\ FrameOk(p, stk[1], Len(tab), 0) /\ IsFrame(stk[1])
         /\ \A i : /\ HandleCount(stk, i) =
                        Cardinality(HandlesTo(stk[1], i)) + HandleCount(Tail(stk), i)
                   /\ Cardinality(HandlesTo(stk[1], i)) \in Nat
                   /\ HandleCount(Tail(stk), i) \in Nat
<1>1. IsList(stk) /\ FramesOk(p, stk, Len(tab)) /\ Len(tab) \in Nat /\ AllFrames(stk)
  BY SoundIs DEF Sound
<1>2. FrameOk(p, stk[1], Len(tab), 0) /\ IsFrame(stk[1])
  BY <1>1, TopIs
<1>3. AllFrames(Tail(stk)) /\ IsList(Tail(stk))
  BY <1>1, HandlesOnTop, Popped
<1>4. \A i : HandleCount(Tail(stk), i) \in Nat
  BY <1>3, HandleSheets
<1>5. \A i : HandleCount(stk, i) = Cardinality(HandlesTo(stk[1], i)) + HandleCount(Tail(stk), i)
  BY <1>1, HandlesOnTop
<1>6. \A i : Cardinality(HandlesTo(stk[1], i)) \in Nat
  BY <1>2, HandlesFew
<1> QED
  BY <1>1, <1>2, <1>4, <1>5, <1>6

(* A wire the running frame holds is counted, and its slot in use.         *)
LEMMA HeldIsAlive ==
  ASSUME NEW p, NEW stk, NEW tab, NEW fr, NEW wk, Sound(p, stk, tab, fr, wk), stk # <<>>,
         NEW i \in DOMAIN tab, NEW k \in stk[1].held, stk[1].call.env[k] = V(i)
  PROVE  /\ tab[i].refcount >= 1 /\ ~Dead(fr, i) /\ ~Retiring(wk, i)
         /\ Cardinality(HandlesTo(stk[1], i)) >= 1
<1>1. k \in HandlesTo(stk[1], i)
  BY DEF HandlesTo, V
<1>2. /\ Cardinality(HandlesTo(stk[1], i)) \in Nat
      /\ Cardinality(HandlesTo(stk[1], i)) # 0
  BY <1>1, SoundTop, HandlesFew
<1>3. /\ tab[i].refcount = HandleCount(stk, i) + NameCount(tab, i) + DrainCount(wk, i)
      /\ NameCount(tab, i) \in Nat /\ DrainCount(wk, i) \in Nat
  BY SoundIs
<1>4. /\ HandleCount(stk, i) = Cardinality(HandlesTo(stk[1], i)) + HandleCount(Tail(stk), i)
      /\ HandleCount(Tail(stk), i) \in Nat
  BY SoundTop
<1>5. tab[i].refcount >= 1 /\ tab[i].refcount # 0
  BY <1>2, <1>3, <1>4
<1>6. ~Dead(fr, i)
  BY <1>5 DEF Sound, FreeOk, Clean
<1>7. ~Retiring(wk, i)
  BY <1>5 DEF Sound, ItemsOk
<1> QED
  BY <1>2, <1>5, <1>6, <1>7

(* The free list stays sound when no slot dies or revives.                 *)
LEMMA FreeKept ==
  ASSUME NEW fr, NEW tab, NEW wk, FreeOk(fr, tab, wk), NEW new, DOMAIN new = DOMAIN tab, NEW wk2,
         \A i \in DOMAIN tab : Retiring(wk2, i) <=> Retiring(wk, i),
         \A i \in DOMAIN tab : Dead(fr, i) /\ Clean(tab[i]) => Clean(new[i]),
         \A i \in DOMAIN tab : new[i].refcount = 0 => tab[i].refcount = 0
  PROVE  FreeOk(fr, new, wk2)
BY DEF FreeOk

(* A call binds wires: the frame, the stack and its handles.               *)
LEMMA GoesOn ==
  ASSUME NEW p \in Programs, WellWired(p), NEW stk, NEW tab, NEW fr, NEW wk,
         Sound(p, stk, tab, fr, wk), stk # <<>>, ~AtEnd(p, stk[1].call),
         NEW g, NEW new, IsList(new), Grown(stk[1], g, new), NEW m \in Nat, Len(tab) <= m,
         Len(new) = Binds(p, NextOp(p, stk[1].call)),
         \A k \in DOMAIN new : Named(new[k], m),
         NEW s, s = Topped(stk, g)
  PROVE  /\ IsList(s) /\ s # <<>> /\ FramesOk(p, s, m)
         /\ \A i : HandleCount(s, i) = HandleCount(stk, i) + RefsTo(i, new)
<1> DEFINE f == stk[1]
           n == Len(tab)
           c == Len(f.call.env)
           d == Len(new)
<1>0. /\ IsFrame(g) /\ g.call.name = f.call.name /\ g.call.at = f.call.at + 1
      /\ g.call.env = f.call.env \o new
      /\ g.held = f.held \union (c + 1 .. c + d)
  BY DEF Grown, NewPlaces
<1>1. IsList(stk) /\ FramesOk(p, stk, n) /\ n \in Nat /\ FrameOk(p, f, n, 0) /\ IsFrame(f)
  BY SoundTop
<1>2. c \in Nat /\ d \in Nat /\ IsList(f.call.env) /\ f.held \subseteq 1 .. c
  BY <1>1, ListIs DEF IsFrame
<1>3. /\ f.call.at \in 1 .. Len(OpsOf(p, f.call.name)) /\ Len(OpsOf(p, f.call.name)) \in Nat
      /\ Len(f.call.env) + Binds(p, NextOp(p, f.call)) = WiresBefore(p, f.call.name)[f.call.at + 1]
  BY <1>1, ReadsAreHeld
<1>4. Needed(p, g) \subseteq Needed(p, f)
  <2>1. f.call.at \in Nat /\ Len(OpsOf(p, f.call.name)) \in Nat
    BY <1>3
  <2>2. g.call.name = f.call.name /\ g.call.at = f.call.at + 1
    BY <1>0
  <2> HIDE DEF f
  <2> QED
    BY <2>1, <2>2, NeededShrinks, Zenon
<1>5. g.call.at \in 1 .. Len(OpsOf(p, g.call.name)) + 1
  BY <1>0, <1>3
<1>6. Len(f.call.env) + Len(new) + 0 = WiresBefore(p, g.call.name)[g.call.at]
  <2>1. WiresBefore(p, g.call.name)[g.call.at] = c + d
    BY <1>0, <1>3
  <2> QED
    BY <2>1, <1>2
<1>7. FrameOk(p, g, m, 0)
  BY <1>0, <1>1, <1>4, <1>5, <1>6, FrameGrows
<1>8. /\ IsList(s) /\ s # <<>> /\ FramesOk(p, s, m)
      /\ \A i : HandleCount(s, i) =
                  Cardinality(HandlesTo(g, i)) + HandleCount(Tail(stk), i)
  <2>1. n \in Nat /\ n <= m /\ m \in Nat
    BY <1>1
  <2> HIDE DEF n
  <2>2. IsList(stk) /\ stk # <<>> /\ FramesOk(p, stk, n) /\ g.call.name = stk[1].call.name
        /\ s = Topped(stk, g)
    BY <1>0, <1>1
  <2>3. FrameOk(p, g, m, 0)
    BY <1>7
  <2> HIDE DEF f
  <2>4. IsList(s)
    BY <2>1, <2>2, <2>3, FramesGo
  <2>5. s # <<>>
    BY <2>1, <2>2, <2>3, FramesGo, Zenon
  <2>6. FramesOk(p, s, m)
    BY <2>1, <2>2, <2>3, FramesGo
  <2>7. \A i : HandleCount(s, i) = Cardinality(HandlesTo(g, i)) + HandleCount(Tail(stk), i)
    <3>1. AllFrames(stk) /\ IsFrame(g)
      BY <1>0, <2>2, FramesAre
    <3>2. IsList(Tail(stk)) /\ AllFrames(Tail(stk)) /\ s = <<g>> \o Tail(stk)
      BY <2>2, <3>1, Popped, HandlesOnTop DEF Topped
    <3>3. \A i : HandleCount(<<g>> \o Tail(stk), i) =
                   Cardinality(HandlesTo(g, i)) + HandleCount(Tail(stk), i)
      BY <3>1, <3>2, HandlesPushed
    <3> QED
      BY <3>2, <3>3
  <2> QED
    BY <2>4, <2>5, <2>6, <2>7
<1>9. \A i : /\ HandleCount(stk, i) = Cardinality(HandlesTo(f, i)) + HandleCount(Tail(stk), i)
             /\ Cardinality(HandlesTo(f, i)) \in Nat /\ HandleCount(Tail(stk), i) \in Nat
  BY SoundTop
<1>10. \A i : RefsTo(i, new) \in Nat
  BY RefsAre
<1>11. \A i : Cardinality(HandlesTo(g, i)) = Cardinality(HandlesTo(f, i)) + RefsTo(i, new)
  <2> SUFFICES ASSUME NEW i
               PROVE  Cardinality(HandlesTo(g, i)) = Cardinality(HandlesTo(f, i)) + RefsTo(i, new)
    OBVIOUS
  <2>1. HandlesTo(g, i) = HeldTo(g.call.env, g.held, i)
    BY DEF HandlesTo, HeldTo, V
  <2>2. HandlesTo(f, i) = HeldTo(f.call.env, f.held, i)
    BY DEF HandlesTo, HeldTo, V
  <2>3. Widened(f.call.env, f.held, g.call.env, g.held, new)
    BY <1>0, <1>2 DEF NewPlaces, Widened
  <2>4. Cardinality(HeldTo(g.call.env, g.held, i))
          = Cardinality(HeldTo(f.call.env, f.held, i)) + RefsTo(i, new)
    <3> HIDE DEF f
    <3> QED
      BY <2>3, HandlesGrow
  <2> QED
    BY <2>1, <2>2, <2>4
<1> HIDE DEF f
<1>13. \A i : HandleCount(s, i) = HandleCount(stk, i) + RefsTo(i, new)
  <2> SUFFICES ASSUME NEW i
               PROVE  HandleCount(s, i) = HandleCount(stk, i) + RefsTo(i, new)
    OBVIOUS
  <2>1. /\ HandleCount(s, i) =
             Cardinality(HandlesTo(g, i)) + HandleCount(Tail(stk), i)
        /\ HandleCount(stk, i) = Cardinality(HandlesTo(f, i)) + HandleCount(Tail(stk), i)
        /\ Cardinality(HandlesTo(g, i)) = Cardinality(HandlesTo(f, i)) + RefsTo(i, new)
        /\ Cardinality(HandlesTo(f, i)) \in Nat /\ HandleCount(Tail(stk), i) \in Nat
        /\ RefsTo(i, new) \in Nat
    BY <1>8, <1>9, <1>10, <1>11
  <2> QED
    BY <2>1
<1> QED
  BY <1>8, <1>13
-----------------------------------------------------------------------------
(* The steps. *)

(* A step that leaves the table, the frames and the work keeps the         *)
(* invariant, even if it stops.                                            *)
LEMMA Unmoved ==
  ASSUME IInv, UNCHANGED <<prog, stack, wires, free, work>>, pc' = pc \/ pc' \notin {"idle", "run"}
  PROVE  IInv'
BY DEF IInv

(* The invariant of a running state is that it is sound.                   *)
LEMMA Goes ==
  ASSUME UNCHANGED prog, Sound(prog, stack', wires', free', work'), pc' # "idle", stack' # <<>>
  PROVE  IInv'
BY DEF IInv

(* A running state has a frame and is sound.                               *)
LEMMA RunningIs ==
  ASSUME IInv, pc = "run"
  PROVE  stack # <<>> /\ Sound(prog, stack, wires, free, work)
BY DEF IInv

(* A call that leaves the table alone and binds wires that are not virtual. *)
LEMMA BindsAllocated ==
  ASSUME IInv, prog \in Programs, WellWired(prog), pc = "run", ~AtEnd(prog, Top.call),
         NEW g, NEW new, IsList(new), Grown(Top, g, new),
         Len(new) = Binds(prog, NextOp(prog, Top.call)),
         \A k \in DOMAIN new : ~IsVirtual(new[k]),
         Go(g), UNCHANGED <<prog, wires, free, work>>
  PROVE  IInv'
<1> DEFINE n == Len(wires)
<1>1. stack # <<>> /\ Sound(prog, stack, wires, free, work)
  BY RunningIs
<1>2. n \in Nat /\ n <= n /\ n <= n
  BY <1>1, SoundIs
<1>3. \A k \in DOMAIN new : Named(new[k], n)
  BY DEF Named
<1>4. stack' = Topped(stack, g) /\ pc' = pc
  BY DEF Go, Topped
<1>5. /\ IsList(stack') /\ stack' # <<>> /\ FramesOk(prog, stack', n)
      /\ \A i : HandleCount(stack', i) = HandleCount(stack, i) + RefsTo(i, new)
  <2>1. /\ Grown(stack[1], g, new) /\ ~AtEnd(prog, stack[1].call)
        /\ Len(new) = Binds(prog, NextOp(prog, stack[1].call))
    BY DEF Top
  <2>2. n \in Nat /\ Len(wires) <= n
    BY <1>2
  <2> HIDE DEF n
  <2> QED
    BY <2>1, <2>2, <1>1, <1>3, <1>4, GoesOn
<1>6. \A i : RefsTo(i, new) = 0
  <2> SUFFICES ASSUME NEW i PROVE RefsTo(i, new) = 0
    OBVIOUS
  <2>1. \A k \in DOMAIN new : new[k] # V(i)
    BY DEF IsVirtual, V
  <2> QED
    BY <2>1, RefsAre
<1>7. \A i : HandleCount(stack', i) = HandleCount(stack, i)
  <2> SUFFICES ASSUME NEW i PROVE HandleCount(stack', i) = HandleCount(stack, i)
    OBVIOUS
  <2>1. HandleCount(stack, i) \in Nat
    BY <1>1, SoundIs
  <2> QED
    BY <2>1, <1>5, <1>6
<1>8. Exact(stack', wires, work)
  BY <1>1, <1>7 DEF Sound, Exact
<1>9. Sound(prog, stack', wires', free', work')
  BY <1>1, <1>5, <1>8 DEF Sound
<1> QED
  BY <1>4, <1>5, <1>9, Goes

(* What holds when the circuit is about to make a call.                    *)
LEMMA KindOf ==
  ASSUME IInv, prog \in Programs, WellWired(prog), NEW kind, Calling(kind)
  PROVE  /\ pc = "run" /\ work = <<>> /\ stack # <<>> /\ ~AtEnd(prog, Top.call)
         /\ NextCall.kind = kind /\ NextCall \in Op
         /\ Sound(prog, stack, wires, free, work) /\ IsFrame(Top)
         /\ FrameOk(prog, Top, Len(wires), 0)
         /\ Reads(NextCall) \subseteq DOMAIN Top.call.env /\ Reads(NextCall) \subseteq Top.held
<1>1. /\ pc = "run" /\ work = <<>> /\ ~AtEnd(prog, Top.call) /\ NextCall.kind = kind
  BY DEF Calling, AboutTo, NextCall
<1>2. stack # <<>> /\ Sound(prog, stack, wires, free, work)
  BY <1>1, RunningIs
<1>3. FrameOk(prog, Top, Len(wires), 0) /\ IsFrame(Top)
  BY <1>2, SoundTop DEF Top
<1>4. /\ NextCall \in Op
      /\ Reads(NextCall) \subseteq DOMAIN Top.call.env /\ Reads(NextCall) \subseteq Top.held
  BY <1>1, <1>3, ReadsAreHeld DEF NextCall
<1> QED
  BY <1>1, <1>2, <1>3, <1>4

(* gate() keeps the invariant: its wires are no virtual ones.              *)
LEMMA GatesKeeps ==
  ASSUME IInv, prog \in Programs, WellWired(prog), Gates
  PROVE  IInv'
<1>1. UNCHANGED <<prog, wires, free, work>> /\ Calling("gate")
  BY DEF Gates, input, table
<1>2. CASE NoRoomForGate(N, Top)
  <2>1. pc' = "GateBoundExceeded" /\ UNCHANGED stack
    BY <1>2 DEF Gates
  <2> QED
    BY <1>1, <2>1, Unmoved
<1>3. CASE ~NoRoomForGate(N, Top)
  <2> DEFINE i == Top.gates
             new == << <<"a", i>>, <<"b", i>>, <<"c", i>> >>
             f == Hold(Top, new)
             g == [f EXCEPT !.gates = @ + 1, !.call.extras = Append(@, i)]
  <2>1. Go(g)
    BY <1>3 DEF Gates
  <2>2. IsFrame(Top) /\ pc = "run" /\ ~AtEnd(prog, Top.call) /\ NextCall.kind = "gate"
    BY <1>1, KindOf
  <2>3. IsList(new) /\ Len(new) = 3
    <3>1. new \in Seq({ <<"a", i>>, <<"b", i>>, <<"c", i>> })
      OBVIOUS
    <3> QED
      BY <3>1, ListOf
  <2>4. \A k \in DOMAIN new : ~IsVirtual(new[k])
    BY DEF IsVirtual
  <2> HIDE DEF new
  <2>5. Grown(Top, f, new)
    BY <2>2, <2>3, HoldIs
  <2> HIDE DEF f
  <2>6. /\ g.call.name = f.call.name /\ g.call.at = f.call.at /\ g.call.env = f.call.env
        /\ g.held = f.held /\ IsFrame(g)
    BY <2>5 DEF IsFrame, Grown
  <2> HIDE DEF g
  <2>8. Grown(Top, g, new)
    BY <2>5, <2>6 DEF Grown
  <2>7. Len(new) = Binds(prog, NextOp(prog, Top.call))
    BY <2>2, <2>3 DEF Binds, NextCall
  <2> QED
    BY <1>1, <2>1, <2>2, <2>3, <2>4, <2>7, <2>8, BindsAllocated
<1> QED
  BY <1>2, <1>3

(* assign_extra() keeps it likewise.                                       *)
LEMMA AssignsExtraKeeps ==
  ASSUME IInv, prog \in Programs, WellWired(prog), AssignsExtra
  PROVE  IInv'
<1> DEFINE new == << <<"d", Top.call.extras[NextCall.gate]>> >>
           g == Hold(Top, new)
<1>1. UNCHANGED <<prog, wires, free, work>> /\ Calling("assign_extra") /\ Go(g)
  BY DEF AssignsExtra, input, table
<1>2. IsFrame(Top) /\ pc = "run" /\ ~AtEnd(prog, Top.call) /\ NextCall.kind = "assign_extra"
  BY <1>1, KindOf
<1>3. IsList(new) /\ Len(new) = 1
  BY Single
<1>4. \A k \in DOMAIN new : ~IsVirtual(new[k])
  BY DEF IsVirtual
<1> HIDE DEF new
<1>5. Grown(Top, g, new)
  BY <1>2, <1>3, HoldIs
<1> HIDE DEF g
<1>6. Len(new) = Binds(prog, NextOp(prog, Top.call))
  BY <1>2, <1>3 DEF Binds, NextCall
<1> QED
  BY <1>1, <1>2, <1>3, <1>4, <1>5, <1>6, BindsAllocated

(* A table whose slots keep their terms.                                   *)
SameTerms(tab, new) ==
  /\ IsList(new) /\ Len(new) = Len(tab)
  /\ \A i \in DOMAIN tab : DOMAIN new[i] = DOMAIN tab[i] /\ new[i].terms = tab[i].terms

(* A table with the same terms in every slot names the same wires.         *)
LEMMA TermsKept ==
  ASSUME NEW tab, IsList(tab), SlotsOk(tab), NEW new, SameTerms(tab, new)
  PROVE  SlotsOk(new) /\ DOMAIN new = DOMAIN tab /\ \A i : NameCount(new, i) = NameCount(tab, i)
<1>1. DOMAIN new = DOMAIN tab /\ Len(new) = Len(tab)
  BY ListIs DEF SameTerms
<1>2. SlotsOk(new)
  BY <1>1 DEF SameTerms, SlotsOk, SlotOk
<1>3. \A i : NameCount(new, i) = NameCount(tab, i)
  BY <1>1, NamesSame DEF SameTerms
<1> QED
  BY <1>1, <1>2, <1>3

(* A constraint is worth nothing to a wire it does not name.               *)
LEMMA WorthNothing ==
  ASSUME NEW lc \in Seq(Term), NEW w, \A k \in DOMAIN lc : Top.call.env[lc[k][1]] # w
  PROVE  Worth(lc, w) = 0
<1> DEFINE n == Len(lc)
           Solves(worth) == worth = [k \in 0 .. n |->
             IF k = 0 THEN 0
             ELSE IF Top.call.env[lc[k][1]] = w
               THEN Plus(worth[k - 1], Times(lc[k][2], Top.current_y))
             ELSE worth[k - 1]]
           sums == CHOOSE worth : Solves(worth)
           zero == [k \in 0 .. n |-> 0]
<1>1. Worth(lc, w) = sums[n]
  BY DEF Worth
<1>2. n \in Nat /\ DOMAIN lc = 1 .. n
  OBVIOUS
<1>3. \A k \in 1 .. n : Top.call.env[lc[k][1]] # w
  BY <1>2
<1> HIDE DEF n
<1>4. Solves(zero)
  <2>1. ASSUME NEW k \in 0 .. n
        PROVE  zero[k] = IF k = 0 THEN 0
                         ELSE IF Top.call.env[lc[k][1]] = w
                           THEN Plus(zero[k - 1], Times(lc[k][2], Top.current_y))
                         ELSE zero[k - 1]
    <3>1. k # 0 => k \in 1 .. n /\ k - 1 \in 0 .. n
      BY <1>2
    <3> QED
      BY <3>1, <1>3
  <2> QED
    BY <2>1
<1>5. Solves(sums)
  BY <1>4
<1>6. \A k \in 0 .. n : sums[k] = IF k = 0 THEN 0
                                  ELSE IF Top.call.env[lc[k][1]] = w
                                    THEN Plus(sums[k - 1], Times(lc[k][2], Top.current_y))
                                  ELSE sums[k - 1]
  BY <1>5, Zenon
<1> HIDE DEF sums
<1>7. sums[0] \in {0}
  BY <1>2, <1>6
<1>8. \A k \in 0 + 1 .. n : sums[k - 1] \in {0} => sums[k] \in {0}
  <2> SUFFICES ASSUME NEW k \in 0 + 1 .. n, sums[k - 1] \in {0} PROVE sums[k] \in {0}
    OBVIOUS
  <2>1. k \in 1 .. n /\ k \in 0 .. n /\ k # 0
    BY <1>2
  <2> QED
    BY <2>1, <1>3, <1>6
<1>9. 0 \in Int /\ n \in Int /\ 0 <= n
  BY <1>2
<1>10. \A k \in 0 .. n : sums[k] \in {0}
  <2> DEFINE Z == {0}
  <2>1. sums[0] \in Z /\ \A k \in 0 + 1 .. n : sums[k - 1] \in Z => sums[k] \in Z
    BY <1>7, <1>8
  <2> HIDE DEF Z
  <2>2. \A k \in 0 .. n : sums[k] \in Z
    BY <2>1, <1>9, Stays
  <2> QED
    BY <2>2 DEF Z
<1> QED
  BY <1>1, <1>9, <1>10

(* enforce_zero() keeps the invariant: it changes values only, and none of *)
(* a dead slot, which no wire it reads is.                                 *)
LEMMA EnforcesZeroKeeps ==
  ASSUME IInv, prog \in Programs, WellWired(prog), EnforcesZero
  PROVE  IInv'
<1>1. UNCHANGED <<prog, free, work>> /\ Calling("enforce_zero")
  BY DEF EnforcesZero, input
<1>2. CASE NoRoomForConstraint(N, Top)
  <2>1. pc' = "ConstraintBoundExceeded" /\ UNCHANGED <<stack, wires>>
    BY <1>2 DEF EnforcesZero
  <2> QED
    BY <1>1, <2>1, Unmoved
<1>3. CASE ~NoRoomForConstraint(N, Top)
  <2> DEFINE lc == NextCall.lc
             g  == [Top EXCEPT !.constraints = @ + 1,
                               !.current_y = Times(@, Reciprocal(y)),
                               !.call = Advanced(@)]
  <2>1. /\ pc = "run" /\ work = <<>> /\ stack # <<>> /\ ~AtEnd(prog, Top.call)
        /\ NextCall.kind = "enforce_zero" /\ lc \in Seq(Term)
        /\ Sound(prog, stack, wires, free, work) /\ IsFrame(Top)
        /\ Reads(NextCall) \subseteq Top.held
    BY <1>1, KindOf, OpIs
  <2>2. wires' = [i \in DOMAIN wires |-> [wires[i] EXCEPT !.value = Plus(@, Worth(lc, <<"v", i>>))]]
    BY <1>3 DEF EnforcesZero
  <2>3. Go(g)
    BY <1>3 DEF EnforcesZero
  <2>4. stack' = Topped(stack, g) /\ pc' = pc
    BY <2>3 DEF Go, Topped
  <2>5. IsList(wires) /\ Len(wires) \in Nat /\ DOMAIN wires = 1 .. Len(wires)
    BY <2>1, SoundIs DEF Sound
  <2>6. /\ \A i \in DOMAIN wires : /\ DOMAIN wires'[i] = DOMAIN wires[i]
                                   /\ wires'[i].terms = wires[i].terms
                                   /\ wires'[i].refcount = wires[i].refcount
                                   /\ wires'[i].value = Plus(wires[i].value, Worth(lc, V(i)))
        /\ DOMAIN wires' = DOMAIN wires /\ IsList(wires') /\ Len(wires') = Len(wires)
    <3>1. \A i \in DOMAIN wires : DOMAIN wires[i] = {"refcount", "terms", "value"}
      BY <2>1, SoundIs
    <3>2. wires' \in Seq(Range(wires'))
      BY <2>2, <2>5 DEF Range
    <3>3. Len(wires') = Len(wires)
      BY <2>2, <2>5, <3>2
    <3>4. DOMAIN wires' = DOMAIN wires /\ IsList(wires')
      BY <2>2, <3>2 DEF IsList
    <3>5. \A i \in DOMAIN wires : /\ DOMAIN wires'[i] = DOMAIN wires[i]
                                  /\ wires'[i].terms = wires[i].terms
                                  /\ wires'[i].refcount = wires[i].refcount
                                  /\ wires'[i].value = Plus(wires[i].value, Worth(lc, V(i)))
      <4> SUFFICES ASSUME NEW i \in DOMAIN wires
                   PROVE  /\ DOMAIN wires'[i] = DOMAIN wires[i]
                          /\ wires'[i].terms = wires[i].terms
                          /\ wires'[i].refcount = wires[i].refcount
                          /\ wires'[i].value = Plus(wires[i].value, Worth(lc, V(i)))
        OBVIOUS
      <4> DEFINE v == Worth(lc, <<"v", i>>)
      <4>1. wires'[i] = [wires[i] EXCEPT !.value = Plus(@, v)] /\ v = Worth(lc, V(i))
        BY <2>2 DEF V
      <4> HIDE DEF v
      <4> QED
        BY <4>1, <3>1
    <3> QED
      BY <3>3, <3>4, <3>5
  <2> HIDE DEF lc
  <2>7. Grown(Top, g, <<>>) /\ IsList(<<>>) /\ Len(<<>>) = 0
    <3>1. IsList(<<>>)
      <4>1. <<>> \in Seq({})
        OBVIOUS
      <4> QED
        BY <4>1, ListOf
    <3>2. /\ IsFrame(g) /\ g.call.name = Top.call.name /\ g.call.at = Top.call.at + 1
          /\ g.call.env = Top.call.env /\ g.held = Top.held
      BY <2>1 DEF IsFrame, Advanced
    <3> HIDE DEF g
    <3>3. Top.call.env \o <<>> = Top.call.env
      BY <2>1, ConcatEmptySeq DEF IsFrame, IsList
    <3>4. NewPlaces(Top.call.env, <<>>) = {}
      <4>1. Len(Top.call.env) \in Nat
        BY <2>1, ListIs DEF IsFrame
      <4> QED
        BY <4>1 DEF NewPlaces
    <3> QED
      BY <3>1, <3>2, <3>3, <3>4 DEF Grown
  <2> HIDE DEF g
  <2>8. /\ IsList(stack') /\ stack' # <<>> /\ FramesOk(prog, stack', Len(wires))
        /\ \A i : HandleCount(stack', i) = HandleCount(stack, i)
    <3> DEFINE new == <<>>
    <3>1. /\ Grown(stack[1], g, new) /\ ~AtEnd(prog, stack[1].call) /\ IsList(new)
          /\ Len(new) = Binds(prog, NextOp(prog, stack[1].call))
      BY <2>1, <2>7 DEF Top, NextCall, Binds
    <3>2. Len(wires) <= Len(wires) /\ \A k \in DOMAIN new : Named(new[k], Len(wires))
      BY <2>5
    <3>3. \A i : RefsTo(i, new) = 0
      BY <3>1, RefsAre
    <3> HIDE DEF new
    <3>4. /\ IsList(stack') /\ stack' # <<>> /\ FramesOk(prog, stack', Len(wires))
          /\ \A i : HandleCount(stack', i) = HandleCount(stack, i) + RefsTo(i, new)
      BY <2>1, <2>4, <2>5, <3>1, <3>2, GoesOn
    <3>5. \A i : HandleCount(stack, i) \in Nat
      BY <2>1, SoundIs
    <3> QED
      BY <3>3, <3>4, <3>5
  <2>9. SlotsOk(wires') /\ \A i : NameCount(wires', i) = NameCount(wires, i)
    BY <2>1, <2>5, <2>6, TermsKept DEF Sound, SameTerms
  <2>10. FreeOk(free, wires', work)
    <3>1. \A i \in DOMAIN wires : Dead(free, i) /\ Clean(wires[i]) => Clean(wires'[i])
      <4> SUFFICES ASSUME NEW i \in DOMAIN wires, Dead(free, i), Clean(wires[i])
                   PROVE  Clean(wires'[i])
        OBVIOUS
      <4>1. \A k \in DOMAIN lc : Top.call.env[lc[k][1]] # V(i)
        <5> SUFFICES ASSUME NEW k \in DOMAIN lc, Top.call.env[lc[k][1]] = V(i) PROVE FALSE
          OBVIOUS
        <5>1. lc[k][1] \in stack[1].held /\ stack[1].call.env[lc[k][1]] = V(i)
          BY <2>1 DEF lc, Reads, Top
        <5> QED
          BY <5>1, <2>1, HeldIsAlive
      <4>2. Worth(lc, V(i)) = 0
        BY <4>1, <2>1, WorthNothing
      <4>3. Plus(0, 0) = 0
        <5>1. P \in Nat /\ P >= 1
          BY FieldAssumption DEF IsPrime
        <5> QED
          BY <5>1, Remainder DEF Plus
      <4> QED
        BY <4>2, <4>3, <2>6 DEF Clean
    <3> QED
      BY <2>1, <2>6, <3>1, FreeKept DEF Sound
  <2>11. ItemsOk(work, wires') /\ Exact(stack', wires', work)
    <3>1. Exact(stack', wires', work)
      BY <2>1, <2>6, <2>8, <2>9 DEF Sound, Exact
    <3> QED
      BY <3>1, <2>1, <2>6 DEF Sound, ItemsOk
  <2>12. Sound(prog, stack', wires', free', work')
    BY <1>1, <2>1, <2>6, <2>8, <2>9, <2>10, <2>11 DEF Sound
  <2> QED
    BY <1>1, <2>1, <2>4, <2>8, <2>12, Goes
<1> QED
  BY <1>2, <1>3

(* Wires read at places the running frame holds: they are in the table,    *)
(* and none of them is dead.                                               *)
ReadFrom(f, ws) == \A k \in DOMAIN ws : \E j \in f.held : ws[k] = f.call.env[j]

(* Wires read from held places are alive.                                  *)
LEMMA ReadsAreAlive ==
  ASSUME NEW p, NEW stk, NEW tab, NEW fr, NEW wk, Sound(p, stk, tab, fr, wk), stk # <<>>,
         NEW ws, IsList(ws), ReadFrom(stk[1], ws)
  PROVE  /\ \A k \in DOMAIN ws : Named(ws[k], Len(tab))
         /\ \A i : RefsTo(i, ws) \in Nat
         /\ \A i \in DOMAIN tab : RefsTo(i, ws) # 0 =>
              /\ tab[i].refcount >= 1 /\ ~Dead(fr, i) /\ ~Retiring(wk, i)
              /\ Cardinality(HandlesTo(stk[1], i)) >= 1
         /\ \A i : i \notin DOMAIN tab => RefsTo(i, ws) = 0
<1>1. /\ FrameOk(p, stk[1], Len(tab), 0) /\ IsFrame(stk[1])
      /\ Len(tab) \in Nat /\ DOMAIN tab = 1 .. Len(tab)
  BY SoundTop, SoundIs
<1>2. \A k \in DOMAIN ws : Named(ws[k], Len(tab))
  BY <1>1 DEF ReadFrom, FrameOk, IsFrame
<1>3. \A i : RefsTo(i, ws) \in Nat /\ (RefsTo(i, ws) = 0 <=> \A k \in DOMAIN ws : ws[k] # V(i))
  BY RefsAre
<1>4. ASSUME NEW i \in DOMAIN tab, RefsTo(i, ws) # 0
      PROVE  /\ tab[i].refcount >= 1 /\ ~Dead(fr, i) /\ ~Retiring(wk, i)
             /\ Cardinality(HandlesTo(stk[1], i)) >= 1
  <2>1. PICK k \in DOMAIN ws : ws[k] = V(i)
    BY <1>3, <1>4
  <2>2. PICK j \in stk[1].held : ws[k] = stk[1].call.env[j]
    BY DEF ReadFrom
  <2>3. j \in stk[1].held /\ stk[1].call.env[j] = V(i)
    BY <2>1, <2>2
  <2> QED
    BY <2>3, HeldIsAlive
<1>5. ASSUME NEW i, i \notin DOMAIN tab PROVE RefsTo(i, ws) = 0
  <2>1. ASSUME NEW k \in DOMAIN ws, ws[k] = V(i) PROVE FALSE
    <3>1. PICK j \in 1 .. Len(tab) : V(i) = V(j)
      BY <1>2, <2>1 DEF Named, IsVirtual, V
    <3>2. i = j
      BY <3>1 DEF V
    <3> QED
      BY <3>2, <1>1, <1>5
  <2> QED
    BY <2>1, <1>3
<1> HIDE DEF RefsTo
<1> QED
  BY <1>2, <1>3, <1>4, <1>5

(* Nothing refers to a slot the table does not have.                       *)
LEMMA NoneBeyond ==
  ASSUME NEW p, NEW stk, NEW tab, NEW fr, NEW wk, Sound(p, stk, tab, fr, wk),
         NEW i, i \notin DOMAIN tab
  PROVE  HandleCount(stk, i) = 0 /\ NameCount(tab, i) = 0
<1>1. DOMAIN tab = 1 .. Len(tab)
  BY SoundIs
<1>2. \A w : Named(w, Len(tab)) => w # V(i)
  BY <1>1 DEF Named, IsVirtual, V
<1>3. \A f \in DOMAIN stk : HandlesTo(stk[f], i) = {}
  <2> SUFFICES ASSUME NEW f \in DOMAIN stk, NEW k \in HandlesTo(stk[f], i) PROVE FALSE
    OBVIOUS
  <2>1. FrameOk(p, stk[f], Len(tab), Awaited(p, stk, f))
    BY DEF Sound, FramesOk
  <2>2. k \in DOMAIN stk[f].call.env /\ stk[f].call.env[k] = V(i)
    BY <2>1 DEF HandlesTo, FrameOk, IsFrame, V
  <2> QED
    BY <1>2, <2>1, <2>2 DEF FrameOk
<1>4. \A j \in DOMAIN tab : TermsTo(tab[j], i) = {}
  BY <1>2 DEF TermsTo, Sound, SlotsOk, SlotOk
<1>5. UNION { {f} \X HandlesTo(stk[f], i) : f \in DOMAIN stk } = {}
  BY <1>3
<1>6. UNION { {j} \X TermsTo(tab[j], i) : j \in DOMAIN tab } = {}
  BY <1>4
<1> QED
  BY <1>5, <1>6, FS_EmptySet DEF HandleCount, NameCount

(* The table with other reference counts.                                  *)
Recounted(tab, new, count) ==
  /\ DOMAIN new = DOMAIN tab /\ new = [i \in DOMAIN new |-> new[i]]
  /\ \A i \in DOMAIN tab : new[i] = [tab[i] EXCEPT !.refcount = count[i]]

(* A table with other counts.                                              *)
LEMMA RecountedIs ==
  ASSUME NEW tab, IsList(tab), SlotsOk(tab), NEW count, NEW new, Recounted(tab, new, count)
  PROVE  /\ SameTerms(tab, new) /\ DOMAIN new = DOMAIN tab
         /\ SlotsOk(new) /\ \A i : NameCount(new, i) = NameCount(tab, i)
         /\ \A i \in DOMAIN tab : new[i].refcount = count[i] /\ new[i].value = tab[i].value
                                  /\ new[i].terms = tab[i].terms
<1>1. DOMAIN new = DOMAIN tab /\ DOMAIN tab = 1 .. Len(tab) /\ Len(tab) \in Nat
  BY ListIs DEF Recounted
<1>2. new \in [1 .. Len(tab) -> Range(new)]
  BY <1>1 DEF Recounted, Range
<1>3. new \in Seq(Range(new)) /\ Len(new) = Len(tab)
  BY <1>1, <1>2
<1>4. \A i \in DOMAIN tab : DOMAIN tab[i] = {"refcount", "terms", "value"}
  BY DEF SlotsOk, SlotOk
<1>5. ASSUME NEW i \in DOMAIN tab
      PROVE  /\ DOMAIN new[i] = DOMAIN tab[i] /\ new[i].terms = tab[i].terms
             /\ new[i].refcount = count[i] /\ new[i].value = tab[i].value
  <2>1. new[i] = [tab[i] EXCEPT !.refcount = count[i]]
    BY DEF Recounted
  <2> QED
    BY <2>1, <1>4
<1>6. SameTerms(tab, new)
  BY <1>3, <1>5 DEF SameTerms, IsList
<1>7. SlotsOk(new) /\ \A i : NameCount(new, i) = NameCount(tab, i)
  BY <1>6, TermsKept
<1> QED
  BY <1>1, <1>5, <1>6, <1>7

(* The table after a list of wires was referred to.                        *)
LEMMA ReferredIs ==
  ASSUME NEW tab, IsList(tab), SlotsOk(tab), NEW ws, NEW new, new = Referred(tab, ws)
  PROVE  /\ SameTerms(tab, new) /\ DOMAIN new = DOMAIN tab
         /\ SlotsOk(new) /\ \A i : NameCount(new, i) = NameCount(tab, i)
         /\ \A i \in DOMAIN tab : new[i].refcount = tab[i].refcount + RefsTo(i, ws)
                                  /\ new[i].value = tab[i].value
                                  /\ new[i].terms = tab[i].terms
<1> DEFINE count == [i \in DOMAIN tab |-> tab[i].refcount + RefsTo(i, ws)]
<1>1. \A i \in DOMAIN tab : count[i] = tab[i].refcount + RefsTo(i, ws)
  OBVIOUS
<1>2. Recounted(tab, new, count)
  <2>1. DOMAIN new = DOMAIN tab /\ new = [i \in DOMAIN new |-> new[i]]
    BY DEF Referred
  <2>2. ASSUME NEW i \in DOMAIN tab PROVE new[i] = [tab[i] EXCEPT !.refcount = count[i]]
    BY <1>1 DEF Referred
  <2> QED
    BY <2>1, <2>2 DEF Recounted
<1> HIDE DEF count
<1>3. /\ SameTerms(tab, new) /\ DOMAIN new = DOMAIN tab
      /\ SlotsOk(new) /\ \A i : NameCount(new, i) = NameCount(tab, i)
      /\ \A i \in DOMAIN tab : new[i].refcount = count[i] /\ new[i].value = tab[i].value
                               /\ new[i].terms = tab[i].terms
  BY <1>2, RecountedIs
<1> QED
  BY <1>1, <1>3

(* The empty list.                                                         *)
LEMMA NoItems ==
  /\ IsList(<<>>) /\ DOMAIN <<>> = {} /\ \A i : DrainCount(<<>>, i) = 0 /\ ~Retiring(<<>>, i)
<1>1. IsList(<<>>)
  <2>1. <<>> \in Seq({})
    OBVIOUS
  <2> QED
    BY <2>1, ListOf
<1>2. \A i : DrainedTo(<<>>, i) = {}
  BY DEF DrainedTo
<1>3. \A i : DrainCount(<<>>, i) = 0
  BY <1>2, FS_EmptySet DEF DrainCount
<1> QED
  BY <1>1, <1>3 DEF Retiring

(* A list of one virtual wire refers to it once.                           *)
LEMMA RefsToOne ==
  ASSUME NEW j, NEW i
  PROVE  RefsTo(i, <<V(j)>>) = IF i = j THEN 1 ELSE 0
<1>1. Places(<<V(j)>>, i) = IF i = j THEN {1} ELSE {}
  BY DEF Places, V
<1>2. IsList(<<V(j)>>)
  BY Single
<1>3. RefsTo(i, <<V(j)>>) = Cardinality(Places(<<V(j)>>, i))
  BY <1>2, RefsAre
<1> QED
  BY <1>1, <1>3, FS_EmptySet, FS_Singleton

(* add() with a slot at the end of the table.                              *)
LEMMA SlotAppended ==
  ASSUME NEW p, NEW stk, NEW tab, Sound(p, stk, tab, <<>>, <<>>), stk # <<>>,
         NEW ws, IsList(ws), ReadFrom(stk[1], ws),
         NEW t, SlotOk(t, Len(tab)), t.refcount = 1,
         \A i : Cardinality(TermsTo(t, i)) = RefsTo(i, ws),
         NEW s, IsList(s), FramesOk(p, s, Len(tab) + 1),
         \A i : HandleCount(s, i) = HandleCount(stk, i) + RefsTo(i, <<V(Len(tab) + 1)>>)
  PROVE  Sound(p, s, Append(Referred(tab, ws), t), <<>>, <<>>)
<1> DEFINE n == Len(tab)
           ref == Referred(tab, ws)
           new == Append(ref, t)
<1>1. n \in Nat /\ DOMAIN tab = 1 .. n /\ IsList(tab) /\ SlotsOk(tab) /\ AllTerms(tab)
  BY SoundIs DEF Sound
<1>2. /\ SameTerms(tab, ref) /\ DOMAIN ref = DOMAIN tab
      /\ SlotsOk(ref) /\ \A i : NameCount(ref, i) = NameCount(tab, i)
      /\ \A i \in DOMAIN tab : ref[i].refcount = tab[i].refcount + RefsTo(i, ws)
                               /\ ref[i].value = tab[i].value
                               /\ ref[i].terms = tab[i].terms
  BY <1>1, ReferredIs
<1> HIDE DEF ref, n
<1>3. IsList(ref) /\ Len(ref) = n /\ DOMAIN ref = 1 .. n
  BY <1>1, <1>2 DEF SameTerms, n
<1>4. /\ IsList(new) /\ Len(new) = n + 1 /\ DOMAIN new = 1 .. n + 1
      /\ \A i \in 1 .. n : new[i] = ref[i]
      /\ new[n + 1] = t
  <2> DEFINE R == Range(ref) \cup {t}
  <2>1. ref \in Seq(R) /\ t \in R
    BY <1>3, SeqMonotonic DEF IsList
  <2> HIDE DEF R
  <2>2. /\ new \in Seq(R) /\ Len(new) = n + 1
        /\ \A i \in 1 .. n : new[i] = ref[i]
        /\ new[n + 1] = t
    BY <2>1, <1>3, AppendProperties
  <2>3. IsList(new)
    BY <2>2, ListOf
  <2> HIDE DEF new
  <2>4. DOMAIN new = 1 .. n + 1
    BY <2>2, <2>3, ListIs
  <2> QED
    BY <2>2, <2>3, <2>4
<1> HIDE DEF new
<1>5. SlotsOk(new)
  <2> SUFFICES ASSUME NEW i \in 1 .. n + 1 PROVE SlotOk(new[i], n + 1)
    BY <1>4 DEF SlotsOk
  <2>1. CASE i \in 1 .. n
    <3>1. SlotOk(ref[i], n)
      BY <2>1, <1>2, <1>3 DEF SlotsOk
    <3> QED
      BY <3>1, <2>1, <1>1, <1>4 DEF SlotOk, Named
  <2>2. CASE i \notin 1 .. n
    <3>1. i = n + 1
      BY <2>2, <1>1
    <3>2. SlotOk(t, n)
      BY DEF n
    <3> QED
      BY <3>1, <3>2, <1>1, <1>4 DEF SlotOk, Named
  <2> QED
    BY <2>1, <2>2
<1>6. \A i : NameCount(new, i) = NameCount(tab, i) + RefsTo(i, ws)
  <2> SUFFICES ASSUME NEW i PROVE NameCount(new, i) = NameCount(tab, i) + RefsTo(i, ws)
    OBVIOUS
  <2>1. AllTerms(new)
    BY <1>5 DEF SlotsOk, SlotOk, AllTerms
  <2>2. \A j \in 1 .. Len(tab) : new[j].terms = tab[j].terms
    BY <1>1, <1>2, <1>4 DEF n
  <2>3. Len(new) = Len(tab) + 1 /\ new[Len(tab) + 1] = t
    BY <1>4 DEF n
  <2>4. NameCount(new, i) = NameCount(tab, i) + Cardinality(TermsTo(new[Len(tab) + 1], i))
    BY <2>1, <2>2, <2>3, <1>1, <1>4, NamesAppended
  <2> QED
    BY <2>3, <2>4
<1>7. /\ \A i : RefsTo(i, ws) \in Nat
      /\ \A i \in DOMAIN tab : RefsTo(i, ws) # 0 => tab[i].refcount >= 1
      /\ \A i : i \notin DOMAIN tab => RefsTo(i, ws) = 0
  BY ReadsAreAlive
<1>8. \A i \in DOMAIN tab :
        /\ tab[i].refcount = HandleCount(stk, i) + NameCount(tab, i) + DrainCount(<<>>, i)
        /\ tab[i].refcount \in Nat /\ tab[i].refcount # 0
        /\ HandleCount(stk, i) \in Nat /\ NameCount(tab, i) \in Nat
  <2>1. \A i \in DOMAIN tab :
          /\ tab[i].refcount = HandleCount(stk, i) + NameCount(tab, i) + DrainCount(<<>>, i)
          /\ tab[i].refcount \in Nat
          /\ HandleCount(stk, i) \in Nat /\ NameCount(tab, i) \in Nat
    BY SoundIs
  <2>2. \A i \in DOMAIN tab : tab[i].refcount # 0
    BY NoItems DEF Sound, FreeOk, Dead
  <2> QED
    BY <2>1, <2>2
<1>9. HandleCount(stk, n + 1) = 0 /\ NameCount(tab, n + 1) = 0 /\ RefsTo(n + 1, ws) = 0
  <2>1. n + 1 \notin DOMAIN tab
    BY <1>1
  <2> QED
    BY <2>1, <1>7, NoneBeyond
<1>10. \A i : HandleCount(s, i) = HandleCount(stk, i) + IF i = n + 1 THEN 1 ELSE 0
  BY RefsToOne DEF n
<1> HIDE DEF RefsTo
<1>11. Exact(s, new, <<>>)
  <2> SUFFICES ASSUME NEW i \in 1 .. n + 1
               PROVE  new[i].refcount = HandleCount(s, i) + NameCount(new, i) + DrainCount(<<>>, i)
    BY <1>4 DEF Exact
  <2>1. DrainCount(<<>>, i) = 0
    BY NoItems
  <2>2. CASE i \in 1 .. n
    <3>1. i # n + 1 /\ i \in DOMAIN tab /\ new[i].refcount = tab[i].refcount + RefsTo(i, ws)
      BY <2>2, <1>1, <1>2, <1>4
    <3>2. HandleCount(s, i) = HandleCount(stk, i) + 0
      BY <3>1, <1>10
    <3>3. /\ tab[i].refcount = HandleCount(stk, i) + NameCount(tab, i) + 0
          /\ HandleCount(stk, i) \in Nat /\ NameCount(tab, i) \in Nat /\ RefsTo(i, ws) \in Nat
          /\ NameCount(new, i) = NameCount(tab, i) + RefsTo(i, ws)
      BY <3>1, <2>1, <1>6, <1>7, <1>8
    <3> QED
      BY <2>1, <3>1, <3>2, <3>3
  <2>3. CASE i \notin 1 .. n
    <3>1. i = n + 1
      BY <2>3, <1>1
    <3>2. HandleCount(s, i) = 1 /\ NameCount(new, i) = 0
      BY <3>1, <1>6, <1>9, <1>10
    <3> QED
      BY <2>1, <3>1, <3>2, <1>4
  <2> QED
    BY <2>2, <2>3
<1>12. \A i \in DOMAIN new : new[i].refcount # 0
  <2> SUFFICES ASSUME NEW i \in 1 .. n + 1 PROVE new[i].refcount # 0
    BY <1>4
  <2>1. CASE i \in 1 .. n
    <3>1. new[i].refcount = tab[i].refcount + RefsTo(i, ws) /\ i \in DOMAIN tab
      BY <2>1, <1>1, <1>2, <1>4
    <3>2. tab[i].refcount \in Nat /\ tab[i].refcount # 0 /\ RefsTo(i, ws) \in Nat
      BY <3>1, <1>7, <1>8
    <3> QED
      BY <3>1, <3>2
  <2>2. CASE i \notin 1 .. n
    BY <2>2, <1>1, <1>4
  <2> QED
    BY <2>1, <2>2
<1>13. FreeOk(<<>>, new, <<>>)
  BY <1>12, NoItems DEF FreeOk, Dead
<1>14. ItemsOk(<<>>, new)
  BY NoItems DEF ItemsOk
<1>15. FramesOk(p, s, Len(new))
  BY <1>4 DEF n
<1>16. Sound(p, s, new, <<>>, <<>>)
  BY <1>4, <1>5, <1>11, <1>13, <1>14, <1>15, NoItems DEF Sound
<1> QED
  BY <1>16 DEF new, ref

(* A free list without its last slot.                                      *)
LEMMA Shortened ==
  ASSUME NEW fr, IsList(fr), fr # <<>>
  PROVE  /\ IsList(SubSeq(fr, 1, Len(fr) - 1))
         /\ DOMAIN SubSeq(fr, 1, Len(fr) - 1) = 1 .. Len(fr) - 1
         /\ \A k \in 1 .. Len(fr) - 1 : SubSeq(fr, 1, Len(fr) - 1)[k] = fr[k]
         /\ Len(fr) \in Nat \ {0} /\ DOMAIN fr = 1 .. Len(fr)
<1> DEFINE less == SubSeq(fr, 1, Len(fr) - 1)
           R == Range(fr)
<1>1. Len(fr) \in Nat \ {0} /\ DOMAIN fr = 1 .. Len(fr) /\ \A k \in 1 .. Len(fr) : fr[k] \in R
  BY ListIs
<1> HIDE DEF R
<1>2. /\ less \in Seq(R)
      /\ Len(less) = IF 1 <= Len(fr) - 1 THEN (Len(fr) - 1) - 1 + 1 ELSE 0
      /\ \A k \in 1 .. (Len(fr) - 1) - 1 + 1 : less[k] = fr[1 + k - 1]
  <2> DEFINE m == Len(fr) - 1
  <2>1. 1 \in Int /\ m \in Int /\ \A k \in 1 .. m : fr[k] \in R
    BY <1>1
  <2>2. less = SubSeq(fr, 1, m)
    OBVIOUS
  <2> HIDE DEF m, less
  <2>3. /\ less \in Seq(R) /\ Len(less) = IF 1 <= m THEN m - 1 + 1 ELSE 0
        /\ \A k \in 1 .. m - 1 + 1 : less[k] = fr[1 + k - 1]
    BY <2>1, <2>2, SubSeqProperties
  <2> QED
    BY <2>3 DEF m
<1> HIDE DEF less
<1>3. IsList(less)
  BY <1>2, ListOf
<1>4. Len(less) = Len(fr) - 1 /\ \A k \in 1 .. Len(fr) - 1 : less[k] = fr[k]
  <2> DEFINE L == Len(fr)
  <2>1. L \in Nat /\ L >= 1
    BY <1>1
  <2>2. Len(less) = IF 1 <= L - 1 THEN (L - 1) - 1 + 1 ELSE 0
    BY <1>2
  <2>3. \A k \in 1 .. (L - 1) - 1 + 1 : less[k] = fr[1 + k - 1]
    BY <1>2
  <2> HIDE DEF L
  <2>4. Len(less) = L - 1
    BY <2>1, <2>2
  <2>5. ASSUME NEW k \in 1 .. L - 1 PROVE less[k] = fr[k]
    <3>1. k \in 1 .. (L - 1) - 1 + 1 /\ 1 + k - 1 = k
      BY <2>1
    <3>2. less[k] = fr[1 + k - 1]
      BY <3>1, <2>3
    <3> QED
      BY <3>1, <3>2
  <2> QED
    BY <2>4, <2>5 DEF L
<1>5. DOMAIN less = 1 .. Len(fr) - 1
  BY <1>3, <1>4, ListIs
<1> QED
  BY <1>1, <1>3, <1>4, <1>5 DEF less

(* add() with a slot of the free list.                                     *)
LEMMA SlotReused ==
  ASSUME NEW p, NEW stk, NEW tab, NEW fr, Sound(p, stk, tab, fr, <<>>), stk # <<>>,
         fr # <<>>, NEW slot, slot = fr[Len(fr)],
         NEW ws, IsList(ws), ReadFrom(stk[1], ws),
         NEW t, SlotOk(t, Len(tab)), t.refcount = 1,
         \A i : Cardinality(TermsTo(t, i)) = RefsTo(i, ws),
         NEW s, IsList(s), FramesOk(p, s, Len(tab)),
         \A i : HandleCount(s, i) = HandleCount(stk, i) + RefsTo(i, <<V(slot)>>)
  PROVE  Sound(p, s, [Referred(tab, ws) EXCEPT ![slot] = t],
               SubSeq(fr, 1, Len(fr) - 1), <<>>)
<1> DEFINE n == Len(tab)
           ref == Referred(tab, ws)
           new == [ref EXCEPT ![slot] = t]
           less == SubSeq(fr, 1, Len(fr) - 1)
<1>1. n \in Nat /\ DOMAIN tab = 1 .. n /\ IsList(tab) /\ SlotsOk(tab) /\ AllTerms(tab) /\ IsList(fr)
      /\ FreeOk(fr, tab, <<>>)
  BY SoundIs DEF Sound
<1>2. /\ SameTerms(tab, ref) /\ DOMAIN ref = DOMAIN tab
      /\ SlotsOk(ref) /\ \A i : NameCount(ref, i) = NameCount(tab, i)
      /\ \A i \in DOMAIN tab : ref[i].refcount = tab[i].refcount + RefsTo(i, ws)
                               /\ ref[i].value = tab[i].value
                               /\ ref[i].terms = tab[i].terms
  BY <1>1, ReferredIs
<1>3. /\ IsList(less) /\ DOMAIN less = 1 .. Len(fr) - 1
      /\ \A k \in 1 .. Len(fr) - 1 : less[k] = fr[k]
      /\ Len(fr) \in Nat \ {0} /\ DOMAIN fr = 1 .. Len(fr)
  BY <1>1, Shortened
<1> HIDE DEF ref, n, less
<1>4. slot \in 1 .. n /\ Dead(fr, slot) /\ Clean(tab[slot])
  <2>1. Len(fr) \in DOMAIN fr
    BY <1>3
  <2> QED
    BY <2>1, <1>1 DEF FreeOk, Dead
<1>5. /\ IsList(new) /\ Len(new) = n /\ DOMAIN new = 1 .. n
      /\ \A i \in 1 .. n : i # slot => new[i] = ref[i]
      /\ new[slot] = t
  <2> DEFINE R == Range(ref) \cup {t}
  <2>1. ref \in Seq(R) /\ t \in R /\ Len(ref) = n
    BY <1>2, SeqMonotonic DEF IsList, SameTerms, n
  <2> HIDE DEF R
  <2>2. new \in Seq(R) /\ Len(new) = n /\ \A i \in 1 .. n : new[i] = IF i = slot THEN t ELSE ref[i]
    BY <2>1, <1>4, ExceptSeq
  <2>3. IsList(new)
    BY <2>2, ListOf
  <2> HIDE DEF new
  <2>4. DOMAIN new = 1 .. n
    BY <2>2, <2>3, ListIs
  <2> QED
    BY <2>2, <2>3, <2>4, <1>4
<1> HIDE DEF new
<1>6. SlotsOk(new)
  <2> SUFFICES ASSUME NEW i \in 1 .. n PROVE SlotOk(new[i], n)
    BY <1>5 DEF SlotsOk
  <2>1. SlotOk(ref[i], n)
    BY <1>1, <1>2 DEF SlotsOk, SameTerms, n
  <2>2. SlotOk(t, n)
    BY DEF n
  <2> QED
    BY <2>1, <2>2, <1>5
<1>7. /\ \A i : RefsTo(i, ws) \in Nat
      /\ \A i \in DOMAIN tab : RefsTo(i, ws) # 0 => tab[i].refcount >= 1 /\ ~Dead(fr, i)
  BY ReadsAreAlive
<1>8. \A i : NameCount(new, i) = NameCount(tab, i) + RefsTo(i, ws)
  <2> SUFFICES ASSUME NEW i PROVE NameCount(new, i) = NameCount(tab, i) + RefsTo(i, ws)
    OBVIOUS
  <2>1. AllTerms(new)
    BY <1>6 DEF SlotsOk, SlotOk, AllTerms
  <2>2. \A j \in 1 .. Len(tab) : j # slot => new[j].terms = tab[j].terms
    BY <1>1, <1>2, <1>5 DEF n
  <2>3. Len(new) = Len(tab) /\ slot \in 1 .. Len(tab)
    BY <1>4, <1>5 DEF n
  <2>4. NameCount(new, i) = (NameCount(tab, i) - Cardinality(TermsTo(tab[slot], i)))
                              + Cardinality(TermsTo(new[slot], i))
    BY <2>1, <2>2, <2>3, <1>1, <1>5, NamesChanged
  <2>5. Cardinality(TermsTo(tab[slot], i)) = 0
    <3>1. TermsTo(tab[slot], i) = {}
      BY <1>4 DEF TermsTo, Clean
    <3> QED
      BY <3>1, FS_EmptySet
  <2>6. NameCount(tab, i) \in Nat
    BY SoundIs
  <2> HIDE DEF RefsTo
  <2> QED
    BY <2>4, <2>5, <2>6, <1>5
<1>9. \A i \in DOMAIN tab :
        /\ tab[i].refcount = HandleCount(stk, i) + NameCount(tab, i) + DrainCount(<<>>, i)
        /\ tab[i].refcount \in Nat
        /\ HandleCount(stk, i) \in Nat /\ NameCount(tab, i) \in Nat
  BY SoundIs
<1>10. \A i : HandleCount(s, i) = HandleCount(stk, i) + IF i = slot THEN 1 ELSE 0
  BY RefsToOne
<1> HIDE DEF RefsTo
<1>11. Exact(s, new, <<>>)
  <2> SUFFICES ASSUME NEW i \in 1 .. n
               PROVE  new[i].refcount = HandleCount(s, i) + NameCount(new, i) + DrainCount(<<>>, i)
    BY <1>5 DEF Exact
  <2>1. DrainCount(<<>>, i) = 0 /\ i \in DOMAIN tab
    BY <1>1, NoItems
  <2>2. /\ tab[i].refcount = HandleCount(stk, i) + NameCount(tab, i) + 0
        /\ HandleCount(stk, i) \in Nat /\ NameCount(tab, i) \in Nat /\ RefsTo(i, ws) \in Nat
        /\ NameCount(new, i) = NameCount(tab, i) + RefsTo(i, ws)
    BY <2>1, <1>7, <1>8, <1>9
  <2>3. CASE i # slot
    <3>1. new[i].refcount = tab[i].refcount + RefsTo(i, ws)
      BY <2>1, <2>3, <1>2, <1>5
    <3>2. HandleCount(s, i) = HandleCount(stk, i) + 0
      BY <2>3, <1>10
    <3> QED
      BY <2>1, <2>2, <3>1, <3>2
  <2>4. CASE i = slot
    <3>1. RefsTo(i, ws) = 0 /\ tab[i].refcount = 0
      BY <2>1, <2>4, <1>4, <1>7 DEF Clean
    <3>2. HandleCount(s, i) = HandleCount(stk, i) + 1 /\ new[i].refcount = 1
      BY <2>4, <1>5, <1>10
    <3> QED
      BY <2>1, <2>2, <3>1, <3>2
  <2> QED
    BY <2>3, <2>4
<1>12. FreeOk(less, new, <<>>)
  <2>1. /\ \A k \in DOMAIN less : less[k] \in DOMAIN new
        /\ \A j, k \in DOMAIN less : less[j] = less[k] => j = k
    <3>1. \A k \in DOMAIN less : k \in DOMAIN fr /\ less[k] = fr[k]
      BY <1>3
    <3> QED
      BY <3>1, <1>1, <1>5 DEF FreeOk
  <2>2. ASSUME NEW i \in 1 .. n, Dead(less, i)
        PROVE  Clean(new[i])
    <3>1. PICK k \in 1 .. Len(fr) - 1 : less[k] = i
      BY <2>2, <1>3 DEF Dead
    <3>2. k \in DOMAIN fr /\ Len(fr) \in DOMAIN fr /\ k # Len(fr) /\ fr[k] = i
      <4> DEFINE L == Len(fr)
      <4>1. L \in Nat \ {0} /\ DOMAIN fr = 1 .. L /\ k \in 1 .. L - 1 /\ fr[k] = i
        BY <3>1, <1>3
      <4> HIDE DEF L
      <4>2. k \in DOMAIN fr /\ L \in DOMAIN fr /\ k # L
        BY <4>1
      <4> QED
        BY <4>1, <4>2 DEF L
    <3>3. i # slot /\ Dead(fr, i) /\ i \in DOMAIN tab
      BY <3>2, <1>1 DEF FreeOk, Dead
    <3>4. Clean(tab[i]) /\ RefsTo(i, ws) = 0
      BY <3>3, <1>1, <1>7 DEF FreeOk
    <3> QED
      BY <3>3, <3>4, <1>2, <1>5 DEF Clean
  <2>3. ASSUME NEW i \in 1 .. n, new[i].refcount = 0
        PROVE  Dead(less, i)
    <3>1. i # slot /\ i \in DOMAIN tab
      BY <2>3, <1>1, <1>5
    <3>2. tab[i].refcount + RefsTo(i, ws) = 0
      BY <2>3, <3>1, <1>2, <1>5
    <3>3. tab[i].refcount = 0
      BY <3>1, <3>2, <1>7, <1>9
    <3>4. Dead(fr, i)
      BY <3>1, <3>3, <1>1, NoItems DEF FreeOk
    <3>5. PICK k \in DOMAIN fr : fr[k] = i
      BY <3>4 DEF Dead
    <3>6. k \in 1 .. Len(fr) - 1
      BY <3>1, <3>5, <1>3
    <3> QED
      BY <3>5, <3>6, <1>3 DEF Dead
  <2> QED
    BY <2>1, <2>2, <2>3, <1>5, NoItems DEF FreeOk
<1>13. ItemsOk(<<>>, new)
  BY NoItems DEF ItemsOk
<1>14. FramesOk(p, s, Len(new))
  BY <1>5 DEF n
<1>15. Sound(p, s, new, less, <<>>)
  BY <1>3, <1>5, <1>6, <1>11, <1>12, <1>13, <1>14, NoItems DEF Sound
<1> QED
  BY <1>15 DEF new, ref, less

(* add() keeps the invariant, with a new slot or a used one.               *)
LEMMA AddsKeeps ==
  ASSUME IInv, prog \in Programs, WellWired(prog), Adds
  PROVE  IInv'
<1> DEFINE lc    == NextCall.lc
           ws    == [k \in DOMAIN lc |-> Top.call.env[lc[k][1]]]
           terms == [k \in DOMAIN lc |-> [wire |-> ws[k], coeff |-> lc[k][2] % P]]
           slot  == IF free = <<>> THEN Len(wires) + 1 ELSE free[Len(free)]
           t     == [refcount |-> 1, terms |-> terms, value |-> 0]
           m     == IF free = <<>> THEN Len(wires) + 1 ELSE Len(wires)
           more  == << <<"v", slot>> >>
           g     == Hold(Top, more)
<1>1. UNCHANGED <<prog, work>> /\ Calling("add")
  BY DEF Adds, input
<1>2. CASE free # <<>> /\ ~Clean(wires[slot])
  <2>1. pc' = "panicked" /\ UNCHANGED <<stack, wires, free>>
    BY <1>2 DEF Adds
  <2> QED
    BY <1>1, <2>1, Unmoved
<1>3. CASE ~(free # <<>> /\ ~Clean(wires[slot]))
  <2>1. /\ wires' = IF free = <<>> THEN Append(Referred(wires, ws), t)
                    ELSE [Referred(wires, ws) EXCEPT ![slot] = t]
        /\ free' = IF free = <<>> THEN free ELSE SubSeq(free, 1, Len(free) - 1)
        /\ Go(g)
    BY <1>3 DEF Adds
  <2>2. /\ pc = "run" /\ work = <<>> /\ stack # <<>> /\ ~AtEnd(prog, Top.call)
        /\ NextCall.kind = "add" /\ lc \in Seq(Term)
        /\ Sound(prog, stack, wires, free, work) /\ IsFrame(Top)
        /\ FrameOk(prog, Top, Len(wires), 0)
        /\ Reads(NextCall) \subseteq Top.held
    BY <1>1, KindOf, OpIs
  <2>3. Len(wires) \in Nat /\ DOMAIN wires = 1 .. Len(wires)
    BY <2>2, SoundIs
  <2>4. Len(lc) \in Nat /\ DOMAIN lc = 1 .. Len(lc)
    BY <2>2
  <2>5. IsList(ws) /\ DOMAIN ws = DOMAIN lc /\ \A k \in DOMAIN lc : ws[k] = Top.call.env[lc[k][1]]
    <3>1. ws \in Seq(Range(ws))
      BY <2>4 DEF Range
    <3> QED
      BY <3>1 DEF IsList
  <2>6. ReadFrom(Top, ws)
    BY <2>2, <2>5 DEF ReadFrom, Reads
  <2> HIDE DEF ws
  <2>7. IsList(terms) /\ DOMAIN terms = DOMAIN lc /\ \A k \in DOMAIN lc : terms[k].wire = ws[k]
    <3>1. terms \in Seq(Range(terms))
      BY <2>4 DEF Range
    <3> QED
      BY <3>1 DEF IsList
  <2> HIDE DEF terms, lc
  <2>8. \A k \in DOMAIN ws : Named(ws[k], Len(wires))
    <3>1. ReadFrom(stack[1], ws)
      BY <2>6 DEF Top
    <3> QED
      BY <3>1, <2>2, <2>5, ReadsAreAlive
  <2>9. SlotOk(t, Len(wires)) /\ t.refcount = 1
    BY <2>5, <2>7, <2>8 DEF SlotOk
  <2>10. \A i : Cardinality(TermsTo(t, i)) = RefsTo(i, ws)
    <3> SUFFICES ASSUME NEW i PROVE Cardinality(TermsTo(t, i)) = RefsTo(i, ws)
      OBVIOUS
    <3>1. TermsTo(t, i) = Places(ws, i)
      BY <2>5, <2>7 DEF TermsTo, Places
    <3> QED
      BY <3>1, <2>5, RefsAre
  <2> HIDE DEF t
  <2>11. IsList(more) /\ Len(more) = 1 /\ more[1] = V(slot) /\ more = <<V(slot)>>
    BY Single DEF V
  <2>12. m \in Nat /\ Len(wires) <= m /\ slot \in 1 .. m
    <3>1. CASE free = <<>>
      BY <3>1, <2>3
    <3>2. CASE free # <<>>
      <4>1. IsList(free) /\ FreeOk(free, wires, work)
        BY <2>2 DEF Sound
      <4>2. Len(free) \in DOMAIN free
        BY <3>2, <4>1, Shortened
      <4>3. free[Len(free)] \in DOMAIN wires
        BY <4>1, <4>2 DEF FreeOk
      <4> QED
        BY <3>2, <4>3, <2>3
    <3> QED
      BY <3>1, <3>2
  <2> HIDE DEF m, slot
  <2>13. \A k \in DOMAIN more : Named(more[k], m)
    <3>1. \A k \in DOMAIN more : more[k] = V(slot)
      BY <2>11, ListIs
    <3> QED
      BY <3>1, <2>12 DEF Named
  <2> HIDE DEF more
  <2>14. Grown(stack[1], g, more)
    <3>1. Grown(Top, g, more)
      BY <2>2, <2>11, HoldIs
    <3> QED
      BY <3>1 DEF Top
  <2> HIDE DEF g
  <2>15. stack' = Topped(stack, g) /\ pc' = pc
    BY <2>1 DEF Go, Topped
  <2>16. Len(more) = Binds(prog, NextOp(prog, stack[1].call)) /\ ~AtEnd(prog, stack[1].call)
    BY <2>2, <2>11 DEF Binds, NextCall, Top
  <2>17. /\ IsList(stack') /\ stack' # <<>> /\ FramesOk(prog, stack', m)
         /\ \A i : HandleCount(stack', i) = HandleCount(stack, i) + RefsTo(i, more)
    <3>1. /\ Sound(prog, stack, wires, free, work) /\ stack # <<>> /\ ~AtEnd(prog, stack[1].call)
          /\ IsList(more) /\ Grown(stack[1], g, more) /\ m \in Nat /\ Len(wires) <= m
          /\ Len(more) = Binds(prog, NextOp(prog, stack[1].call))
          /\ stack' = Topped(stack, g)
      BY <2>2, <2>11, <2>12, <2>14, <2>15, <2>16
    <3> QED
      BY <3>1, <2>13, GoesOn
  <2>18. ReadFrom(stack[1], ws)
    BY <2>6 DEF Top
  <2>19. CASE free = <<>>
    <3>1. m = Len(wires) + 1 /\ slot = Len(wires) + 1
      BY <2>19 DEF m, slot
    <3>2. Sound(prog, stack, wires, <<>>, <<>>)
      BY <2>2, <2>19
    <3>3. FramesOk(prog, stack', Len(wires) + 1)
      BY <2>17, <3>1
    <3>4. \A i : HandleCount(stack', i) = HandleCount(stack, i) + RefsTo(i, <<V(Len(wires) + 1)>>)
      BY <2>11, <2>17, <3>1
    <3>5. Sound(prog, stack', Append(Referred(wires, ws), t), <<>>, <<>>)
      BY <2>2, <2>5, <2>9, <2>10, <2>17, <2>18, <3>2, <3>3, <3>4, SlotAppended
    <3>6. Sound(prog, stack', wires', free', work')
      BY <1>1, <2>1, <2>2, <2>19, <3>5
    <3> QED
      BY <1>1, <2>2, <2>15, <2>17, <3>6, Goes
  <2>20. CASE free # <<>>
    <3>1. m = Len(wires) /\ slot = free[Len(free)]
      BY <2>20 DEF m, slot
    <3>2. Sound(prog, stack, wires, free, <<>>)
      BY <2>2
    <3>3. FramesOk(prog, stack', Len(wires))
      BY <2>17, <3>1
    <3>4. \A i : HandleCount(stack', i) = HandleCount(stack, i) + RefsTo(i, <<V(slot)>>)
      BY <2>11, <2>17
    <3>5. Sound(prog, stack', [Referred(wires, ws) EXCEPT ![slot] = t],
                SubSeq(free, 1, Len(free) - 1), <<>>)
      <4>1. /\ Sound(prog, stack, wires, free, <<>>) /\ stack # <<>> /\ free # <<>>
            /\ slot = free[Len(free)] /\ IsList(ws) /\ ReadFrom(stack[1], ws)
            /\ SlotOk(t, Len(wires)) /\ t.refcount = 1
            /\ IsList(stack') /\ FramesOk(prog, stack', Len(wires))
        BY <2>2, <2>5, <2>9, <2>17, <2>18, <2>20, <3>1, <3>2, <3>3
      <4> HIDE DEF RefsTo
      <4> QED
        BY <4>1, <2>10, <3>4, SlotReused
    <3>6. Sound(prog, stack', wires', free', work')
      BY <1>1, <2>1, <2>2, <2>20, <3>5
    <3> QED
      BY <1>1, <2>2, <2>15, <2>17, <3>6, Goes
  <2> QED
    BY <2>19, <2>20
<1> QED
  BY <1>2, <1>3

(* The same slots are in use, and the handles and counts move together.    *)
LEMMA CountedAnew ==
  ASSUME NEW p, NEW stk, NEW tab, NEW fr, NEW wk, Sound(p, stk, tab, fr, wk),
         NEW s, IsList(s), FramesOk(p, s, Len(tab)),
         NEW new, SameTerms(tab, new),
         \A i \in DOMAIN tab :
           /\ new[i].value = tab[i].value
           /\ new[i].refcount = HandleCount(s, i) + NameCount(tab, i) + DrainCount(wk, i)
           /\ new[i].refcount = 0 <=> tab[i].refcount = 0
  PROVE  Sound(p, s, new, fr, wk)
<1>1. IsList(tab) /\ SlotsOk(tab) /\ FreeOk(fr, tab, wk) /\ ItemsOk(wk, tab) /\ IsList(fr) /\ IsList(wk)
  BY DEF Sound
<1>2. /\ SlotsOk(new) /\ DOMAIN new = DOMAIN tab /\ \A i : NameCount(new, i) = NameCount(tab, i)
      /\ IsList(new) /\ Len(new) = Len(tab)
      /\ \A i \in DOMAIN tab : new[i].terms = tab[i].terms
  BY <1>1, TermsKept DEF SameTerms
<1>3. Exact(s, new, wk)
  BY <1>2 DEF Exact
<1>4. ItemsOk(wk, new)
  BY <1>1, <1>2 DEF ItemsOk
<1>5. FreeOk(fr, new, wk)
  <2>1. \A i \in DOMAIN tab : Dead(fr, i) /\ Clean(tab[i]) => Clean(new[i])
    BY <1>2 DEF Clean
  <2>2. \A i \in DOMAIN tab : new[i].refcount = 0 => tab[i].refcount = 0
    OBVIOUS
  <2> QED
    BY <1>1, <1>2, <2>1, <2>2, FreeKept
<1>6. FramesOk(p, s, Len(new))
  BY <1>2
<1> QED
  BY <1>1, <1>2, <1>3, <1>4, <1>5, <1>6 DEF Sound

(* What is handed to a routine that is entered.                            *)
HandedOver(p, f, n, op, inputs) ==
  /\ IsList(inputs) /\ ReadFrom(f, inputs)
  /\ \A k \in Reads(op) : \E j \in DOMAIN inputs : inputs[j] = f.call.env[k]
  /\ \A k \in DOMAIN inputs : Named(inputs[k], n)
  /\ Len(inputs) = Arity(p, op.name)
  /\ op.name # Main /\ op.name \in Called(p)

(* The inputs of a call are wires its frame holds, as many as the routine  *)
(* takes.                                                                  *)
LEMMA InputsAre ==
  ASSUME NEW p \in Programs, WellWired(p), NEW f, NEW n \in Nat, FrameOk(p, f, n, 0),
         ~AtEnd(p, f.call), NextOp(p, f.call).kind = "routine"
  PROVE  HandedOver(p, f, n, NextOp(p, f.call), InputWires(f.call, NextOp(p, f.call)))
<1> DEFINE op == NextOp(p, f.call)
           r  == f.call.name
           inputs == InputWires(f.call, op)
<1>1. /\ r \in Routines /\ f.call.at \in 1 .. Len(OpsOf(p, r)) /\ Len(OpsOf(p, r)) \in Nat
      /\ op \in Op /\ op.kind = "routine"
      /\ Reads(op) \subseteq DOMAIN f.call.env /\ Reads(op) \subseteq f.held
  BY ReadsAreHeld
<1>2. op.name \in Routines /\ op.args \in Seq(Nat \ {0})
  BY <1>1, OpIs
<1>3. Len(op.args) \in Nat /\ DOMAIN op.args = 1 .. Len(op.args)
  BY <1>2, LenProperties
<1>4. Reads(op) = { op.args[k] : k \in DOMAIN op.args }
  BY <1>1 DEF Reads
<1>5. <<r, f.call.at>> \in CallsOf(p, op.name) /\ Len(op.args) = Arity(p, op.name)
  <2>1. /\ f.call.at \in DOMAIN OpsOf(p, r) /\ OpsOf(p, r)[f.call.at] = op
    BY <1>1, OpsAre, LenProperties DEF NextOp
  <2>2. f.call.at \in DOMAIN p[r].ops /\ p[r].ops[f.call.at] = op
    BY <1>1, <2>1, OpsAre
  <2> DEFINE c == <<r, f.call.at>>
  <2>3. c \in {r} \X DOMAIN p[r].ops
    BY <2>2
  <2>4. c \in UNION { {q} \X DOMAIN p[q].ops : q \in Routines }
    BY <1>1, <2>3
  <2>5. c \in CallsOf(p, op.name)
    BY <1>1, <2>2, <2>4 DEF CallsOf
  <2>6. op.name \in { q \in Routines : q = Main \/ CallsOf(p, q) # {} }
    BY <1>2, <2>5
  <2>7. \A d \in CallsOf(p, op.name) : Len(p[d[1]].ops[d[2]].args) = Arity(p, op.name)
    BY <2>6 DEF WellWired
  <2>8. Len(p[c[1]].ops[c[2]].args) = Arity(p, op.name)
    BY <2>5, <2>7
  <2> QED
    BY <2>2, <2>5, <2>8
<1>6. op.name # Main /\ op.name \in Called(p)
  BY <1>2, <1>5 DEF WellWired, Called
<1> HIDE DEF r
<1>7. /\ DOMAIN inputs = DOMAIN op.args /\ IsList(inputs) /\ Len(inputs) = Len(op.args)
      /\ \A k \in DOMAIN op.args : inputs[k] = f.call.env[op.args[k]]
  <2>1. inputs = [k \in DOMAIN op.args |-> f.call.env[op.args[k]]]
    BY DEF InputWires
  <2>2. inputs \in Seq(Range(inputs)) /\ Len(inputs) = Len(op.args)
    BY <1>3, <2>1 DEF Range
  <2> QED
    BY <2>1, <2>2 DEF IsList
<1> HIDE DEF inputs, op
<1>8. ReadFrom(f, inputs) /\ \A k \in Reads(op) : \E j \in DOMAIN inputs : inputs[j] = f.call.env[k]
  BY <1>1, <1>4, <1>7 DEF ReadFrom
<1>9. \A k \in DOMAIN inputs : Named(inputs[k], n)
  <2>1. \A k \in DOMAIN f.call.env : Named(f.call.env[k], n)
    BY DEF FrameOk
  <2> QED
    BY <2>1, <1>1, <1>4, <1>7
<1>10. Len(inputs) = Arity(p, op.name)
  BY <1>5, <1>7
<1> QED
  BY <1>6, <1>7, <1>8, <1>9, <1>10 DEF op, inputs, HandedOver

(* A frame holds as many handles to each wire as a list has.               *)
HandlesAre(g, ws) == \A i : Cardinality(HandlesTo(g, i)) = RefsTo(i, ws)

(* The frame of a routine that is entered.                                 *)
LEMMA ScopeIs ==
  ASSUME NEW p \in Programs, NEW name \in Called(p), NEW inputs, IsList(inputs),
         Len(inputs) = Arity(p, name), NEW seg, NEW n \in Nat,
         \A k \in DOMAIN inputs : Named(inputs[k], n)
  PROVE  /\ FrameOk(p, NewScope(name, inputs, seg), n, 0)
         /\ HandlesAre(NewScope(name, inputs, seg), inputs)
<1> DEFINE g == NewScope(name, inputs, seg)
<1>1. /\ IsFrame(g) /\ g.call.name = name /\ g.call.at = 1
      /\ g.call.env = <<ONE>> \o inputs /\ g.held = 1 .. 1 + Len(inputs)
  <2>1. Fresh(g, name, inputs)
    BY NewScopeIs
  <2> HIDE DEF g
  <2> QED
    BY <2>1 DEF Fresh
<1> HIDE DEF g
<1>2. Len(inputs) \in Nat /\ DOMAIN inputs = 1 .. Len(inputs)
  BY ListIs
<1>3. /\ Len(g.call.env) = Len(inputs) + 1 /\ DOMAIN g.call.env = 1 .. Len(inputs) + 1
      /\ g.call.env[1] = ONE /\ \A k \in 1 .. Len(inputs) : g.call.env[k + 1] = inputs[k]
  BY <1>1, Pushed
<1>4. \A k \in DOMAIN g.call.env : Named(g.call.env[k], n)
  <2> SUFFICES ASSUME NEW k \in 1 .. Len(inputs) + 1 PROVE Named(g.call.env[k], n)
    BY <1>3
  <2>1. CASE k = 1
    BY <2>1, <1>3 DEF Named, IsVirtual, ONE
  <2>2. CASE k # 1
    <3>1. k - 1 \in 1 .. Len(inputs) /\ (k - 1) + 1 = k
      BY <2>2, <1>2
    <3>2. g.call.env[(k - 1) + 1] = inputs[k - 1] /\ Named(inputs[k - 1], n)
      BY <3>1, <1>2, <1>3
    <3> QED
      BY <3>1, <3>2
  <2> QED
    BY <2>1, <2>2
<1>5. FrameOk(p, g, n, 0)
  <2>1. name \in Routines
    BY DEF Called
  <2>2. Len(OpsOf(p, name)) \in Nat
    BY <2>1, OpsAre, LenProperties
  <2>3. WiresBefore(p, name)[1] = 1 + Arity(p, name)
    BY <2>1, WiresBeforeIs
  <2>4. Len(g.call.env) + 0 = WiresBefore(p, name)[1]
    BY <2>3, <1>2, <1>3
  <2>5. DOMAIN g.call.env \subseteq g.held
    BY <1>1, <1>2, <1>3
  <2> QED
    BY <2>2, <2>4, <2>5, <1>1, <1>4 DEF FrameOk
<1>6. \A i : Cardinality(HandlesTo(g, i)) = RefsTo(i, inputs)
  <2> SUFFICES ASSUME NEW i PROVE Cardinality(HandlesTo(g, i)) = RefsTo(i, inputs)
    OBVIOUS
  <2> DEFINE one == <<ONE>>
             base == {1}
             all  == g.call.env
             more == g.held
  <2>1. IsList(one) /\ Len(one) = 1 /\ one[1] = ONE /\ base \subseteq 1 .. Len(one)
    BY Single
  <2>2. Widened(one, base, all, more, inputs)
    <3>1. NewPlaces(one, inputs) = 2 .. 1 + Len(inputs)
      BY <2>1 DEF NewPlaces
    <3> QED
      BY <2>1, <3>1, <1>1, <1>2 DEF Widened
  <2>3. HeldTo(one, base, i) = {}
    BY <2>1 DEF HeldTo, V, ONE
  <2>4. HandlesTo(g, i) = HeldTo(all, more, i)
    BY <1>1 DEF HandlesTo, HeldTo, V
  <2> HIDE DEF one, base, all, more
  <2>5. Cardinality(HeldTo(all, more, i)) = Cardinality(HeldTo(one, base, i)) + RefsTo(i, inputs)
    BY <2>2, HandlesGrow
  <2>6. Cardinality(HeldTo(one, base, i)) = 0 /\ RefsTo(i, inputs) \in Nat
    BY <2>3, FS_EmptySet, RefsAre
  <2> QED
    BY <2>4, <2>5, <2>6
<1> QED
  BY <1>5, <1>6 DEF g, HandlesAre

(* A frame that has moved handles away.                                    *)
LEMMA HandlesMoved ==
  ASSUME NEW f, IsFrame(f), NEW c, c.call.env = f.call.env, NEW moved, c.held = f.held \ moved, NEW i
  PROVE  /\ Cardinality(HandlesTo(c, i)) =
              Cardinality(HandlesTo(f, i)) - Cardinality(HandlesTo(f, i) \cap moved)
         /\ Cardinality(HandlesTo(f, i) \cap moved) \in Nat
         /\ Cardinality(HandlesTo(f, i) \cap moved) <= Cardinality(HandlesTo(f, i))
         /\ Cardinality(HandlesTo(f, i) \cap moved) = 0 <=> HandlesTo(f, i) \cap moved = {}
<1> DEFINE H == HandlesTo(f, i)
<1>1. IsFiniteSet(H)
  BY HandlesFew
<1>2. HandlesTo(c, i) = H \ moved
  BY DEF HandlesTo
<1> HIDE DEF H
<1>3. Cardinality(H \ moved) = Cardinality(H) - Cardinality(H \cap moved)
  BY <1>1, FS_Difference
<1>4. IsFiniteSet(H \cap moved) /\ Cardinality(H \cap moved) <= Cardinality(H)
  <2>1. H \cap moved \in SUBSET H
    OBVIOUS
  <2> QED
    BY <1>1, <2>1, FS_Subset
<1>5. Cardinality(H \cap moved) \in Nat /\ (Cardinality(H \cap moved) = 0 <=> H \cap moved = {})
  BY <1>4, FS_CardinalityType, FS_EmptySet
<1> QED
  BY <1>2, <1>3, <1>4, <1>5 DEF H

(* Entering a routine keeps the invariant, whichever handles are moved.    *)
LEMMA EntersRoutineKeeps ==
  ASSUME IInv, prog \in Programs, WellWired(prog), EntersRoutine
  PROVE  IInv'
<1> DEFINE seg    == current_routine + 2
           inputs == InputWires(Top.call, NextCall)
           caller == [Top EXCEPT !.call = Advanced(@)]
           n      == Len(wires)
<1>1. UNCHANGED <<prog, free, work>> /\ Calling("routine")
  BY DEF EntersRoutine, input
<1>2. CASE seg \notin DOMAIN plan
  <2>1. pc' = "panicked" /\ UNCHANGED <<stack, wires>>
    BY <1>2 DEF EntersRoutine
  <2> QED
    BY <1>1, <2>1, Unmoved
<1>3. CASE seg \in DOMAIN plan
  <2>1. PICK moved \in SUBSET
               ((Reads(NextCall) \intersect HeldVirtual(caller)) \ Needed(prog, caller)) :
          /\ stack' = <<NewScope(NextCall.name, inputs, seg),
                        [caller EXCEPT !.held = @ \ moved]>> \o Tail(stack)
          /\ wires' = [i \in DOMAIN wires |->
                         [Referred(wires, inputs)[i] EXCEPT !.refcount =
                            @ - Cardinality(HandlesTo(Top, i) \intersect moved)]]
          /\ UNCHANGED pc
    BY <1>3 DEF EntersRoutine
  <2> DEFINE g == NewScope(NextCall.name, inputs, seg)
             c == [caller EXCEPT !.held = @ \ moved]
  <2>2. /\ pc = "run" /\ work = <<>> /\ stack # <<>> /\ ~AtEnd(prog, Top.call)
        /\ NextCall.kind = "routine"
        /\ Sound(prog, stack, wires, free, work) /\ IsFrame(Top)
        /\ FrameOk(prog, Top, n, 0)
    BY <1>1, KindOf
  <2>3. n \in Nat /\ DOMAIN wires = 1 .. n /\ IsList(wires) /\ SlotsOk(wires) /\ IsList(stack)
        /\ FramesOk(prog, stack, n)
    BY <2>2, SoundIs DEF Sound
  <2>4. /\ IsList(inputs) /\ ReadFrom(Top, inputs)
        /\ \A k \in Reads(NextCall) : \E j \in DOMAIN inputs : inputs[j] = Top.call.env[k]
        /\ \A k \in DOMAIN inputs : Named(inputs[k], n)
        /\ Len(inputs) = Arity(prog, NextCall.name)
        /\ NextCall.name # Main /\ NextCall.name \in Called(prog)
    <3>1. ~AtEnd(prog, Top.call) /\ NextOp(prog, Top.call).kind = "routine"
      BY <2>2 DEF NextCall
    <3> HIDE DEF inputs
    <3>2. HandedOver(prog, Top, n, NextOp(prog, Top.call), InputWires(Top.call, NextOp(prog, Top.call)))
      BY <3>1, <2>2, <2>3, InputsAre
    <3> QED
      BY <3>2 DEF HandedOver, NextCall, inputs
  <2> HIDE DEF inputs, n, seg
  <2>5. /\ FrameOk(prog, g, n, 0) /\ g.call.name = NextCall.name
        /\ \A i : Cardinality(HandlesTo(g, i)) = RefsTo(i, inputs)
    <3> DEFINE name == NextCall.name
    <3>1. /\ name \in Called(prog) /\ IsList(inputs) /\ Len(inputs) = Arity(prog, name)
          /\ n \in Nat /\ \A k \in DOMAIN inputs : Named(inputs[k], n)
      BY <2>3, <2>4
    <3> HIDE DEF name
    <3>2. FrameOk(prog, NewScope(name, inputs, seg), n, 0)
      BY <3>1, ScopeIs
    <3>3. HandlesAre(NewScope(name, inputs, seg), inputs)
      BY <3>1, ScopeIs
    <3>4. Fresh(NewScope(name, inputs, seg), name, inputs)
      BY <3>1, NewScopeIs
    <3>5. NewScope(name, inputs, seg) = g
      BY DEF g, name
    <3>6. FrameOk(prog, g, n, 0) /\ HandlesAre(g, inputs) /\ Fresh(g, name, inputs)
      BY <3>2, <3>3, <3>4, <3>5
    <3> HIDE DEF g
    <3> QED
      BY <3>6 DEF name, HandlesAre, Fresh
  <2> HIDE DEF g
  <2>6. /\ IsFrame(caller) /\ caller.call.name = Top.call.name /\ caller.call.at = Top.call.at + 1
        /\ caller.call.env = Top.call.env /\ caller.held = Top.held
    <3> HIDE DEF caller
    <3>1. MovesOn(Top, [Top EXCEPT !.call = Advanced(@)])
      BY <2>2, AdvancedIs
    <3> QED
      BY <3>1 DEF MovesOn, caller
  <2> HIDE DEF caller
  <2>7. /\ IsFrame(c) /\ c.call = caller.call /\ c.held = Top.held \ moved
        /\ c.call.name = Top.call.name /\ c.call.at = Top.call.at + 1 /\ c.call.env = Top.call.env
    BY <2>6 DEF IsFrame
  <2> HIDE DEF c
  <2>8. Needed(prog, c) = Needed(prog, caller)
    BY <2>7 DEF Needed
  <2>9. FrameOk(prog, c, n, Len(prog[NextCall.name].outs))
    <3> DEFINE b == Len(prog[NextCall.name].outs)
    <3>1. /\ Top.call.at \in 1 .. Len(OpsOf(prog, Top.call.name))
          /\ Len(OpsOf(prog, Top.call.name)) \in Nat
          /\ Len(Top.call.env) + Binds(prog, NextOp(prog, Top.call)) =
               WiresBefore(prog, Top.call.name)[Top.call.at + 1]
      BY <2>2, ReadsAreHeld
    <3>2. Binds(prog, NextOp(prog, Top.call)) = b
      BY <2>2 DEF Binds, NextCall
    <3>3. Needed(prog, c) \subseteq Needed(prog, Top)
      <4> DEFINE f == Top
      <4>1. f.call.at \in Nat /\ Len(OpsOf(prog, f.call.name)) \in Nat
            /\ c.call.name = f.call.name /\ c.call.at = f.call.at + 1
        BY <2>7, <3>1
      <4> HIDE DEF f
      <4>2. Needed(prog, c) \subseteq Needed(prog, f)
        BY <4>1, NeededShrinks, Zenon
      <4> QED
        BY <4>2 DEF f
    <3>4. /\ Needed(prog, Top) \intersect DOMAIN Top.call.env \subseteq Top.held
          /\ \A k \in DOMAIN Top.call.env : Named(Top.call.env[k], n)
          /\ Top.call.name \in Called(prog)
      BY <2>2 DEF FrameOk
    <3>5. Needed(prog, c) \intersect DOMAIN c.call.env \subseteq c.held
      BY <2>7, <2>8, <3>3, <3>4
    <3>6. c.call.at \in 1 .. Len(OpsOf(prog, c.call.name)) + 1
      BY <2>7, <3>1
    <3>7. Len(c.call.env) + b = WiresBefore(prog, c.call.name)[c.call.at]
      BY <2>7, <3>1, <3>2
    <3>8. \A k \in DOMAIN c.call.env : Named(c.call.env[k], n)
      BY <2>7, <3>4
    <3>9. c.call.name \in Called(prog) /\ IsFrame(c)
      BY <2>7, <3>4
    <3> HIDE DEF b
    <3>10. FrameOk(prog, c, n, b)
      BY <3>5, <3>6, <3>7, <3>8, <3>9 DEF FrameOk
    <3> QED
      BY <3>10 DEF b
  <2>10. stack' = <<g, c>> \o Tail(stack)
    BY <2>1 DEF g, c
  <2>11. /\ IsList(stack') /\ FramesOk(prog, stack', n)
         /\ \A i : HandleCount(stack', i) =
                Cardinality(HandlesTo(g, i)) + (Cardinality(HandlesTo(c, i)) + HandleCount(Tail(stack), i))
    <3>1. c.call.name = stack[1].call.name
      BY <2>7 DEF Top
    <3>2. g.call.name # Main /\ FrameOk(prog, c, n, Len(prog[g.call.name].outs))
      BY <2>4, <2>5, <2>9
    <3>3. /\ IsList(<<g, c>> \o Tail(stack))
          /\ FramesOk(prog, <<g, c>> \o Tail(stack), n)
          /\ \A i : HandleCount(<<g, c>> \o Tail(stack), i) =
               Cardinality(HandlesTo(g, i)) + (Cardinality(HandlesTo(c, i)) + HandleCount(Tail(stack), i))
      BY <2>2, <2>3, <2>5, <3>1, <3>2, FramesPushed
    <3> QED
      BY <2>10, <3>3
  <2>12. ReadFrom(stack[1], inputs)
    BY <2>4 DEF Top
  <2>13. /\ \A i : RefsTo(i, inputs) \in Nat
         /\ \A i \in DOMAIN wires : RefsTo(i, inputs) # 0 => wires[i].refcount >= 1
    BY <2>2, <2>4, <2>12, ReadsAreAlive
  <2>14. \A i : /\ Cardinality(HandlesTo(c, i)) =
                     Cardinality(HandlesTo(Top, i)) - Cardinality(HandlesTo(Top, i) \cap moved)
                /\ Cardinality(HandlesTo(Top, i) \cap moved) \in Nat
                /\ Cardinality(HandlesTo(Top, i) \cap moved) <= Cardinality(HandlesTo(Top, i))
                /\ RefsTo(i, inputs) = 0 => Cardinality(HandlesTo(Top, i) \cap moved) = 0
    <3> SUFFICES ASSUME NEW i
                 PROVE  /\ Cardinality(HandlesTo(c, i)) =
                             Cardinality(HandlesTo(Top, i)) - Cardinality(HandlesTo(Top, i) \cap moved)
                        /\ Cardinality(HandlesTo(Top, i) \cap moved) \in Nat
                        /\ Cardinality(HandlesTo(Top, i) \cap moved) <= Cardinality(HandlesTo(Top, i))
                        /\ RefsTo(i, inputs) = 0 => Cardinality(HandlesTo(Top, i) \cap moved) = 0
      OBVIOUS
    <3>1. /\ Cardinality(HandlesTo(c, i)) =
               Cardinality(HandlesTo(Top, i)) - Cardinality(HandlesTo(Top, i) \cap moved)
          /\ Cardinality(HandlesTo(Top, i) \cap moved) \in Nat
          /\ Cardinality(HandlesTo(Top, i) \cap moved) <= Cardinality(HandlesTo(Top, i))
          /\ Cardinality(HandlesTo(Top, i) \cap moved) = 0 <=> HandlesTo(Top, i) \cap moved = {}
      BY <2>2, <2>7, HandlesMoved
    <3>2. ASSUME RefsTo(i, inputs) = 0, NEW k \in HandlesTo(Top, i) \cap moved PROVE FALSE
      <4>1. k \in Reads(NextCall) /\ Top.call.env[k] = V(i)
        BY <3>2 DEF HandlesTo, V
      <4>2. PICK j \in DOMAIN inputs : inputs[j] = V(i)
        BY <4>1, <2>4
      <4>3. RefsTo(i, inputs) # 0
        BY <4>2, <2>4, RefsAre
      <4> QED
        BY <3>2, <4>3
    <3> QED
      BY <3>1, <3>2
  <2>15. \A i : /\ HandleCount(stack, i) = Cardinality(HandlesTo(Top, i)) + HandleCount(Tail(stack), i)
                /\ Cardinality(HandlesTo(Top, i)) \in Nat /\ HandleCount(Tail(stack), i) \in Nat
    BY <2>2, SoundTop DEF Top
  <2> DEFINE ref == Referred(wires, inputs)
             gone == [i \in DOMAIN wires |->
                        ref[i].refcount - Cardinality(HandlesTo(Top, i) \cap moved)]
  <2>16. /\ SameTerms(wires, ref) /\ DOMAIN ref = DOMAIN wires
         /\ SlotsOk(ref) /\ IsList(ref)
         /\ \A i \in DOMAIN wires : ref[i].refcount = wires[i].refcount + RefsTo(i, inputs)
                                    /\ ref[i].value = wires[i].value
                                    /\ ref[i].terms = wires[i].terms
    BY <2>3, ReferredIs DEF SameTerms
  <2>17. Recounted(ref, wires', gone)
    <3>1. wires' = [i \in DOMAIN wires |->
                     [ref[i] EXCEPT !.refcount = @ - Cardinality(HandlesTo(Top, i) \cap moved)]]
      BY <2>1
    <3>2. \A i \in DOMAIN wires : gone[i] = ref[i].refcount - Cardinality(HandlesTo(Top, i) \cap moved)
      OBVIOUS
    <3> HIDE DEF ref, gone
    <3>3. DOMAIN wires' = DOMAIN ref /\ wires' = [i \in DOMAIN wires' |-> wires'[i]]
      BY <3>1, <2>16
    <3>4. ASSUME NEW i \in DOMAIN ref PROVE wires'[i] = [ref[i] EXCEPT !.refcount = gone[i]]
      <4>1. wires'[i] = [ref[i] EXCEPT !.refcount = @ - Cardinality(HandlesTo(Top, i) \cap moved)]
        BY <3>1, <2>16
      <4> QED
        BY <4>1, <3>2, <2>16
    <3> QED
      BY <3>3, <3>4 DEF Recounted
  <2>18. /\ SameTerms(wires, wires')
         /\ \A i \in DOMAIN wires :
              /\ wires'[i].value = wires[i].value
              /\ wires'[i].refcount = (wires[i].refcount + RefsTo(i, inputs))
                                        - Cardinality(HandlesTo(Top, i) \cap moved)
    <3>1. \A i \in DOMAIN wires : gone[i] = ref[i].refcount - Cardinality(HandlesTo(Top, i) \cap moved)
      OBVIOUS
    <3> HIDE DEF ref, gone
    <3>2. /\ SameTerms(ref, wires')
          /\ \A i \in DOMAIN ref : wires'[i].refcount = gone[i] /\ wires'[i].value = ref[i].value
      BY <2>16, <2>17, RecountedIs
    <3>3. SameTerms(wires, wires')
      BY <3>2, <2>16 DEF SameTerms
    <3> QED
      BY <3>1, <3>2, <3>3, <2>16
  <2> HIDE DEF RefsTo
  <2>19. \A i \in DOMAIN wires :
           /\ wires'[i].value = wires[i].value
           /\ wires'[i].refcount = HandleCount(stack', i) + NameCount(wires, i) + DrainCount(work, i)
           /\ wires'[i].refcount = 0 <=> wires[i].refcount = 0
    <3> SUFFICES ASSUME NEW i \in DOMAIN wires
                 PROVE  /\ wires'[i].value = wires[i].value
                        /\ wires'[i].refcount = HandleCount(stack', i) + NameCount(wires, i) + DrainCount(work, i)
                        /\ wires'[i].refcount = 0 <=> wires[i].refcount = 0
      OBVIOUS
    <3> DEFINE ht == Cardinality(HandlesTo(Top, i))
               hm == Cardinality(HandlesTo(Top, i) \cap moved)
               hr == HandleCount(Tail(stack), i)
               nn == NameCount(wires, i)
               dd == DrainCount(work, i)
               rr == RefsTo(i, inputs)
    <3>1. wires[i].refcount = (ht + hr) + nn + dd /\ nn \in Nat /\ dd \in Nat
      BY <2>2, <2>15, SoundIs
    <3>2. HandleCount(stack', i) = rr + ((ht - hm) + hr)
      BY <2>5, <2>11, <2>14
    <3>3. /\ ht \in Nat /\ hm \in Nat /\ hm <= ht /\ hr \in Nat /\ rr \in Nat /\ (rr = 0 => hm = 0)
          /\ (rr # 0 => wires[i].refcount >= 1)
      BY <2>13, <2>14, <2>15
    <3>4. wires'[i].refcount = (wires[i].refcount + rr) - hm /\ wires'[i].value = wires[i].value
      BY <2>18
    <3> HIDE DEF ht, hm, hr, nn, dd, rr
    <3>5. wires'[i].refcount = HandleCount(stack', i) + nn + dd
      BY <3>1, <3>2, <3>3, <3>4
    <3>6. wires'[i].refcount = 0 <=> wires[i].refcount = 0
      BY <3>1, <3>3, <3>4
    <3> QED
      BY <3>4, <3>5, <3>6 DEF nn, dd
  <2>20. Sound(prog, stack', wires', free, work)
    <3>1. FramesOk(prog, stack', Len(wires))
      BY <2>11 DEF n
    <3> QED
      BY <2>2, <2>11, <2>18, <2>19, <3>1, CountedAnew
  <2>21. stack' # <<>>
    <3>1. IsList(Tail(stack)) /\ IsList(<<g, c>>) /\ Len(<<g, c>>) = 2
      <4>1. <<g, c>> \in Seq({g, c})
        OBVIOUS
      <4> QED
        BY <4>1, <2>2, <2>3, Popped, ListOf
    <3>2. Len(stack') = 2 + Len(Tail(stack)) /\ Len(Tail(stack)) \in Nat
      BY <2>10, <3>1, Joined, ListIs
    <3>3. Len(stack') # 0
      BY <3>2
    <3> QED
      BY <3>3, <2>11, ListIs
  <2> QED
    BY <1>1, <2>1, <2>2, <2>20, <2>21, Goes
<1> QED
  BY <1>2, <1>3

(* Leaving one keeps it: the callee's handles go, the caller's come.       *)
LEMMA LeavesRoutineKeeps ==
  ASSUME IInv, prog \in Programs, WellWired(prog), LeavesRoutine
  PROVE  IInv'
<1> DEFINE outs   == OutputWires(prog, Top.call)
           size   == Len(stack[2].call.env)
           caller == [stack[2] EXCEPT !.call.env = @ \o outs,
                                      !.held = @ \union (size + 1 .. size + Len(outs))]
           n      == Len(wires)
<1>1. /\ UNCHANGED <<prog, free, work>> /\ pc = "run" /\ work = <<>> /\ AtEnd(prog, Top.call)
      /\ Len(stack) > 1 /\ HeldVirtual(Top) \subseteq Needed(prog, Top)
  BY DEF LeavesRoutine, input
<1>2. CASE ~Filled(plan, Top)
  <2>1. pc' = "panicked" /\ UNCHANGED <<stack, wires>>
    BY <1>2 DEF LeavesRoutine
  <2> QED
    BY <1>1, <2>1, Unmoved
<1>3. CASE Filled(plan, Top)
  <2>1. /\ stack' = <<caller>> \o Tail(Tail(stack))
        /\ wires' = [i \in DOMAIN wires |->
                       [wires[i] EXCEPT !.refcount =
                          @ + RefsTo(i, outs) - Cardinality(HandlesTo(Top, i))]]
        /\ UNCHANGED pc
    BY <1>3 DEF LeavesRoutine
  <2>2. /\ stack # <<>> /\ Sound(prog, stack, wires, free, work)
        /\ IsList(stack) /\ FramesOk(prog, stack, n) /\ FrameOk(prog, Top, n, 0) /\ IsFrame(Top)
        /\ n \in Nat /\ DOMAIN wires = 1 .. n /\ IsList(wires) /\ SlotsOk(wires)
    BY <1>1, RunningIs, SoundTop, SoundIs DEF Top, Sound
  <2>3. Top.call.name # Main /\ DOMAIN stack = 1 .. Len(stack) /\ Len(stack) \in Nat
    BY <1>1, <2>2, TopIs DEF Top
  <2> DEFINE places == prog[Top.call.name].outs
  <2>4. /\ IsList(places)
        /\ \A k \in DOMAIN places : places[k] \in DOMAIN Top.call.env /\ places[k] \in Top.held
        /\ Needed(prog, Top) = { places[k] : k \in DOMAIN places }
    BY <1>1, <2>2, <2>3, OutsAreHeld
  <2>5. /\ IsList(outs) /\ DOMAIN outs = DOMAIN places /\ Len(outs) = Len(places)
        /\ \A k \in DOMAIN places : outs[k] = Top.call.env[places[k]]
    <3>1. outs = [k \in DOMAIN places |-> Top.call.env[places[k]]]
      BY DEF OutputWires
    <3>2. Len(places) \in Nat /\ DOMAIN places = 1 .. Len(places)
      BY <2>4, ListIs
    <3> HIDE DEF places, outs
    <3>3. outs \in Seq(Range(outs)) /\ Len(outs) = Len(places)
      BY <3>1, <3>2 DEF Range
    <3> QED
      BY <3>1, <3>3 DEF IsList
  <2> HIDE DEF outs, n, places
  <2>6. ReadFrom(Top, outs)
    BY <2>4, <2>5 DEF ReadFrom
  <2>7. \A i : RefsTo(i, outs) \in Nat /\ (RefsTo(i, outs) = 0 => Cardinality(HandlesTo(Top, i)) = 0)
    <3> SUFFICES ASSUME NEW i
                 PROVE  RefsTo(i, outs) \in Nat /\ (RefsTo(i, outs) = 0 => Cardinality(HandlesTo(Top, i)) = 0)
      OBVIOUS
    <3>1. RefsTo(i, outs) \in Nat /\ (RefsTo(i, outs) = 0 <=> \A k \in DOMAIN outs : outs[k] # V(i))
      BY <2>5, RefsAre
    <3>2. ASSUME NEW k \in HandlesTo(Top, i) PROVE \E j \in DOMAIN outs : outs[j] = V(i)
      <4>1. k \in HeldVirtual(Top) /\ Top.call.env[k] = V(i)
        BY <3>2 DEF HandlesTo, HeldVirtual, IsVirtual, V
      <4> QED
        BY <4>1, <1>1, <2>4, <2>5
    <3>3. Cardinality(HandlesTo(Top, i)) = 0 <=> HandlesTo(Top, i) = {}
      BY <2>2, HandlesFew
    <3> QED
      BY <3>1, <3>2, <3>3
  <2>8. FrameOk(prog, stack[2], n, Len(places))
    <3>1. 2 \in DOMAIN stack /\ 2 - 1 = 1
      BY <1>1, <2>3
    <3>2. Awaited(prog, stack, 2) = Len(places)
      BY DEF Awaited, Top, places
    <3>3. FrameOk(prog, stack[2], n, Awaited(prog, stack, 2))
      BY <2>2, <3>1 DEF FramesOk
    <3> QED
      BY <3>2, <3>3
  <2> DEFINE f == stack[2]
  <2>9. /\ IsFrame(f) /\ IsList(f.call.env) /\ size \in Nat /\ DOMAIN f.call.env = 1 .. size
        /\ f.held \subseteq 1 .. size /\ Len(outs) \in Nat
    BY <2>5, <2>8, ListIs DEF FrameOk, IsFrame
  <2>10. /\ IsFrame(caller) /\ caller.call.name = f.call.name /\ caller.call.at = f.call.at
         /\ caller.call.env = f.call.env \o outs
         /\ caller.held = f.held \union (size + 1 .. size + Len(outs))
    <3> DEFINE h == f.held \union (size + 1 .. size + Len(outs))
               e == f.call.env \o outs
    <3>1. IsList(e) /\ DOMAIN e = 1 .. size + Len(outs)
      BY <2>5, <2>9, Joined
    <3>2. h \subseteq 1 .. size + Len(outs)
      BY <2>9
    <3>3. caller = [f EXCEPT !.call.env = e, !.held = h]
      OBVIOUS
    <3> HIDE DEF e, h, f, size
    <3>4. /\ DOMAIN f = {"call", "held", "seg", "gates", "constraints", "current_y"}
          /\ DOMAIN f.call = {"name", "at", "extras", "env"}
      BY <2>9 DEF IsFrame
    <3> DEFINE d == [f EXCEPT !.call.env = e, !.held = h]
    <3>5. /\ DOMAIN d = DOMAIN f /\ DOMAIN d.call = DOMAIN f.call
          /\ d.call.name = f.call.name /\ d.call.at = f.call.at
          /\ d.call.env = e /\ d.held = h
      BY <3>4
    <3> HIDE DEF d
    <3>6. IsFrame(d)
      BY <3>1, <3>2, <3>4, <3>5 DEF IsFrame
    <3> QED
      BY <3>3, <3>5, <3>6 DEF d, e, h
  <2> HIDE DEF caller
  <2>11. FrameOk(prog, caller, n, 0)
    <3>1. f.call.at \in 1 .. Len(OpsOf(prog, f.call.name)) + 1
          /\ Len(f.call.env) + Len(places) = WiresBefore(prog, f.call.name)[f.call.at]
      BY <2>8 DEF FrameOk
    <3>2. Needed(prog, caller) = Needed(prog, f)
      BY <2>10 DEF Needed
    <3> DEFINE c == caller
               awaited == Len(places)
    <3> HIDE DEF f, size, c, awaited
    <3>3. FrameOk(prog, f, n, awaited) /\ n \in Nat /\ n <= n /\ IsFrame(c) /\ IsList(outs)
      BY <2>2, <2>5, <2>8, <2>10 DEF c, f, awaited
    <3>4. c.call.name = f.call.name /\ c.call.env = f.call.env \o outs
          /\ c.call.at \in 1 .. Len(OpsOf(prog, c.call.name)) + 1
      BY <2>10, <3>1 DEF c
    <3>5. Len(f.call.env) + Len(outs) + 0 = WiresBefore(prog, c.call.name)[c.call.at]
      BY <2>5, <2>9, <2>10, <3>1 DEF c, size
    <3>6. Needed(prog, c) \subseteq Needed(prog, f)
      BY <3>2 DEF c
    <3>7. /\ \A k \in Needed(prog, c) : k \in f.held => k \in c.held
          /\ Len(f.call.env) + 1 .. Len(f.call.env) + Len(outs) \subseteq c.held
      BY <2>10 DEF c, size, f
    <3>8. \A k \in DOMAIN outs : Named(outs[k], n)
      BY <2>2, <2>4, <2>5 DEF FrameOk
    <3>9. FrameOk(prog, c, n, 0)
      BY <3>3, <3>4, <3>5, <3>6, <3>7, <3>8, FrameGrows
    <3> QED
      BY <3>9 DEF c
  <2>12. /\ IsList(stack') /\ stack' # <<>> /\ FramesOk(prog, stack', n)
         /\ \A i : HandleCount(stack', i) =
                     Cardinality(HandlesTo(caller, i)) + HandleCount(Tail(Tail(stack)), i)
    <3>1. caller.call.name = stack[2].call.name
      BY <2>10
    <3> DEFINE c == caller
    <3>2. stack' = <<c>> \o Tail(Tail(stack)) /\ FrameOk(prog, c, n, 0) /\ c.call.name = stack[2].call.name
      BY <2>1, <2>11, <3>1 DEF caller
    <3> HIDE DEF c
    <3>3. /\ IsList(<<c>> \o Tail(Tail(stack)))
          /\ <<c>> \o Tail(Tail(stack)) # <<>>
          /\ FramesOk(prog, <<c>> \o Tail(Tail(stack)), n)
          /\ \A i : HandleCount(<<c>> \o Tail(Tail(stack)), i) =
                      Cardinality(HandlesTo(c, i)) + HandleCount(Tail(Tail(stack)), i)
      BY <1>1, <2>2, <3>2, FramesPopped, ZenonT(40)
    <3> QED
      BY <3>2, <3>3 DEF c
  <2>13. \A i : /\ HandleCount(stack, i) = Cardinality(HandlesTo(Top, i))
                     + (Cardinality(HandlesTo(f, i)) + HandleCount(Tail(Tail(stack)), i))
                /\ Cardinality(HandlesTo(Top, i)) \in Nat
                /\ Cardinality(HandlesTo(f, i)) \in Nat /\ HandleCount(Tail(Tail(stack)), i) \in Nat
    <3>1. /\ IsList(Tail(stack)) /\ Tail(stack) # <<>> /\ AllFrames(Tail(stack)) /\ Tail(stack)[1] = f
      <4>1. IsList(Tail(stack)) /\ Len(Tail(stack)) = Len(stack) - 1
            /\ \A k \in 1 .. Len(Tail(stack)) : Tail(stack)[k] = stack[k + 1]
        BY <2>2, Popped
      <4>2. 1 \in 1 .. Len(Tail(stack)) /\ Len(Tail(stack)) # 0
        BY <4>1, <1>1, <2>3
      <4>3. AllFrames(stack)
        BY <2>2, SoundIs
      <4>4. AllFrames(Tail(stack))
        BY <2>2, <4>3, HandlesOnTop
      <4>5. Tail(stack)[1] = f
        BY <4>1, <4>2
      <4>6. Tail(stack) # <<>>
        BY <4>1, <4>2, ListIs
      <4> QED
        BY <4>1, <4>4, <4>5, <4>6
    <3> DEFINE t == Tail(stack)
    <3> HIDE DEF t, f
    <3>2. IsList(t) /\ t # <<>> /\ AllFrames(t) /\ t[1] = f
      BY <3>1 DEF t
    <3>3. AllFrames(Tail(t)) /\ IsList(Tail(t))
          /\ \A i : HandleCount(t, i) = Cardinality(HandlesTo(t[1], i)) + HandleCount(Tail(t), i)
      BY <3>2, HandlesOnTop, Popped
    <3>4. \A i : HandleCount(Tail(t), i) \in Nat
      BY <3>3, HandleSheets
    <3>5. \A i : Cardinality(HandlesTo(f, i)) \in Nat
      BY <2>9, HandlesFew DEF f
    <3>6. \A i : /\ HandleCount(stack, i) = Cardinality(HandlesTo(Top, i)) + HandleCount(t, i)
                 /\ Cardinality(HandlesTo(Top, i)) \in Nat
      BY <2>2, SoundTop DEF Top, t
    <3> QED
      BY <3>2, <3>3, <3>4, <3>5, <3>6 DEF t
  <2>14. \A i : Cardinality(HandlesTo(caller, i)) = Cardinality(HandlesTo(f, i)) + RefsTo(i, outs)
    <3> SUFFICES ASSUME NEW i
                 PROVE  Cardinality(HandlesTo(caller, i)) = Cardinality(HandlesTo(f, i)) + RefsTo(i, outs)
      OBVIOUS
    <3>1. Widened(f.call.env, f.held, caller.call.env, caller.held, outs)
      BY <2>5, <2>9, <2>10 DEF Widened, NewPlaces
    <3>2. /\ HandlesTo(caller, i) = HeldTo(caller.call.env, caller.held, i)
          /\ HandlesTo(f, i) = HeldTo(f.call.env, f.held, i)
      BY DEF HandlesTo, HeldTo, V
    <3> HIDE DEF f
    <3>3. Cardinality(HeldTo(caller.call.env, caller.held, i))
            = Cardinality(HeldTo(f.call.env, f.held, i)) + RefsTo(i, outs)
      BY <3>1, HandlesGrow
    <3> QED
      BY <3>2, <3>3
  <2> HIDE DEF f
  <2> DEFINE count == [i \in DOMAIN wires |->
                         wires[i].refcount + RefsTo(i, outs) - Cardinality(HandlesTo(Top, i))]
  <2>15. /\ SameTerms(wires, wires')
         /\ \A i \in DOMAIN wires :
              /\ wires'[i].value = wires[i].value
              /\ wires'[i].refcount =
                   wires[i].refcount + RefsTo(i, outs) - Cardinality(HandlesTo(Top, i))
    <3>1. Recounted(wires, wires', count)
      <4>1. \A i \in DOMAIN wires :
              count[i] = wires[i].refcount + RefsTo(i, outs) - Cardinality(HandlesTo(Top, i))
        OBVIOUS
      <4> HIDE DEF count
      <4>2. DOMAIN wires' = DOMAIN wires /\ wires' = [i \in DOMAIN wires' |-> wires'[i]]
        BY <2>1
      <4>3. ASSUME NEW i \in DOMAIN wires PROVE wires'[i] = [wires[i] EXCEPT !.refcount = count[i]]
        <5>1. wires'[i] = [wires[i] EXCEPT !.refcount =
                             @ + RefsTo(i, outs) - Cardinality(HandlesTo(Top, i))]
          BY <2>1
        <5> QED
          BY <5>1, <4>1
      <4> QED
        BY <4>2, <4>3 DEF Recounted
    <3>2. \A i \in DOMAIN wires :
            count[i] = wires[i].refcount + RefsTo(i, outs) - Cardinality(HandlesTo(Top, i))
      OBVIOUS
    <3> HIDE DEF count
    <3>3. /\ SameTerms(wires, wires')
          /\ \A i \in DOMAIN wires : wires'[i].refcount = count[i] /\ wires'[i].value = wires[i].value
      BY <2>2, <3>1, RecountedIs
    <3> QED
      BY <3>2, <3>3
  <2> HIDE DEF RefsTo, count
  <2>16. \A i \in DOMAIN wires :
           /\ wires'[i].value = wires[i].value
           /\ wires'[i].refcount = HandleCount(stack', i) + NameCount(wires, i) + DrainCount(work, i)
           /\ wires'[i].refcount = 0 <=> wires[i].refcount = 0
    <3> SUFFICES ASSUME NEW i \in DOMAIN wires
                 PROVE  /\ wires'[i].value = wires[i].value
                        /\ wires'[i].refcount = HandleCount(stack', i) + NameCount(wires, i) + DrainCount(work, i)
                        /\ wires'[i].refcount = 0 <=> wires[i].refcount = 0
      OBVIOUS
    <3> DEFINE ht == Cardinality(HandlesTo(Top, i))
               hf == Cardinality(HandlesTo(f, i))
               hr == HandleCount(Tail(Tail(stack)), i)
               nn == NameCount(wires, i)
               dd == DrainCount(work, i)
               rr == RefsTo(i, outs)
    <3>1. wires[i].refcount = (ht + (hf + hr)) + nn + dd /\ nn \in Nat /\ dd \in Nat
      BY <2>2, <2>13, SoundIs, SMTT(30)
    <3>2. HandleCount(stack', i) = (hf + rr) + hr
      BY <2>12, <2>14
    <3>3. ht \in Nat /\ hf \in Nat /\ hr \in Nat /\ rr \in Nat /\ (rr = 0 => ht = 0)
      BY <2>7, <2>13
    <3>4. wires'[i].refcount = wires[i].refcount + rr - ht /\ wires'[i].value = wires[i].value
      BY <2>15
    <3> HIDE DEF ht, hf, hr, nn, dd, rr
    <3>5. wires'[i].refcount = HandleCount(stack', i) + nn + dd
      BY <3>1, <3>2, <3>3, <3>4
    <3>6. wires'[i].refcount = 0 => wires[i].refcount = 0
      BY <3>1, <3>3, <3>4
    <3>7. wires[i].refcount = 0 => wires'[i].refcount = 0
      <4> SUFFICES ASSUME wires[i].refcount = 0 PROVE rr = 0
        BY <3>1, <3>3, <3>4
      <4>1. RefsTo(i, outs) # 0 => wires[i].refcount >= 1
        <5>1. ReadFrom(stack[1], outs)
          BY <2>6 DEF Top
        <5> QED
          BY <5>1, <2>2, <2>5, ReadsAreAlive
      <4> QED
        BY <4>1 DEF rr
    <3> QED
      BY <3>4, <3>5, <3>6, <3>7 DEF nn, dd
  <2>17. Sound(prog, stack', wires', free, work)
    <3>1. FramesOk(prog, stack', Len(wires))
      BY <2>12 DEF n
    <3> QED
      BY <2>2, <2>12, <2>15, <2>16, <3>1, CountedAnew
  <2> QED
    BY <1>1, <2>1, <2>12, <2>17, Goes
<1> QED
  BY <1>2, <1>3

(* The end of the circuit keeps it: the frame holds no virtual wire.       *)
LEMMA FinishesKeeps ==
  ASSUME IInv, prog \in Programs, WellWired(prog), Finishes
  PROVE  IInv'
<1>1. /\ UNCHANGED <<prog, wires, free, work>> /\ pc = "run" /\ Len(stack) = 1
      /\ HeldVirtual(Top) = {} /\ stack' = <<>> /\ pc' \notin {"idle", "run"}
  BY DEF Finishes, input, table
<1>2. stack # <<>> /\ Sound(prog, stack, wires, free, work) /\ IsList(stack)
  BY <1>1, RunningIs DEF Sound
<1>3. Tail(stack) = <<>>
  <2>1. IsList(Tail(stack)) /\ Len(Tail(stack)) = Len(stack) - 1
    BY <1>2, Popped
  <2>2. Len(Tail(stack)) = 0
    BY <2>1, <1>1
  <2> QED
    BY <2>1, <2>2, ListIs
<1>4. \A i : HandleCount(stack, i) = 0
  <2> SUFFICES ASSUME NEW i PROVE HandleCount(stack, i) = 0
    OBVIOUS
  <2>1. HandleCount(stack, i) = Cardinality(HandlesTo(stack[1], i)) + HandleCount(Tail(stack), i)
    BY <1>2, SoundTop
  <2>2. HandlesTo(stack[1], i) = {}
    BY <1>1 DEF HandlesTo, HeldVirtual, IsVirtual, Top
  <2>3. Cardinality(HandlesTo(stack[1], i)) = 0 /\ HandleCount(Tail(stack), i) = 0
    BY <2>2, <1>3, FS_EmptySet, NoHandles
  <2> QED
    BY <2>1, <2>3
<1>5. Exact(stack', wires, work)
  BY <1>1, <1>2, <1>4, NoHandles DEF Sound, Exact
<1>6. FramesOk(prog, stack', Len(wires)) /\ IsList(stack')
  BY <1>1, NoItems DEF FramesOk
<1>7. Sound(prog, stack', wires, free, work)
  BY <1>2, <1>5, <1>6 DEF Sound
<1> QED
  BY <1>1, <1>7 DEF IInv

(* The short cut at y = 0 keeps the invariant.                             *)
LEMMA StartsAtZeroKeeps ==
  ASSUME IInv, StartsAtZero
  PROVE  IInv'
<1>1. UNCHANGED <<prog, stack, wires, free, work>> /\ pc' \notin {"idle", "run"}
  BY DEF StartsAtZero, input
<1> QED
  BY <1>1, Unmoved

(* The first frame is sound.                                               *)
LEMMA StartsKeeps ==
  ASSUME IInv, prog \in Programs, WellWired(prog), Starts
  PROVE  IInv'
<1> DEFINE none == <<>>
           h == NewScope(Main, none, 1)
           g == [h EXCEPT !.gates = @ + 1]
<1>1. /\ UNCHANGED <<prog, wires, free, work>> /\ pc = "idle" /\ stack' = <<g>>
      /\ pc' # "idle"
  BY DEF Starts, input
<1>2. stack = <<>> /\ wires = <<>> /\ free = <<>> /\ work = <<>>
  BY <1>1 DEF IInv
<1>3. IsList(none) /\ Len(none) = 0 /\ DOMAIN none = {}
  BY NoItems
<1>4. Main \in Called(prog) /\ Len(none) = Arity(prog, Main)
  BY <1>3, CircuitAssumption DEF Called, WellWired, Arity
<1> HIDE DEF none
<1>5. FrameOk(prog, h, 0, 0)
  <2>1. \A k \in DOMAIN none : Named(none[k], 0)
    BY <1>3
  <2> QED
    BY <2>1, <1>3, <1>4, ScopeIs
<1> HIDE DEF h
<1>6. FrameOk(prog, g, 0, 0)
  <2>1. IsFrame(h)
    BY <1>5 DEF FrameOk
  <2>2. DOMAIN g = DOMAIN h /\ g.call = h.call /\ g.held = h.held
    BY <2>1 DEF IsFrame
  <2> HIDE DEF g
  <2>3. IsFrame(g)
    BY <2>1, <2>2 DEF IsFrame
  <2>4. Needed(prog, g) = Needed(prog, h)
    BY <2>2 DEF Needed
  <2> QED
    BY <2>2, <2>3, <2>4, <1>5 DEF FrameOk
<1> HIDE DEF g
<1>7. IsList(stack') /\ Len(stack') = 1 /\ stack'[1] = g /\ DOMAIN stack' = {1}
  <2>1. IsList(stack') /\ Len(stack') = 1 /\ stack'[1] = g
    BY <1>1, Single
  <2>2. DOMAIN stack' = 1 .. 1
    BY <2>1, ListIs
  <2> QED
    BY <2>1, <2>2
<1>8. FramesOk(prog, stack', Len(wires))
  <2>1. Len(wires) = 0
    BY <1>2
  <2> QED
    BY <2>1, <1>6, <1>7 DEF FramesOk, Awaited
<1>9. /\ SlotsOk(wires) /\ ItemsOk(work, wires) /\ FreeOk(free, wires, work)
      /\ Exact(stack', wires, work)
      /\ IsList(wires) /\ IsList(free) /\ IsList(work)
  BY <1>2, NoItems DEF SlotsOk, ItemsOk, FreeOk, Exact
<1>10. Sound(prog, stack', wires', free', work')
  BY <1>1, <1>7, <1>8, <1>9 DEF Sound
<1>11. stack' # <<>>
  BY <1>7, ListIs
<1> QED
  BY <1>1, <1>10, <1>11, Goes

(* A dropped handle becomes a drained reference.                           *)
LEMMA DropsKeeps ==
  ASSUME IInv, prog \in Programs, WellWired(prog), Drops
  PROVE  IInv'
<1> DEFINE n == Len(wires)
<1>1. UNCHANGED <<prog, wires, free>> /\ pc = "run" /\ work = <<>>
  BY DEF Drops, input
<1>2. PICK k \in HeldVirtual(Top) \ Needed(prog, Top) :
        /\ Go([Top EXCEPT !.held = @ \ {k}])
        /\ work' = <<Give(Top.call.env[k], 0)>>
  BY DEF Drops
<1> DEFINE g == [Top EXCEPT !.held = @ \ {k}]
           e == Give(Top.call.env[k], 0)
<1>3. /\ stack # <<>> /\ Sound(prog, stack, wires, free, work)
      /\ IsList(stack) /\ FramesOk(prog, stack, n) /\ FrameOk(prog, Top, n, 0) /\ IsFrame(Top)
      /\ n \in Nat /\ DOMAIN wires = 1 .. n
  BY <1>1, RunningIs, SoundTop, SoundIs DEF Top
<1>0. PICK moved : moved = {k}
  OBVIOUS
<1>4. /\ IsFrame(g) /\ g.call = Top.call /\ g.held = Top.held \ moved
  BY <1>0, <1>3 DEF IsFrame
<1>5. stack' = Topped(stack, g) /\ pc' = pc
  BY <1>2 DEF Go, Topped
<1> HIDE DEF g, n
<1>6. FrameOk(prog, g, n, 0)
  <2>1. Needed(prog, g) = Needed(prog, Top)
    BY <1>4 DEF Needed
  <2> QED
    BY <2>1, <1>0, <1>2, <1>3, <1>4 DEF FrameOk
<1>7. PICK j \in 1 .. n : Top.call.env[k] = V(j)
  <2>1. k \in DOMAIN Top.call.env /\ IsVirtual(Top.call.env[k])
    BY <1>2, <1>3 DEF HeldVirtual, IsFrame
  <2> QED
    BY <2>1, <1>3 DEF FrameOk, Named
<1>8. /\ IsList(stack') /\ stack' # <<>> /\ FramesOk(prog, stack', n)
      /\ \A i : HandleCount(stack', i) = Cardinality(HandlesTo(g, i)) + HandleCount(Tail(stack), i)
  <2> DEFINE s == stack'
  <2>1. s = Topped(stack, g) /\ g.call.name = stack[1].call.name /\ n <= n
    BY <1>3, <1>4, <1>5 DEF Top
  <2> HIDE DEF s
  <2>2. IsList(stack) /\ stack # <<>> /\ n \in Nat /\ FramesOk(prog, stack, n)
    BY <1>3
  <2>3. IsList(s) /\ s # <<>> /\ FramesOk(prog, s, n)
    BY <2>1, <2>2, <1>6, FramesGo
  <2>4. \A i : HandleCount(s, i) = Cardinality(HandlesTo(g, i)) + HandleCount(Tail(stack), i)
    <3>1. AllFrames(stack)
      BY <2>2, FramesAre
    <3>2. IsList(Tail(stack)) /\ AllFrames(Tail(stack)) /\ s = <<g>> \o Tail(stack)
      BY <2>1, <2>2, <3>1, Popped, HandlesOnTop DEF Topped
    <3>3. \A i : HandleCount(<<g>> \o Tail(stack), i) =
                   Cardinality(HandlesTo(g, i)) + HandleCount(Tail(stack), i)
      BY <1>4, <3>2, HandlesPushed
    <3> QED
      BY <3>2, <3>3
  <2> QED
    BY <2>3, <2>4 DEF s
<1>9. \A i : Cardinality(HandlesTo(g, i)) =
               Cardinality(HandlesTo(Top, i)) - (IF i = j THEN 1 ELSE 0)
  <2> SUFFICES ASSUME NEW i
               PROVE  Cardinality(HandlesTo(g, i)) =
                        Cardinality(HandlesTo(Top, i)) - (IF i = j THEN 1 ELSE 0)
    OBVIOUS
  <2>1. Cardinality(HandlesTo(g, i)) =
          Cardinality(HandlesTo(Top, i)) - Cardinality(HandlesTo(Top, i) \cap moved)
    <3>1. IsFrame(Top) /\ g.call.env = Top.call.env /\ g.held = Top.held \ moved
      BY <1>3, <1>4
    <3>2. /\ Cardinality(HandlesTo(g, i)) =
               Cardinality(HandlesTo(Top, i)) - Cardinality(HandlesTo(Top, i) \cap moved)
          /\ Cardinality(HandlesTo(Top, i) \cap moved) \in Nat
          /\ Cardinality(HandlesTo(Top, i) \cap moved) <= Cardinality(HandlesTo(Top, i))
          /\ Cardinality(HandlesTo(Top, i) \cap moved) = 0 <=> HandlesTo(Top, i) \cap moved = {}
      BY <3>1, HandlesMoved
    <3> QED
      BY <3>2
  <2>2. HandlesTo(Top, i) \cap moved = IF i = j THEN {k} ELSE {}
    BY <1>0, <1>2, <1>7 DEF HandlesTo, HeldVirtual, V
  <2>3. Cardinality(HandlesTo(Top, i) \cap moved) = IF i = j THEN 1 ELSE 0
    BY <2>2, FS_EmptySet, FS_Singleton
  <2> QED
    BY <2>1, <2>3
<1>10. /\ IsList(work') /\ DOMAIN work' = {1} /\ work'[1] = e
       /\ e.kind = "give" /\ e.wire = V(j)
       /\ \A i : DrainCount(work', i) = IF i = j THEN 1 ELSE 0
  <2>1. e.kind = "give" /\ e.wire = V(j) /\ work' = <<e>>
    BY <1>2, <1>7 DEF Give
  <2> HIDE DEF e
  <2>2. IsList(work') /\ Len(work') = 1 /\ work'[1] = e
    BY <2>1, Single
  <2>3. DOMAIN work' = 1 .. 1
    BY <2>2, ListIs
  <2>4. \A i : DrainCount(<<e>>, i) = IF e.kind = "give" /\ e.wire = V(i) THEN 1 ELSE 0
    BY DrainedOne
  <2>5. \A i : V(j) = V(i) <=> i = j
    BY DEF V
  <2> QED
    BY <2>1, <2>2, <2>3, <2>4, <2>5
<1> HIDE DEF e
<1>11. Exact(stack', wires, work')
  <2> SUFFICES ASSUME NEW i \in DOMAIN wires
               PROVE  wires[i].refcount =
                        HandleCount(stack', i) + NameCount(wires, i) + DrainCount(work', i)
    BY DEF Exact
  <2> DEFINE ht == Cardinality(HandlesTo(Top, i))
             hr == HandleCount(Tail(stack), i)
             nn == NameCount(wires, i)
  <2>1. /\ wires[i].refcount = (ht + hr) + nn + 0 /\ ht \in Nat /\ hr \in Nat /\ nn \in Nat
    BY <1>1, <1>3, SoundIs, SoundTop, NoItems DEF Top
  <2>2. HandleCount(stack', i) = (ht - (IF i = j THEN 1 ELSE 0)) + hr
    BY <1>8, <1>9
  <2>3. DrainCount(work', i) = IF i = j THEN 1 ELSE 0
    BY <1>10
  <2> HIDE DEF ht, hr, nn
  <2>4. wires[i].refcount = HandleCount(stack', i) + nn + DrainCount(work', i)
    <3>1. CASE i = j
      BY <3>1, <2>1, <2>2, <2>3
    <3>2. CASE i # j
      BY <3>2, <2>1, <2>2, <2>3
    <3> QED
      BY <3>1, <3>2
  <2> QED
    BY <2>4 DEF nn
<1>12. \A i : ~Retiring(work', i)
  BY <1>10 DEF Retiring, Retire
<1>13. ItemsOk(work', wires)
  <2>1. ItemOk(work'[1], n)
    BY <1>7, <1>10 DEF ItemOk, Named
  <2> QED
    BY <2>1, <1>10, <1>12 DEF ItemsOk, n
<1>14. FreeOk(free, wires, work')
  BY <1>1, <1>3, <1>12, NoItems DEF Sound, FreeOk
<1>15. Sound(prog, stack', wires', free', work')
  BY <1>1, <1>3, <1>8, <1>10, <1>11, <1>13, <1>14 DEF Sound, n
<1> QED
  BY <1>1, <1>5, <1>8, <1>15, Goes
-----------------------------------------------------------------------------
(* The first item of the work list and the rest.                           *)
LEMMA HeadOfWork ==
  ASSUME NEW p, NEW stk, NEW tab, NEW fr, NEW wk, Sound(p, stk, tab, fr, wk), wk # <<>>
  PROVE  /\ IsList(Tail(wk)) /\ ItemOk(Head(wk), Len(tab)) /\ ItemsOk(Tail(wk), tab)
         /\ \A i : DrainCount(wk, i) =
                     (IF Head(wk).kind = "give" /\ Head(wk).wire = V(i) THEN 1 ELSE 0)
                       + DrainCount(Tail(wk), i)
         /\ \A i : DrainCount(Tail(wk), i) \in Nat
         /\ \A i : Retiring(wk, i) <=> Head(wk) = Retire(i) \/ Retiring(Tail(wk), i)
         /\ \A i : Head(wk) = Retire(i) => ~Retiring(Tail(wk), i)
<1> DEFINE h == Head(wk)
           t == Tail(wk)
<1>1. IsList(wk) /\ ItemsOk(wk, tab)
  BY DEF Sound
<1>2. /\ IsList(t) /\ Len(wk) \in Nat \ {0} /\ Len(t) = Len(wk) - 1
      /\ \A k \in 1 .. Len(t) : t[k] = wk[k + 1]
      /\ h = wk[1] /\ wk = <<wk[1]>> \o t
  BY <1>1, Popped
<1>3. DOMAIN wk = 1 .. Len(wk) /\ DOMAIN t = 1 .. Len(t) /\ Len(t) \in Nat
  BY <1>1, <1>2, ListIs
<1> HIDE DEF h, t
<1>4. ItemOk(h, Len(tab))
  <2>1. 1 \in DOMAIN wk
    BY <1>2, <1>3
  <2> QED
    BY <2>1, <1>1, <1>2 DEF ItemsOk
<1>5. \A k \in DOMAIN t : k + 1 \in DOMAIN wk /\ t[k] = wk[k + 1]
  BY <1>2, <1>3
<1>6. \A i : Retiring(wk, i) <=> h = Retire(i) \/ Retiring(t, i)
  <2> SUFFICES ASSUME NEW i PROVE Retiring(wk, i) <=> h = Retire(i) \/ Retiring(t, i)
    OBVIOUS
  <2>1. ASSUME Retiring(wk, i) PROVE h = Retire(i) \/ Retiring(t, i)
    <3>1. PICK k \in DOMAIN wk : wk[k] = Retire(i)
      BY <2>1 DEF Retiring
    <3>2. CASE k = 1
      BY <3>1, <3>2, <1>2
    <3>3. CASE k # 1
      <4>1. k - 1 \in 1 .. Len(t) /\ (k - 1) + 1 = k
        BY <3>3, <1>2, <1>3
      <4>2. t[k - 1] = wk[(k - 1) + 1]
        BY <4>1, <1>2
      <4> QED
        BY <4>1, <4>2, <3>1, <1>3 DEF Retiring
    <3> QED
      BY <3>2, <3>3
  <2>2. 1 \in DOMAIN wk
    BY <1>2, <1>3
  <2>3. ASSUME Retiring(t, i) PROVE Retiring(wk, i)
    BY <2>3, <1>5 DEF Retiring
  <2>4. ASSUME h = Retire(i) PROVE Retiring(wk, i)
    BY <2>2, <2>4, <1>2 DEF Retiring
  <2> QED
    BY <2>1, <2>3, <2>4
<1>7. ItemsOk(t, tab)
  <2>1. \A k \in DOMAIN t : ItemOk(t[k], Len(tab))
    BY <1>1, <1>5 DEF ItemsOk
  <2>2. \A i \in DOMAIN tab : Retiring(t, i) => tab[i].refcount = 0 /\ tab[i].terms = <<>>
    BY <1>1, <1>6 DEF ItemsOk
  <2>3. ASSUME NEW j \in DOMAIN t, NEW k \in DOMAIN t, t[j].kind = "retire", t[j] = t[k]
        PROVE  j = k
    <3>1. j + 1 \in DOMAIN wk /\ k + 1 \in DOMAIN wk /\ wk[j + 1].kind = "retire" /\ wk[j + 1] = wk[k + 1]
      BY <2>3, <1>5
    <3>2. j + 1 = k + 1
      BY <3>1, <1>1 DEF ItemsOk
    <3> QED
      BY <3>2, <1>3
  <2> QED
    BY <2>1, <2>2, <2>3 DEF ItemsOk
<1>8. ASSUME NEW i, h = Retire(i), Retiring(t, i) PROVE FALSE
  <2>1. PICK k \in DOMAIN t : t[k] = Retire(i)
    BY <1>8 DEF Retiring
  <2>2. k + 1 \in DOMAIN wk /\ 1 \in DOMAIN wk /\ wk[1] = wk[k + 1] /\ wk[1].kind = "retire"
    BY <2>1, <1>2, <1>3, <1>5, <1>8 DEF Retire
  <2>3. 1 = k + 1
    BY <2>2, <1>1 DEF ItemsOk
  <2> QED
    BY <2>3, <1>3
<1>9. \A i : DrainCount(t, i) \in Nat
  BY <1>2, DrainedJoined
<1>10. \A i : DrainCount(wk, i) = (IF h.kind = "give" /\ h.wire = V(i) THEN 1 ELSE 0) + DrainCount(t, i)
  <2>1. IsList(<<h>>) /\ wk = <<h>> \o t
    BY <1>2, Single
  <2>2. \A i : DrainCount(<<h>> \o t, i) = DrainCount(<<h>>, i) + DrainCount(t, i)
    BY <2>1, <1>2, DrainedJoined
  <2>3. \A i : DrainCount(<<h>>, i) = IF h.kind = "give" /\ h.wire = V(i) THEN 1 ELSE 0
    BY DrainedOne
  <2> QED
    BY <2>1, <2>2, <2>3
<1> QED
  BY <1>2, <1>4, <1>6, <1>7, <1>8, <1>9, <1>10 DEF h, t

(* Giving to an allocated wire keeps the invariant.                        *)
LEMMA WritesViewKeeps ==
  ASSUME IInv, WritesView
  PROVE  IInv'
<1> DEFINE h == Head(work)
           t == Tail(work)
<1>1. UNCHANGED <<prog, stack, pc, wires, free>> /\ work # <<>> /\ work' = t /\ ~IsVirtual(h.wire)
  BY DEF WritesView, input, driver
<1>2. Sound(prog, stack, wires, free, work)
  BY DEF IInv
<1>3. /\ IsList(t) /\ ItemOk(h, Len(wires)) /\ ItemsOk(t, wires)
      /\ \A i : DrainCount(work, i) =
                  (IF h.kind = "give" /\ h.wire = V(i) THEN 1 ELSE 0) + DrainCount(t, i)
      /\ \A i : DrainCount(t, i) \in Nat
      /\ \A i : Retiring(work, i) <=> h = Retire(i) \/ Retiring(t, i)
      /\ \A i : h = Retire(i) => ~Retiring(t, i)
  BY <1>1, <1>2, HeadOfWork
<1> HIDE DEF h, t
<1>4. \A i : h.wire # V(i) /\ h # Retire(i)
  BY <1>1 DEF IsVirtual, V, Retire
<1>5. \A i : DrainCount(t, i) = DrainCount(work, i) /\ (Retiring(t, i) <=> Retiring(work, i))
  BY <1>3, <1>4
<1>6. Exact(stack, wires, t)
  BY <1>2, <1>5 DEF Sound, Exact
<1>7. FreeOk(free, wires, t)
  BY <1>2, <1>5 DEF Sound, FreeOk
<1>8. Sound(prog, stack, wires, free, t)
  BY <1>2, <1>3, <1>6, <1>7 DEF Sound
<1>9. pc # "idle"
  BY <1>1 DEF IInv
<1> QED
  BY <1>1, <1>8, <1>9 DEF IInv

(* A retired slot is clean, and goes to the free list.                     *)
LEMMA RetiresKeeps ==
  ASSUME IInv, Retires
  PROVE  IInv'
<1> DEFINE h == Head(work)
           t == Tail(work)
           n == Len(wires)
<1>1. UNCHANGED <<prog, stack, pc>> /\ work # <<>> /\ work' = t /\ h.kind = "retire"
  BY DEF Retires, input, driver
<1>2. Sound(prog, stack, wires, free, work) /\ IsList(wires) /\ IsList(free)
  BY DEF IInv, Sound
<1>3. /\ IsList(t) /\ ItemOk(h, n) /\ ItemsOk(t, wires)
      /\ \A i : DrainCount(work, i) =
                  (IF h.kind = "give" /\ h.wire = V(i) THEN 1 ELSE 0) + DrainCount(t, i)
      /\ \A i : DrainCount(t, i) \in Nat
      /\ \A i : Retiring(work, i) <=> h = Retire(i) \/ Retiring(t, i)
      /\ \A i : h = Retire(i) => ~Retiring(t, i)
  BY <1>1, <1>2, HeadOfWork
<1>4. PICK i \in 1 .. n : h = Retire(i)
  BY <1>1, <1>3 DEF ItemOk
<1>5. wires' = [wires EXCEPT ![i].value = 0] /\ free' = Append(free, i)
  <2>1. h.wire[2] = i
    BY <1>4 DEF Retire
  <2> QED
    BY <2>1 DEF Retires
<1>6. n \in Nat /\ DOMAIN wires = 1 .. n /\ \A j \in DOMAIN wires : DOMAIN wires[j] = {"refcount", "terms", "value"}
  BY <1>2, SoundIs
<1> HIDE DEF h, t, n
<1>7. Retiring(work, i) /\ ~Retiring(t, i) /\ wires[i].refcount = 0 /\ wires[i].terms = <<>> /\ ~Dead(free, i)
  <2>1. Retiring(work, i) /\ ~Retiring(t, i)
    BY <1>3, <1>4
  <2> QED
    BY <2>1, <1>2, <1>6 DEF Sound, ItemsOk, FreeOk
<1>8. /\ SameTerms(wires, wires')
      /\ \A j \in DOMAIN wires : wires'[j].refcount = wires[j].refcount /\ wires'[j].terms = wires[j].terms
      /\ \A j \in DOMAIN wires : j # i => wires'[j] = wires[j]
      /\ wires'[i].value = 0
  <2> DEFINE e == [wires[i] EXCEPT !.value = 0]
             R == Range(wires) \cup {e}
  <2>1. DOMAIN e = DOMAIN wires[i] /\ e.terms = wires[i].terms /\ e.refcount = wires[i].refcount /\ e.value = 0
    BY <1>6
  <2>2. wires \in Seq(R) /\ e \in R
    BY <1>2, SeqMonotonic DEF IsList
  <2>3. wires' = [wires EXCEPT ![i] = e]
    BY <1>5
  <2> HIDE DEF e, R
  <2>4. wires' \in Seq(R) /\ Len(wires') = n /\ \A j \in 1 .. n : wires'[j] = IF j = i THEN e ELSE wires[j]
    BY <2>2, <2>3, <1>4, ExceptSeq DEF n
  <2>5. IsList(wires')
    BY <2>4, ListOf
  <2> QED
    BY <2>1, <2>4, <2>5, <1>4, <1>6 DEF SameTerms, n
<1>9. /\ SlotsOk(wires') /\ DOMAIN wires' = DOMAIN wires
      /\ \A j : NameCount(wires', j) = NameCount(wires, j)
      /\ IsList(wires') /\ Len(wires') = n
  BY <1>2, <1>8, TermsKept DEF Sound, SameTerms, n
<1>10. /\ IsList(free') /\ DOMAIN free' = 1 .. Len(free) + 1
       /\ \A k \in 1 .. Len(free) : free'[k] = free[k]
       /\ free'[Len(free) + 1] = i
       /\ Len(free) \in Nat /\ DOMAIN free = 1 .. Len(free)
  <2> DEFINE R == Range(free) \cup {i}
  <2>1. free \in Seq(R) /\ i \in R
    BY <1>2, SeqMonotonic DEF IsList
  <2> HIDE DEF R
  <2>2. /\ free' \in Seq(R) /\ Len(free') = Len(free) + 1
        /\ \A k \in 1 .. Len(free) : free'[k] = free[k]
        /\ free'[Len(free) + 1] = i
    BY <2>1, <1>5, AppendProperties
  <2>3. IsList(free')
    BY <2>2, ListOf
  <2>4. DOMAIN free' = 1 .. Len(free) + 1
    BY <2>2, <2>3, ListIs
  <2> QED
    BY <2>2, <2>3, <2>4, <1>2, ListIs
<1>11. \A j : Dead(free', j) <=> Dead(free, j) \/ j = i
  <2>1. \A k \in 1 .. Len(free) + 1 : k \in 1 .. Len(free) \/ k = Len(free) + 1
    BY <1>10
  <2>2. Len(free) + 1 \in 1 .. Len(free) + 1 /\ \A k \in 1 .. Len(free) : k \in 1 .. Len(free) + 1
    BY <1>10
  <2> QED
    BY <2>1, <2>2, <1>10 DEF Dead
<1>12. FreeOk(free', wires', t)
  <2>1. FreeOk(free, wires, work)
    BY <1>2 DEF Sound
  <2>2. \A k \in DOMAIN free' : free'[k] \in DOMAIN wires'
    <3> SUFFICES ASSUME NEW k \in 1 .. Len(free) + 1 PROVE free'[k] \in DOMAIN wires
      BY <1>9, <1>10
    <3>1. CASE k \in 1 .. Len(free)
      BY <3>1, <2>1, <1>10 DEF FreeOk
    <3>2. CASE k \notin 1 .. Len(free)
      <4>1. k = Len(free) + 1
        BY <3>2, <1>10
      <4> QED
        BY <4>1, <1>4, <1>6, <1>10
    <3> QED
      BY <3>1, <3>2
  <2>3. ASSUME NEW j \in 1 .. Len(free) + 1, NEW k \in 1 .. Len(free) + 1, free'[j] = free'[k]
        PROVE  j = k
    <3>1. \A m \in 1 .. Len(free) : free'[m] = free[m] /\ free[m] # i
      BY <1>7, <1>10 DEF Dead
    <3>2. CASE j \in 1 .. Len(free) /\ k \in 1 .. Len(free)
      BY <3>1, <3>2, <2>1, <2>3, <1>10 DEF FreeOk
    <3>3. CASE j \in 1 .. Len(free) /\ k \notin 1 .. Len(free)
      <4>1. k = Len(free) + 1
        BY <3>3, <1>10
      <4> QED
        BY <4>1, <3>1, <3>3, <2>3, <1>10
    <3>4. CASE j \notin 1 .. Len(free) /\ k \in 1 .. Len(free)
      <4>1. j = Len(free) + 1
        BY <3>4, <1>10
      <4> QED
        BY <4>1, <3>1, <3>4, <2>3, <1>10
    <3>5. CASE j \notin 1 .. Len(free) /\ k \notin 1 .. Len(free)
      BY <3>5, <1>10
    <3> QED
      BY <3>2, <3>3, <3>4, <3>5
  <2>4. ASSUME NEW j \in DOMAIN wires, Dead(free', j) PROVE Clean(wires'[j]) /\ ~Retiring(t, j)
    <3>1. CASE j = i
      BY <3>1, <2>4, <1>7, <1>8 DEF Clean
    <3>2. CASE j # i
      <4>1. Dead(free, j)
        BY <3>2, <2>4, <1>11
      <4>2. Clean(wires[j]) /\ ~Retiring(work, j)
        BY <4>1, <2>1 DEF FreeOk
      <4> QED
        BY <4>2, <3>2, <1>3, <1>8
    <3> QED
      BY <3>1, <3>2
  <2>5. ASSUME NEW j \in DOMAIN wires, wires'[j].refcount = 0 PROVE Dead(free', j) \/ Retiring(t, j)
    <3>1. CASE j = i
      BY <3>1, <1>11
    <3>2. CASE j # i
      <4>1. Dead(free, j) \/ Retiring(work, j)
        BY <2>1, <2>5, <1>8 DEF FreeOk
      <4>2. h # Retire(j)
        BY <3>2, <1>4 DEF Retire
      <4> QED
        BY <4>1, <4>2, <1>3, <1>11
    <3> QED
      BY <3>1, <3>2
  <2> QED
    BY <2>2, <2>3, <2>4, <2>5, <1>9, <1>10 DEF FreeOk
<1>13. ItemsOk(t, wires')
  <2>1. DOMAIN wires' = DOMAIN wires /\ Len(wires') = Len(wires)
        /\ \A j \in DOMAIN wires : wires'[j].refcount = wires[j].refcount /\ wires'[j].terms = wires[j].terms
    BY <1>8, <1>9 DEF n
  <2> QED
    BY <2>1, <1>3 DEF ItemsOk
<1>14. \A j : DrainCount(work, j) = DrainCount(t, j)
  BY <1>1, <1>3
<1>15. Exact(stack, wires', t)
  BY <1>2, <1>8, <1>9, <1>14 DEF Sound, Exact
<1>16. Sound(prog, stack, wires', free', t)
  BY <1>2, <1>3, <1>9, <1>10, <1>12, <1>13, <1>15 DEF Sound, n
<1>17. pc # "idle"
  BY <1>1 DEF IInv
<1> QED
  BY <1>1, <1>16, <1>17 DEF IInv

(* An item of a joined list is one of the first or one of the second.      *)
LEMMA JoinedPlaces ==
  ASSUME NEW s, NEW t, IsList(s), IsList(t), NEW k \in DOMAIN (s \o t)
  PROVE  \/ k \in DOMAIN s /\ (s \o t)[k] = s[k]
         \/ \E j \in DOMAIN t : k = Len(s) + j /\ (s \o t)[k] = t[j]
<1>1. /\ DOMAIN (s \o t) = 1 .. Len(s) + Len(t)
      /\ \A j \in 1 .. Len(s) : (s \o t)[j] = s[j]
      /\ \A j \in 1 .. Len(t) : (s \o t)[Len(s) + j] = t[j]
  BY Joined
<1>2. Len(s) \in Nat /\ Len(t) \in Nat /\ DOMAIN s = 1 .. Len(s) /\ DOMAIN t = 1 .. Len(t)
  BY ListIs
<1>3. CASE k \in 1 .. Len(s)
  BY <1>1, <1>2, <1>3
<1>4. CASE k \notin 1 .. Len(s)
  <2> DEFINE j == k - Len(s)
  <2>1. j \in 1 .. Len(t) /\ k = Len(s) + j
    BY <1>1, <1>2, <1>4
  <2> HIDE DEF j
  <2>2. (s \o t)[Len(s) + j] = t[j]
    BY <2>1, <1>1
  <2> QED
    BY <2>1, <2>2, <1>2
<1> QED
  BY <1>3, <1>4

(* Every retired slot of a joined list is one of either part.              *)
LEMMA RetiringJoined ==
  ASSUME NEW s, NEW t, IsList(s), IsList(t), NEW i
  PROVE  Retiring(s \o t, i) <=> Retiring(s, i) \/ Retiring(t, i)
<1>1. /\ DOMAIN (s \o t) = 1 .. Len(s) + Len(t)
      /\ \A j \in 1 .. Len(s) : (s \o t)[j] = s[j]
      /\ \A j \in 1 .. Len(t) : (s \o t)[Len(s) + j] = t[j]
  BY Joined
<1>2. Len(s) \in Nat /\ Len(t) \in Nat /\ DOMAIN s = 1 .. Len(s) /\ DOMAIN t = 1 .. Len(t)
  BY ListIs
<1>3. ASSUME Retiring(s \o t, i) PROVE Retiring(s, i) \/ Retiring(t, i)
  <2>1. PICK k \in DOMAIN (s \o t) : (s \o t)[k] = Retire(i)
    BY <1>3 DEF Retiring
  <2>2. \/ k \in DOMAIN s /\ (s \o t)[k] = s[k]
        \/ \E j \in DOMAIN t : k = Len(s) + j /\ (s \o t)[k] = t[j]
    BY JoinedPlaces
  <2> QED
    BY <2>1, <2>2 DEF Retiring
<1>4. ASSUME Retiring(s, i) PROVE Retiring(s \o t, i)
  <2>1. PICK k \in DOMAIN s : s[k] = Retire(i)
    BY <1>4 DEF Retiring
  <2>2. k \in DOMAIN (s \o t) /\ (s \o t)[k] = s[k]
    BY <1>1, <1>2
  <2> QED
    BY <2>1, <2>2 DEF Retiring
<1>5. ASSUME Retiring(t, i) PROVE Retiring(s \o t, i)
  <2>1. PICK k \in DOMAIN t : t[k] = Retire(i)
    BY <1>5 DEF Retiring
  <2>2. Len(s) + k \in DOMAIN (s \o t) /\ (s \o t)[Len(s) + k] = t[k]
    BY <1>1, <1>2
  <2> QED
    BY <2>1, <2>2 DEF Retiring
<1> QED
  BY <1>3, <1>4, <1>5

(* Two lists of items that retire different slots, joined.                 *)
LEMMA ItemsJoined ==
  ASSUME NEW s, NEW t, IsList(s), IsList(t), NEW tab, DOMAIN tab = 1 .. Len(tab),
         ItemsOk(s, tab), ItemsOk(t, tab),
         \A i \in DOMAIN tab : ~(Retiring(s, i) /\ Retiring(t, i))
  PROVE  ItemsOk(s \o t, tab)
<1> DEFINE u == s \o t
<1>1. \A k \in DOMAIN u : \/ k \in DOMAIN s /\ u[k] = s[k]
                          \/ \E j \in DOMAIN t : k = Len(s) + j /\ u[k] = t[j]
  BY JoinedPlaces
<1>2. \A i : Retiring(u, i) <=> Retiring(s, i) \/ Retiring(t, i)
  BY RetiringJoined
<1> HIDE DEF u
<1>3. \A k \in DOMAIN u : ItemOk(u[k], Len(tab))
  BY <1>1 DEF ItemsOk
<1>4. \A i \in DOMAIN tab : Retiring(u, i) => tab[i].refcount = 0 /\ tab[i].terms = <<>>
  BY <1>2 DEF ItemsOk
<1>5. ASSUME NEW j \in DOMAIN s, NEW k \in DOMAIN t, s[j].kind = "retire", s[j] = t[k]
      PROVE  FALSE
  <2>1. PICK i \in 1 .. Len(tab) : s[j] = Retire(i)
    BY <1>5 DEF ItemsOk, ItemOk
  <2>2. Retiring(s, i) /\ Retiring(t, i)
    BY <2>1, <1>5 DEF Retiring
  <2> QED
    BY <2>1, <2>2
<1>6. ASSUME NEW j \in DOMAIN u, NEW k \in DOMAIN u, u[j].kind = "retire", u[j] = u[k]
      PROVE  j = k
  <2>1. CASE j \in DOMAIN s /\ u[j] = s[j]
    <3>1. CASE k \in DOMAIN s /\ u[k] = s[k]
      BY <1>6, <2>1, <3>1 DEF ItemsOk
    <3>2. CASE \E m \in DOMAIN t : k = Len(s) + m /\ u[k] = t[m]
      BY <1>5, <1>6, <2>1, <3>2
    <3> QED
      BY <3>1, <3>2, <1>1
  <2>2. CASE \E m \in DOMAIN t : j = Len(s) + m /\ u[j] = t[m]
    <3>1. PICK m \in DOMAIN t : j = Len(s) + m /\ u[j] = t[m]
      BY <2>2
    <3>2. CASE k \in DOMAIN s /\ u[k] = s[k]
      BY <1>5, <1>6, <3>1, <3>2
    <3>3. CASE \E q \in DOMAIN t : k = Len(s) + q /\ u[k] = t[q]
      <4>1. PICK q \in DOMAIN t : k = Len(s) + q /\ u[k] = t[q]
        BY <3>3
      <4>2. m = q
        BY <1>6, <3>1, <4>1 DEF ItemsOk
      <4> QED
        BY <3>1, <4>1, <4>2
    <3> QED
      BY <3>2, <3>3, <1>1
  <2> QED
    BY <2>1, <2>2, <1>1
<1>7. ItemsOk(u, tab)
  BY <1>3, <1>4, <1>6 DEF ItemsOk
<1> QED
  BY <1>7 DEF u

(* A table with one slot rewritten.                                        *)
SlotSetTo(tab, i, e, new) ==
  /\ IsList(new) /\ Len(new) = Len(tab) /\ DOMAIN new = DOMAIN tab
  /\ new[i] = e /\ \A j \in DOMAIN tab : j # i => new[j] = tab[j]

(* Rewriting a slot leaves the others.                                     *)
LEMMA SlotSet ==
  ASSUME NEW tab, IsList(tab), NEW i \in DOMAIN tab, NEW e
  PROVE  SlotSetTo(tab, i, e, [tab EXCEPT ![i] = e])
<1> DEFINE R   == Range(tab) \cup {e}
           new == [tab EXCEPT ![i] = e]
<1>1. tab \in Seq(R) /\ e \in R
  BY SeqMonotonic DEF IsList
<1>2. DOMAIN tab = 1 .. Len(tab)
  BY ListIs
<1> HIDE DEF R
<1>3. new \in Seq(R) /\ Len(new) = Len(tab) /\ \A j \in 1 .. Len(tab) : new[j] = IF j = i THEN e ELSE tab[j]
  BY <1>1, <1>2, ExceptSeq
<1> HIDE DEF new
<1>4. IsList(new)
  BY <1>3, ListOf
<1>5. DOMAIN new = 1 .. Len(new)
  BY <1>4, ListIs
<1>6. IsList(new) /\ Len(new) = Len(tab) /\ DOMAIN new = DOMAIN tab
      /\ new[i] = e /\ \A j \in DOMAIN tab : j # i => new[j] = tab[j]
  BY <1>2, <1>3, <1>4, <1>5
<1> QED
  BY <1>6 DEF new, SlotSetTo

(* free() of a wire with further references.                               *)
LEMMA OneFewer ==
  ASSUME NEW p, NEW stk, NEW tab, NEW fr, NEW wk, Sound(p, stk, tab, fr, wk), wk # <<>>,
         NEW i \in DOMAIN tab, Head(wk).kind = "give", Head(wk).wire = V(i),
         tab[i].refcount > 1,
         NEW e, DOMAIN e = {"refcount", "terms", "value"}, e.refcount = tab[i].refcount - 1,
         e.terms = tab[i].terms
  PROVE  Sound(p, stk, [tab EXCEPT ![i] = e], fr, Tail(wk))
<1> DEFINE h   == Head(wk)
           t   == Tail(wk)
           new == [tab EXCEPT ![i] = e]
<1>1. /\ IsList(t) /\ ItemsOk(t, tab)
      /\ \A j : DrainCount(wk, j) =
                  (IF h.kind = "give" /\ h.wire = V(j) THEN 1 ELSE 0) + DrainCount(t, j)
      /\ \A j : DrainCount(t, j) \in Nat
      /\ \A j : Retiring(wk, j) <=> h = Retire(j) \/ Retiring(t, j)
  BY HeadOfWork
<1>2. /\ Len(tab) \in Nat /\ DOMAIN tab = 1 .. Len(tab)
      /\ \A j : HandleCount(stk, j) \in Nat /\ NameCount(tab, j) \in Nat
      /\ \A j \in DOMAIN tab :
           /\ tab[j].refcount = HandleCount(stk, j) + NameCount(tab, j) + DrainCount(wk, j)
           /\ tab[j].refcount \in Nat
           /\ DOMAIN tab[j] = {"refcount", "terms", "value"}
  BY SoundIs
<1>3. /\ IsList(tab) /\ IsList(stk) /\ IsList(fr) /\ FramesOk(p, stk, Len(tab)) /\ SlotsOk(tab)
      /\ FreeOk(fr, tab, wk)
  BY DEF Sound
<1>4. /\ IsList(new) /\ Len(new) = Len(tab) /\ DOMAIN new = DOMAIN tab
      /\ new[i] = e /\ \A j \in DOMAIN tab : j # i => new[j] = tab[j]
  <2> HIDE DEF new
  <2>1. SlotSetTo(tab, i, e, [tab EXCEPT ![i] = e])
    BY <1>3, SlotSet
  <2> QED
    BY <2>1 DEF SlotSetTo, new
<1> HIDE DEF h, t, new
<1>5. \A j : V(i) = V(j) <=> i = j
  BY DEF V
<1>6. \A j : h # Retire(j)
  BY DEF h, Retire
<1>7. SameTerms(tab, new)
  BY <1>2, <1>4 DEF SameTerms
<1>8. SlotsOk(new) /\ DOMAIN new = DOMAIN tab /\ \A j : NameCount(new, j) = NameCount(tab, j)
  BY <1>3, <1>7, TermsKept
<1>9. ~Dead(fr, i) /\ ~Retiring(wk, i)
  <2>1. tab[i].refcount # 0
    BY <1>2
  <2> QED
    BY <2>1, <1>3 DEF Sound, FreeOk, ItemsOk, Clean
<1>10. ItemsOk(t, new)
  <2>1. \A j \in DOMAIN tab : Retiring(t, j) => j # i
    BY <1>1, <1>9
  <2> QED
    BY <2>1, <1>1, <1>4 DEF ItemsOk
<1>11. FreeOk(fr, new, t)
  <2>1. \A j \in DOMAIN tab : Retiring(t, j) <=> Retiring(wk, j)
    BY <1>1, <1>6
  <2>2. \A j \in DOMAIN tab : Dead(fr, j) /\ Clean(tab[j]) => Clean(new[j])
    BY <1>4, <1>9
  <2>3. new[i].refcount # 0
    BY <1>2, <1>4
  <2>4. \A j \in DOMAIN tab : new[j].refcount = 0 => tab[j].refcount = 0
    BY <2>3, <1>4
  <2> QED
    BY <2>1, <2>2, <2>4, <1>3, <1>4, FreeKept
<1>12. Exact(stk, new, t)
  <2> SUFFICES ASSUME NEW j \in DOMAIN tab
               PROVE  new[j].refcount = HandleCount(stk, j) + NameCount(tab, j) + DrainCount(t, j)
    BY <1>4, <1>8 DEF Exact
  <2>1. CASE j = i
    <3>1. DrainCount(wk, i) = 1 + DrainCount(t, i)
      BY <1>1 DEF h
    <3> QED
      BY <2>1, <3>1, <1>1, <1>2, <1>4
  <2>2. CASE j # i
    <3>1. DrainCount(wk, j) = DrainCount(t, j)
      BY <2>2, <1>1, <1>5 DEF h
    <3> QED
      BY <2>2, <3>1, <1>2, <1>4
  <2> QED
    BY <2>1, <2>2
<1>13. Sound(p, stk, new, fr, t)
  BY <1>1, <1>3, <1>4, <1>8, <1>10, <1>11, <1>12 DEF Sound
<1> QED
  BY <1>13 DEF new, t

Gifts(terms, value) ==
  [k \in DOMAIN terms |-> Give(terms[k].wire, Times(value, terms[k].coeff))]

(* What a resolved wire gives its terms: every term once, nothing retired. *)
LEMMA GiftsAre ==
  ASSUME NEW tab, NEW e, SlotOk(e, Len(tab)), NEW value
  PROVE  /\ IsList(Gifts(e.terms, value)) /\ ItemsOk(Gifts(e.terms, value), tab)
         /\ \A i : ~Retiring(Gifts(e.terms, value), i)
         /\ \A i : DrainCount(Gifts(e.terms, value), i) = Cardinality(TermsTo(e, i))
<1> DEFINE n == Len(e.terms)
           G == Gifts(e.terms, value)
<1>1. /\ n \in Nat /\ DOMAIN e.terms = 1 .. n
      /\ \A k \in 1 .. n : Named(e.terms[k].wire, Len(tab))
  BY ListIs DEF SlotOk
<1>2. /\ DOMAIN G = 1 .. n
      /\ \A k \in 1 .. n : G[k].kind = "give" /\ G[k].wire = e.terms[k].wire
  BY <1>1 DEF Gifts, Give
<1>3. IsList(G)
  <2> HIDE DEF n
  <2>1. G \in [1 .. n -> Range(G)]
    BY <1>1 DEF Gifts, Range
  <2>2. G \in Seq(Range(G))
    BY <1>1, <2>1, SeqDef
  <2> QED
    BY <2>2 DEF IsList
<1> HIDE DEF G, n
<1>4. \A i : ~Retiring(G, i)
  BY <1>2 DEF Retiring, Retire
<1>5. ItemsOk(G, tab)
  BY <1>1, <1>2, <1>4 DEF ItemsOk, ItemOk
<1>6. \A i : DrainedTo(G, i) = TermsTo(e, i)
  BY <1>1, <1>2 DEF DrainedTo, TermsTo
<1>7. \A i : DrainCount(G, i) = Cardinality(TermsTo(e, i))
  BY <1>6 DEF DrainCount
<1> QED
  BY <1>3, <1>4, <1>5, <1>7 DEF G

(* free() of the last reference to a wire.                                 *)
LEMMA Resolved ==
  ASSUME NEW p, NEW stk, NEW tab, NEW fr, NEW wk, Sound(p, stk, tab, fr, wk), wk # <<>>,
         NEW i \in DOMAIN tab, Head(wk).kind = "give", Head(wk).wire = V(i),
         tab[i].refcount = 1, NEW value,
         NEW e, DOMAIN e = {"refcount", "terms", "value"}, e.refcount = 0, e.terms = <<>>
  PROVE  Sound(p, stk, [tab EXCEPT ![i] = e], fr,
               Gifts(tab[i].terms, value) \o <<Retire(i)>> \o Tail(wk))
<1> DEFINE h   == Head(wk)
           t   == Tail(wk)
           new == [tab EXCEPT ![i] = e]
           G   == Gifts(tab[i].terms, value)
           R   == <<Retire(i)>>
           c   == [j \in DOMAIN tab |-> Cardinality(TermsTo(tab[i], j))]
<1>1. /\ IsList(t) /\ ItemsOk(t, tab)
      /\ \A j : DrainCount(wk, j) =
                  (IF h.kind = "give" /\ h.wire = V(j) THEN 1 ELSE 0) + DrainCount(t, j)
      /\ \A j : DrainCount(t, j) \in Nat
      /\ \A j : Retiring(wk, j) <=> h = Retire(j) \/ Retiring(t, j)
  BY HeadOfWork
<1>2. /\ Len(tab) \in Nat /\ DOMAIN tab = 1 .. Len(tab) /\ AllTerms(tab)
      /\ \A j : HandleCount(stk, j) \in Nat /\ NameCount(tab, j) \in Nat
      /\ \A j \in DOMAIN tab :
           /\ tab[j].refcount = HandleCount(stk, j) + NameCount(tab, j) + DrainCount(wk, j)
           /\ tab[j].refcount \in Nat
           /\ DOMAIN tab[j] = {"refcount", "terms", "value"}
  BY SoundIs
<1>3. /\ IsList(tab) /\ IsList(stk) /\ IsList(fr) /\ FramesOk(p, stk, Len(tab)) /\ SlotsOk(tab)
      /\ FreeOk(fr, tab, wk)
  BY DEF Sound
<1>4. /\ IsList(new) /\ Len(new) = Len(tab) /\ DOMAIN new = DOMAIN tab
      /\ new[i] = e /\ \A j \in DOMAIN tab : j # i => new[j] = tab[j]
  <2> HIDE DEF new
  <2>1. SlotSetTo(tab, i, e, [tab EXCEPT ![i] = e])
    BY <1>3, SlotSet
  <2> QED
    BY <2>1 DEF SlotSetTo, new
<1> HIDE DEF h, t, new, G, R
<1>5. SlotOk(tab[i], Len(new))
  BY <1>3, <1>4 DEF SlotsOk
<1>6. /\ IsList(G) /\ ItemsOk(G, new)
      /\ \A j : ~Retiring(G, j)
      /\ \A j : DrainCount(G, j) = Cardinality(TermsTo(tab[i], j))
  <2> HIDE DEF G
  <2>1. /\ IsList(Gifts(tab[i].terms, value)) /\ ItemsOk(Gifts(tab[i].terms, value), new)
        /\ \A j : ~Retiring(Gifts(tab[i].terms, value), j)
        /\ \A j : DrainCount(Gifts(tab[i].terms, value), j) = Cardinality(TermsTo(tab[i], j))
    BY <1>5, GiftsAre
  <2> QED
    BY <2>1 DEF G
<1>7. /\ \A j : V(i) = V(j) <=> i = j
      /\ \A j : Retire(i) = Retire(j) <=> i = j
      /\ \A j : h # Retire(j)
  BY DEF V, Retire, h
<1>8. ~Dead(fr, i) /\ ~Retiring(wk, i) /\ ~Retiring(t, i)
  <2>1. tab[i].refcount # 0
    OBVIOUS
  <2> QED
    BY <2>1, <1>1, <1>3 DEF Sound, FreeOk, ItemsOk, Clean
<1>9. /\ IsList(R) /\ ItemsOk(R, new) /\ \A j : Retiring(R, j) <=> j = i
      /\ \A j : DrainCount(R, j) = 0
  <2>1. IsList(R) /\ Len(R) = 1 /\ R[1] = Retire(i)
    BY Single DEF R
  <2>2. DOMAIN R = {1}
    BY <2>1, ListIs
  <2>3. \A j : Retiring(R, j) <=> j = i
    BY <2>1, <2>2, <1>7 DEF Retiring
  <2>4. ItemOk(R[1], Len(new))
    BY <2>1, <1>2, <1>4 DEF ItemOk, Named, Retire, V
  <2>5. ItemsOk(R, new)
    BY <2>2, <2>3, <2>4, <1>4 DEF ItemsOk
  <2>6. \A j : DrainCount(R, j) = 0
    <3>1. Retire(i).kind # "give"
      BY DEF Retire
    <3> QED
      BY <3>1, DrainedOne DEF R
  <2> QED
    BY <2>1, <2>3, <2>5, <2>6
<1>10. ItemsOk(t, new)
  <2>1. \A j \in DOMAIN tab : Retiring(t, j) => j # i
    BY <1>8
  <2> QED
    BY <2>1, <1>1, <1>4 DEF ItemsOk
<1>11. DOMAIN new = 1 .. Len(new)
  BY <1>2, <1>4
<1>12. /\ IsList(G \o R) /\ ItemsOk(G \o R, new) /\ \A j : Retiring(G \o R, j) <=> j = i
       /\ \A j : DrainCount(G \o R, j) = DrainCount(G, j) + DrainCount(R, j)
       /\ \A j : DrainCount(G, j) \in Nat
  <2>1. IsList(G \o R)
    BY <1>6, <1>9, Joined
  <2>2. \A j : Retiring(G \o R, j) <=> Retiring(G, j) \/ Retiring(R, j)
    BY <1>6, <1>9, RetiringJoined
  <2>3. ItemsOk(G \o R, new)
    BY <1>6, <1>9, <1>11, ItemsJoined
  <2>4. \A j : DrainCount(G \o R, j) = DrainCount(G, j) + DrainCount(R, j) /\ DrainCount(G, j) \in Nat
    BY <1>6, <1>9, DrainedJoined
  <2> QED
    BY <2>1, <2>2, <2>3, <2>4, <1>6, <1>9
<1> DEFINE D == G \o R
           W == D \o t
<1> HIDE DEF D
<1>13. /\ IsList(D) /\ ItemsOk(D, new) /\ \A j : Retiring(D, j) <=> j = i
       /\ \A j : DrainCount(D, j) = Cardinality(TermsTo(tab[i], j)) /\ DrainCount(D, j) \in Nat
  BY <1>6, <1>9, <1>12 DEF D
<1>14. /\ IsList(W) /\ ItemsOk(W, new) /\ \A j : Retiring(W, j) <=> j = i \/ Retiring(t, j)
       /\ \A j : DrainCount(W, j) = DrainCount(D, j) + DrainCount(t, j)
  <2>1. IsList(W)
    BY <1>1, <1>13, Joined
  <2>2. \A j : Retiring(W, j) <=> Retiring(D, j) \/ Retiring(t, j)
    BY <1>1, <1>13, RetiringJoined
  <2>3. \A j \in DOMAIN new : ~(Retiring(D, j) /\ Retiring(t, j))
    BY <1>8, <1>13
  <2>4. ItemsOk(W, new)
    BY <2>3, <1>1, <1>10, <1>11, <1>13, ItemsJoined
  <2>5. \A j : DrainCount(W, j) = DrainCount(D, j) + DrainCount(t, j)
    BY <1>1, <1>13, DrainedJoined
  <2> QED
    BY <2>1, <2>2, <2>4, <2>5, <1>13
<1> HIDE DEF W
<1>15. AllTerms(new) /\ SlotsOk(new)
  <2>1. IsList(<<>>) /\ DOMAIN <<>> = {}
    BY NoItems
  <2>2. SlotOk(e, Len(tab))
    BY <2>1 DEF SlotOk
  <2>3. SlotsOk(new)
    BY <2>2, <1>3, <1>4 DEF SlotsOk
  <2> QED
    BY <2>3, <1>4 DEF AllTerms, SlotsOk, SlotOk
<1>16. \A j : NameCount(new, j) = NameCount(tab, j) - Cardinality(TermsTo(tab[i], j))
  <2> SUFFICES ASSUME NEW j
               PROVE  NameCount(new, j) = NameCount(tab, j) - Cardinality(TermsTo(tab[i], j))
    OBVIOUS
  <2>1. \A k \in 1 .. Len(tab) : k # i => new[k].terms = tab[k].terms
    BY <1>2, <1>4
  <2>2. i \in 1 .. Len(tab)
    BY <1>2
  <2>3. NameCount(new, j) = (NameCount(tab, j) - Cardinality(TermsTo(tab[i], j)))
                              + Cardinality(TermsTo(new[i], j))
    BY <2>1, <2>2, <1>2, <1>3, <1>4, <1>15, NamesChanged, SMTT(30)
  <2>4. TermsTo(new[i], j) = {}
    BY <1>4, NoItems DEF TermsTo
  <2>5. Cardinality(TermsTo(new[i], j)) = 0
    BY <2>4, FS_EmptySet
  <2>6. Cardinality(TermsTo(tab[i], j)) \in Nat
    BY <1>13
  <2> QED
    BY <2>3, <2>5, <2>6, <1>2
<1>17. FreeOk(fr, new, W)
  <2>1. \A j \in DOMAIN tab : Dead(fr, j) => Clean(new[j]) /\ ~Retiring(W, j)
    BY <1>1, <1>3, <1>4, <1>8, <1>14 DEF FreeOk
  <2>2. \A j \in DOMAIN tab : new[j].refcount = 0 => Dead(fr, j) \/ Retiring(W, j)
    BY <1>1, <1>3, <1>4, <1>7, <1>14 DEF FreeOk
  <2> QED
    BY <2>1, <2>2, <1>3, <1>4 DEF FreeOk
<1>18. Exact(stk, new, W)
  <2> SUFFICES ASSUME NEW j \in DOMAIN tab
               PROVE  new[j].refcount = HandleCount(stk, j) + NameCount(new, j) + DrainCount(W, j)
    BY <1>4 DEF Exact
  <2>1. /\ DrainCount(W, j) = Cardinality(TermsTo(tab[i], j)) + DrainCount(t, j)
        /\ NameCount(new, j) = NameCount(tab, j) - Cardinality(TermsTo(tab[i], j))
        /\ Cardinality(TermsTo(tab[i], j)) \in Nat
    BY <1>13, <1>14, <1>16
  <2>2. tab[j].refcount = HandleCount(stk, j) + NameCount(tab, j) + DrainCount(wk, j)
    BY <1>2
  <2>3. CASE j = i
    <3>1. DrainCount(wk, i) = 1 + DrainCount(t, i)
      BY <1>1 DEF h
    <3> QED
      BY <2>1, <2>2, <2>3, <3>1, <1>1, <1>2, <1>4
  <2>4. CASE j # i
    <3>1. DrainCount(wk, j) = DrainCount(t, j)
      BY <2>4, <1>1, <1>7 DEF h
    <3> QED
      BY <2>1, <2>2, <2>4, <3>1, <1>1, <1>2, <1>4
  <2> QED
    BY <2>3, <2>4
<1>19. Sound(p, stk, new, fr, W)
  BY <1>3, <1>4, <1>14, <1>15, <1>17, <1>18 DEF Sound
<1> QED
  BY <1>19 DEF new, W, D, G, R, t

(* free() keeps the invariant: the reference it takes back was counted,    *)
(* and a resolved wire's names become drained references.                  *)
LEMMA FreesVirtualKeeps ==
  ASSUME IInv, FreesVirtual
  PROVE  IInv'
<1> DEFINE h == Head(work)
           n == Len(wires)
<1>1. /\ UNCHANGED <<prog, stack, free>> /\ work # <<>>
      /\ h.kind = "give" /\ IsVirtual(h.wire)
  BY DEF FreesVirtual, input
<1>2. Sound(prog, stack, wires, free, work) /\ pc # "idle"
  BY <1>1 DEF IInv
<1>3. ItemOk(h, n)
  BY <1>1, <1>2, HeadOfWork
<1>4. /\ n \in Nat /\ DOMAIN wires = 1 .. n
      /\ \A j \in DOMAIN wires : wires[j].refcount \in Nat /\ DOMAIN wires[j] = {"refcount", "terms", "value"}
  BY <1>2, SoundIs
<1> HIDE DEF n
<1>5. PICK i \in DOMAIN wires : h.wire = V(i)
  BY <1>1, <1>3, <1>4 DEF ItemOk, Named
<1> DEFINE value == Plus(wires[i].value, h.value)
<1>6. h.wire[2] = i
  BY <1>5 DEF V
<1>7. \/ wires[i].refcount = 0 /\ pc' = "panicked" /\ UNCHANGED <<wires, work>>
      \/ /\ wires[i].refcount > 1
         /\ wires' = [wires EXCEPT ![i] = [wires[i] EXCEPT !.refcount = @ - 1, !.value = value]]
         /\ work' = Tail(work) /\ UNCHANGED pc
      \/ /\ wires[i].refcount = 1
         /\ wires' = [wires EXCEPT ![i] = [refcount |-> 0, terms |-> <<>>, value |-> value]]
         /\ work' = Gifts(wires[i].terms, value) \o <<Retire(i)>> \o Tail(work) /\ UNCHANGED pc
  <2>1. wires[i].refcount = 0 \/ wires[i].refcount > 1 \/ wires[i].refcount = 1
    BY <1>4
  <2>2. wires[i].refcount = 0 => pc' = "panicked" /\ UNCHANGED <<wires, work>>
    BY <1>6 DEF FreesVirtual
  <2>3. wires[i].refcount > 1 =>
          /\ wires' = [wires EXCEPT ![i] = [wires[i] EXCEPT !.refcount = @ - 1, !.value = value]]
          /\ work' = Tail(work) /\ UNCHANGED pc
    <3> SUFFICES ASSUME wires[i].refcount > 1, wires[i].refcount # 0
                 PROVE  /\ wires' = [wires EXCEPT ![i] = [wires[i] EXCEPT !.refcount = @ - 1, !.value = value]]
                        /\ work' = Tail(work) /\ UNCHANGED pc
      BY <1>4
    <3> QED
      BY <1>6 DEF FreesVirtual
  <2>4. wires[i].refcount = 1 =>
          /\ wires' = [wires EXCEPT ![i] = [refcount |-> 0, terms |-> <<>>, value |-> value]]
          /\ work' = Gifts(wires[i].terms, value) \o <<Retire(i)>> \o Tail(work) /\ UNCHANGED pc
    <3> SUFFICES ASSUME wires[i].refcount = 1
                 PROVE  /\ wires' = [wires EXCEPT ![i] = [refcount |-> 0, terms |-> <<>>, value |-> value]]
                        /\ work' = Gifts(wires[i].terms, value) \o <<Retire(i)>> \o Tail(work)
                        /\ UNCHANGED pc
      OBVIOUS
    <3>1. wires[i].refcount # 0 /\ ~(wires[i].refcount > 1)
      OBVIOUS
    <3> QED
      BY <1>6, <3>1 DEF FreesVirtual, Gifts
  <2> HIDE DEF h, value
  <2> QED
    BY <2>1, <2>2, <2>3, <2>4
<1> HIDE DEF value
<1>8. CASE wires[i].refcount = 0 /\ pc' = "panicked" /\ UNCHANGED <<wires, work>>
  BY <1>1, <1>8, Unmoved
<1>9. CASE /\ wires[i].refcount > 1
           /\ wires' = [wires EXCEPT ![i] = [wires[i] EXCEPT !.refcount = @ - 1, !.value = value]]
           /\ work' = Tail(work) /\ UNCHANGED pc
  <2> DEFINE e == [wires[i] EXCEPT !.refcount = @ - 1, !.value = value]
  <2>1. /\ DOMAIN e = {"refcount", "terms", "value"} /\ e.refcount = wires[i].refcount - 1
        /\ e.terms = wires[i].terms
    BY <1>4
  <2>2. wires' = [wires EXCEPT ![i] = e]
    BY <1>9
  <2> HIDE DEF e
  <2>3. Sound(prog, stack, [wires EXCEPT ![i] = e], free, Tail(work))
    BY <2>1, <1>1, <1>2, <1>5, <1>9, OneFewer
  <2> QED
    BY <2>2, <2>3, <1>1, <1>2, <1>9 DEF IInv
<1>10. CASE /\ wires[i].refcount = 1
            /\ wires' = [wires EXCEPT ![i] = [refcount |-> 0, terms |-> <<>>, value |-> value]]
            /\ work' = Gifts(wires[i].terms, value) \o <<Retire(i)>> \o Tail(work) /\ UNCHANGED pc
  <2> DEFINE e == [refcount |-> 0, terms |-> <<>>, value |-> value]
  <2>1. DOMAIN e = {"refcount", "terms", "value"} /\ e.refcount = 0 /\ e.terms = <<>>
    OBVIOUS
  <2>2. wires' = [wires EXCEPT ![i] = e]
    BY <1>10
  <2> HIDE DEF e
  <2>3. Sound(prog, stack, [wires EXCEPT ![i] = e], free,
              Gifts(wires[i].terms, value) \o <<Retire(i)>> \o Tail(work))
    BY <2>1, <1>1, <1>2, <1>5, <1>10, Resolved
  <2> QED
    BY <2>2, <2>3, <1>1, <1>2, <1>10 DEF IInv
<1> QED
  BY <1>7, <1>8, <1>9, <1>10
-----------------------------------------------------------------------------
(* The inductive invariant of sy: it holds at first and no step breaks it. *)
LEMMA SyStarts == Init => IInv
<1> SUFFICES ASSUME Init PROVE IInv
  OBVIOUS
<1>1. /\ IsList(<<>>) /\ DOMAIN <<>> = {} /\ \A i : ~Retiring(<<>>, i)
  BY NoItems
<1>2. Sound(prog, <<>>, <<>>, <<>>, <<>>)
  BY <1>1 DEF Sound, FramesOk, SlotsOk, ItemsOk, FreeOk, Exact
<1> QED
  BY <1>2 DEF Init, IInv

(* No step of sy breaks the invariant of a well-wired circuit.             *)
LEMMA SyKeeps ==
  ASSUME IInv, prog \in Programs, WellWired(prog), Next
  PROVE  IInv'
BY StartsAtZeroKeeps, StartsKeeps, GatesKeeps, AssignsExtraKeeps, AddsKeeps, EnforcesZeroKeeps,
   EntersRoutineKeeps, LeavesRoutineKeeps, FinishesKeeps, DropsKeeps, WritesViewKeeps,
   FreesVirtualKeeps, RetiresKeeps DEF Next

(* Nor does a step that leaves sy alone.                                   *)
LEMMA SyStays ==
  ASSUME IInv, UNCHANGED <<prog, stack, pc, wires, free, work>>
  PROVE  IInv'
BY Unmoved

(* The invariant says what the properties of sy say.                       *)
LEMMA SyMeans ==
  ASSUME IInv
  PROVE  RefcountsExact /\ FreeListSound
<1>1. Sound(prog, stack, wires, free, work)
  BY DEF IInv
<1>2. RefcountsExact
  <2>1. \A i : References(i) = HandleCount(stack, i) + NameCount(wires, i) + DrainCount(work, i)
    BY DEF References, HandleCount, NameCount, TermsTo, DrainCount, DrainedTo, V
  <2> QED
    BY <1>1, <2>1 DEF Sound, Exact, RefcountsExact
<1>3. FreeListSound
  BY <1>1 DEF Sound, FreeOk, Dead, Retiring, FreeListSound
<1> QED
  BY <1>2, <1>3

(* No reference is given back that was not counted, and no slot is taken   *)
(* from the free list that is not clean.                                   *)
LEMMA SyNeverUnderflows ==
  ASSUME IInv, FreesVirtual \/ Adds
  PROVE  UNCHANGED pc
<1>1. Sound(prog, stack, wires, free, work)
  BY DEF IInv
<1>2. CASE FreesVirtual
  <2> DEFINE h == Head(work)
             n == Len(wires)
  <2>1. work # <<>> /\ h.kind = "give" /\ IsVirtual(h.wire)
    BY <1>2 DEF FreesVirtual
  <2>2. /\ ItemOk(h, n)
        /\ \A i : DrainCount(work, i) =
                    (IF h.kind = "give" /\ h.wire = V(i) THEN 1 ELSE 0) + DrainCount(Tail(work), i)
        /\ \A i : DrainCount(Tail(work), i) \in Nat
    BY <1>1, <2>1, HeadOfWork
  <2>3. /\ n \in Nat /\ DOMAIN wires = 1 .. n
        /\ \A i : HandleCount(stack, i) \in Nat /\ NameCount(wires, i) \in Nat /\ DrainCount(work, i) \in Nat
        /\ \A i \in DOMAIN wires :
             wires[i].refcount = HandleCount(stack, i) + NameCount(wires, i) + DrainCount(work, i)
    BY <1>1, SoundIs
  <2> HIDE DEF h, n
  <2>4. PICK i \in DOMAIN wires : h.wire = V(i)
    BY <2>1, <2>2, <2>3 DEF ItemOk, Named
  <2>5. DrainCount(work, i) >= 1
    BY <2>1, <2>2, <2>4
  <2>6. wires[i].refcount # 0
    BY <2>3, <2>5
  <2>7. h.wire[2] = i
    BY <2>4 DEF V
  <2> QED
    BY <1>2, <2>6, <2>7 DEF FreesVirtual, h
<1>3. CASE Adds
  <2>1. CASE free = <<>>
    BY <1>3, <2>1 DEF Adds, Go
  <2>2. CASE free # <<>>
    <3> DEFINE slot == free[Len(free)]
    <3>1. IsList(free) /\ FreeOk(free, wires, work)
      BY <1>1 DEF Sound
    <3>2. Len(free) \in DOMAIN free
      BY <3>1, <2>2, ListIs
    <3>3. slot \in DOMAIN wires /\ Dead(free, slot)
      BY <3>1, <3>2 DEF FreeOk, Dead
    <3> HIDE DEF slot
    <3>4. Clean(wires[slot])
      BY <3>1, <3>3 DEF FreeOk
    <3> QED
      BY <1>3, <2>2, <3>4 DEF Adds, Go, slot
  <2> QED
    BY <2>1, <2>2
<1> QED
  BY <1>2, <1>3
-----------------------------------------------------------------------------
(* No wire is made of itself, through however many others: among any slots *)
(* there is one that none of them names.                                   *)
Acyclic(tab) ==
  \A S \in SUBSET DOMAIN tab :
    S # {} => \E i \in S : \A j \in S : TermsTo(tab[j], i) = {}

(* Terms that stay or go make no cycle.                                    *)
LEMMA AcyclicKept ==
  ASSUME NEW tab, Acyclic(tab), NEW new, DOMAIN new = DOMAIN tab,
         \A j \in DOMAIN tab : new[j].terms = tab[j].terms \/ new[j].terms = <<>>
  PROVE  Acyclic(new)
<1>1. \A i : \A j \in DOMAIN tab : TermsTo(tab[j], i) = {} => TermsTo(new[j], i) = {}
  BY NoItems DEF TermsTo
<1> QED
  BY <1>1 DEF Acyclic

(* Nor does a slot that no term names.                                     *)
LEMMA AcyclicAdded ==
  ASSUME NEW tab, Acyclic(tab), NEW slot, NEW new, DOMAIN new \subseteq DOMAIN tab \cup {slot},
         \A j \in DOMAIN new : TermsTo(new[j], slot) = {},
         \A j \in DOMAIN new : j # slot => new[j].terms = tab[j].terms
  PROVE  Acyclic(new)
<1> SUFFICES ASSUME NEW S \in SUBSET DOMAIN new, S # {}
             PROVE  \E i \in S : \A j \in S : TermsTo(new[j], i) = {}
  BY DEF Acyclic
<1>1. CASE slot \in S
  BY <1>1
<1>2. CASE slot \notin S
  <2>1. S \in SUBSET DOMAIN tab
    BY <1>2
  <2>2. PICK i \in S : \A j \in S : TermsTo(tab[j], i) = {}
    BY <2>1 DEF Acyclic
  <2>3. \A j \in S : TermsTo(new[j], i) = {}
    BY <1>2, <2>2 DEF TermsTo
  <2> QED
    BY <2>3
<1> QED
  BY <1>1, <1>2

(* A count of none: no term names the wire.                                *)
LEMMA NamesNone ==
  ASSUME NEW tab, IsList(tab), AllTerms(tab), NEW i, NameCount(tab, i) = 0
  PROVE  \A j \in DOMAIN tab : TermsTo(tab[j], i) = {}
<1> DEFINE A == Sheet(tab, i)
           n == Len(tab)
<1>1. /\ n \in Nat /\ DOMAIN tab = 1 .. n /\ 1 .. n \subseteq 1 .. n
      /\ \A j \in 1 .. n : IsFiniteSet(A[j]) /\ A[j] = TermsTo(tab[j], i)
      /\ Cardinality(Sheets(1 .. n, A)) = 0
  BY NameSheets, ListIs
<1> HIDE DEF A, n
<1>2. IsFiniteSet(Sheets(1 .. n, A))
  BY <1>1, SheetsFinite
<1>3. Sheets(1 .. n, A) = {}
  BY <1>1, <1>2, FS_EmptySet
<1>4. ASSUME NEW j \in 1 .. n, NEW k \in A[j] PROVE FALSE
  <2>1. <<j, k>> \in Sheets(1 .. n, A)
    BY <1>4 DEF Sheets
  <2> QED
    BY <2>1, <1>3
<1> QED
  BY <1>1, <1>4

(* What add() makes is named by nothing, and names only wires in use.      *)
LEMMA AcyclicAdds ==
  ASSUME IInv, prog \in Programs, WellWired(prog), Adds, Acyclic(wires)
  PROVE  Acyclic(wires')
<1> DEFINE lc    == NextCall.lc
           ws    == [k \in DOMAIN lc |-> Top.call.env[lc[k][1]]]
           terms == [k \in DOMAIN lc |-> [wire |-> ws[k], coeff |-> lc[k][2] % P]]
           slot  == IF free = <<>> THEN Len(wires) + 1 ELSE free[Len(free)]
           t     == [refcount |-> 1, terms |-> terms, value |-> 0]
           ref   == Referred(wires, ws)
<1>1. CASE free # <<>> /\ ~Clean(wires[slot])
  BY <1>1 DEF Adds
<1>2. CASE ~(free # <<>> /\ ~Clean(wires[slot]))
  <2>1. wires' = IF free = <<>> THEN Append(ref, t) ELSE [ref EXCEPT ![slot] = t]
    BY <1>2 DEF Adds
  <2>2. /\ work = <<>> /\ stack # <<>>
        /\ NextCall.kind = "add" /\ lc \in Seq(Term)
        /\ Sound(prog, stack, wires, free, work) /\ IsFrame(Top)
        /\ Reads(NextCall) \subseteq Top.held
    BY KindOf, OpIs DEF Adds
  <2>3. /\ Len(wires) \in Nat /\ DOMAIN wires = 1 .. Len(wires) /\ IsList(wires) /\ SlotsOk(wires)
        /\ AllTerms(wires) /\ IsList(free) /\ FreeOk(free, wires, work)
    BY <2>2, SoundIs DEF Sound
  <2>4. Len(lc) \in Nat /\ DOMAIN lc = 1 .. Len(lc)
    BY <2>2
  <2>5. IsList(ws) /\ DOMAIN ws = DOMAIN lc /\ \A k \in DOMAIN lc : ws[k] = Top.call.env[lc[k][1]]
    <3>1. ws \in Seq(Range(ws))
      BY <2>4 DEF Range
    <3> QED
      BY <3>1 DEF IsList
  <2>6. ReadFrom(stack[1], ws)
    BY <2>2, <2>5 DEF ReadFrom, Reads, Top
  <2> HIDE DEF ws
  <2>7. DOMAIN terms = DOMAIN ws /\ \A k \in DOMAIN ws : terms[k].wire = ws[k]
    BY <2>5
  <2>8. t.terms = terms
    OBVIOUS
  <2> HIDE DEF terms, lc
  <2>9. /\ \A i : RefsTo(i, ws) = 0 <=> \A k \in DOMAIN ws : ws[k] # V(i)
        /\ \A i \in DOMAIN wires : RefsTo(i, ws) # 0 => ~Dead(free, i)
        /\ \A i : i \notin DOMAIN wires => RefsTo(i, ws) = 0
    <3>1. \A i : RefsTo(i, ws) = 0 <=> \A k \in DOMAIN ws : ws[k] # V(i)
      BY <2>5, RefsAre
    <3> HIDE DEF RefsTo
    <3>2. /\ \A i \in DOMAIN wires : RefsTo(i, ws) # 0 => ~Dead(free, i)
          /\ \A i : i \notin DOMAIN wires => RefsTo(i, ws) = 0
      BY <2>2, <2>5, <2>6, ReadsAreAlive
    <3> QED
      BY <3>1, <3>2
  <2> HIDE DEF t
  <2>10. /\ DOMAIN ref = DOMAIN wires /\ \A i \in DOMAIN wires : ref[i].terms = wires[i].terms
         /\ IsList(ref) /\ Len(ref) = Len(wires)
    BY <2>3, ReferredIs DEF SameTerms
  <2> HIDE DEF ref
  <2>11. free # <<>> => slot \in DOMAIN wires /\ Dead(free, slot) /\ Clean(wires[slot])
    <3>1. ASSUME free # <<>> PROVE Len(free) \in DOMAIN free
      BY <3>1, <2>3, Shortened
    <3> QED
      BY <3>1, <2>3 DEF FreeOk, Dead
  <2>12. free = <<>> => slot = Len(wires) + 1 /\ slot \notin DOMAIN wires
    BY <2>3
  <2>13. NameCount(wires, slot) = 0
    <3>1. CASE free = <<>>
      BY <3>1, <2>2, <2>12, NoneBeyond
    <3>2. CASE free # <<>>
      <4> HIDE DEF slot
      <4>1. slot \in DOMAIN wires /\ wires[slot].refcount = 0
        BY <3>2, <2>11 DEF Clean
      <4>2. /\ wires[slot].refcount = HandleCount(stack, slot) + NameCount(wires, slot) + DrainCount(work, slot)
            /\ HandleCount(stack, slot) \in Nat /\ NameCount(wires, slot) \in Nat
            /\ DrainCount(work, slot) \in Nat
        BY <4>1, <2>2, SoundIs
      <4> QED
        BY <4>1, <4>2
    <3> QED
      BY <3>1, <3>2
  <2>14. RefsTo(slot, ws) = 0
    BY <2>9, <2>11, <2>12
  <2> HIDE DEF slot
  <2>15. TermsTo(t, slot) = {}
    BY <2>7, <2>8, <2>9, <2>14 DEF TermsTo
  <2>16. \A j \in DOMAIN wires : TermsTo(wires[j], slot) = {}
    BY <2>3, <2>13, NamesNone
  <2>17. \A j \in DOMAIN wires : TermsTo(ref[j], slot) = {}
    BY <2>10, <2>16 DEF TermsTo
  <2>18. /\ DOMAIN wires' \subseteq DOMAIN wires \cup {slot}
         /\ \A j \in DOMAIN wires' : wires'[j] = IF j = slot THEN t ELSE ref[j]
         /\ \A j \in DOMAIN wires' : j # slot => j \in DOMAIN wires
    <3>1. CASE free = <<>>
      <4> DEFINE n == Len(wires)
                 new == Append(ref, t)
                 R == Range(ref) \cup {t}
      <4>1. Len(ref) = n /\ slot = n + 1
        BY <2>10, <2>12, <3>1
      <4>2. ref \in Seq(R) /\ t \in R
        BY <2>10, SeqMonotonic DEF IsList
      <4> HIDE DEF R, n
      <4>3. /\ new \in Seq(R) /\ Len(new) = n + 1
            /\ \A i \in 1 .. n : new[i] = ref[i]
            /\ new[n + 1] = t
        BY <4>1, <4>2, AppendProperties
      <4>4. IsList(new)
        BY <4>3, ListOf
      <4> HIDE DEF new
      <4>5. DOMAIN new = 1 .. n + 1
        BY <4>3, <4>4, ListIs
      <4>6. wires' = new
        BY <2>1, <3>1 DEF new
      <4>7. n \in Nat /\ DOMAIN wires = 1 .. n
        BY <2>3 DEF n
      <4>8. \A j \in 1 .. n + 1 : j # n + 1 => j \in 1 .. n
        BY <4>7
      <4> QED
        BY <4>1, <4>3, <4>5, <4>6, <4>7, <4>8
    <3>2. CASE free # <<>>
      <4>1. wires' = [ref EXCEPT ![slot] = t] /\ slot \in DOMAIN wires
        BY <2>1, <2>11, <3>2
      <4>2. slot \in DOMAIN ref
        BY <4>1, <2>10
      <4>3. DOMAIN wires' = DOMAIN ref /\ \A j \in DOMAIN ref : wires'[j] = IF j = slot THEN t ELSE ref[j]
        BY <4>1, <4>2
      <4> QED
        BY <4>1, <4>3, <2>10
    <3> QED
      BY <3>1, <3>2
  <2> DEFINE new == wires'
  <2>19. /\ DOMAIN new \subseteq DOMAIN wires \cup {slot}
         /\ \A j \in DOMAIN new : TermsTo(new[j], slot) = {}
         /\ \A j \in DOMAIN new : j # slot => new[j].terms = wires[j].terms
    BY <2>10, <2>15, <2>17, <2>18
  <2> HIDE DEF new
  <2>20. Acyclic(new)
    BY ONLY <2>19, Acyclic(wires), AcyclicAdded
  <2> QED
    BY <2>20 DEF new
<1> QED
  BY <1>1, <1>2

(* Every step keeps it.                                                    *)
LEMMA AcyclicKeeps ==
  ASSUME IInv, prog \in Programs, WellWired(prog), Next, Acyclic(wires)
  PROVE  Acyclic(wires')
<1>1. Sound(prog, stack, wires, free, work)
  BY DEF IInv
<1>2. \A i \in DOMAIN wires : DOMAIN wires[i] = {"refcount", "terms", "value"}
  BY <1>1, SoundIs
<1> DEFINE new == wires'
<1>3. CASE wires' = wires
  BY <1>3
<1>4. CASE EnforcesZero \/ EntersRoutine \/ LeavesRoutine
  <2>1. \/ wires' = wires
        \/ DOMAIN wires' = DOMAIN wires /\ \A i \in DOMAIN wires : wires'[i].terms = wires[i].terms
    <3>1. CASE EnforcesZero
      <4>1. \/ wires' = wires
            \/ wires' = [i \in DOMAIN wires |->
                           [wires[i] EXCEPT !.value = Plus(@, Worth(NextCall.lc, <<"v", i>>))]]
        BY <3>1 DEF EnforcesZero
      <4> QED
        BY <4>1, <1>2
    <3>2. CASE EntersRoutine
      <4> DEFINE ref == Referred(wires, InputWires(Top.call, NextCall))
      <4>1. wires' = wires \/ \E moved : wires' = [i \in DOMAIN wires |->
                [ref[i] EXCEPT !.refcount = @ - Cardinality(HandlesTo(Top, i) \intersect moved)]]
        BY <3>2 DEF EntersRoutine
      <4>2. \A i \in DOMAIN wires : /\ DOMAIN ref[i] = {"refcount", "terms", "value"}
                                   /\ ref[i].terms = wires[i].terms
        BY <1>2 DEF Referred
      <4> HIDE DEF ref
      <4>3. CASE wires' = wires
        BY <4>3
      <4>4. ASSUME NEW moved, wires' = [i \in DOMAIN wires |->
                [ref[i] EXCEPT !.refcount = @ - Cardinality(HandlesTo(Top, i) \intersect moved)]]
            PROVE  DOMAIN wires' = DOMAIN wires /\ \A i \in DOMAIN wires : wires'[i].terms = wires[i].terms
        BY <4>2, <4>4
      <4> QED
        BY <4>1, <4>3, <4>4
    <3>3. CASE LeavesRoutine
      <4>1. wires' = wires \/ wires' = [i \in DOMAIN wires |->
                             [wires[i] EXCEPT !.refcount =
                                @ + RefsTo(i, OutputWires(prog, Top.call)) - Cardinality(HandlesTo(Top, i))]]
        BY <3>3 DEF LeavesRoutine
      <4> QED
        BY <4>1, <1>2
    <3> QED
      BY <1>4, <3>1, <3>2, <3>3
  <2> QED
    BY <2>1, AcyclicKept
<1>5. CASE Retires
  <2> DEFINE i == Head(work).wire[2]
  <2>1. wires' = [wires EXCEPT ![i].value = 0]
    BY <1>5 DEF Retires
  <2> HIDE DEF i
  <2>2. DOMAIN wires' = DOMAIN wires /\ \A j \in DOMAIN wires : wires'[j].terms = wires[j].terms
    BY <2>1, <1>2
  <2> QED
    BY <2>2, AcyclicKept
<1>6. CASE FreesVirtual
  <2> DEFINE i == Head(work).wire[2]
             value == Plus(wires[i].value, Head(work).value)
             less == [wires[i] EXCEPT !.refcount = @ - 1, !.value = value]
             none == [refcount |-> 0, terms |-> <<>>, value |-> value]
  <2>1. wires' = wires \/ wires' = [wires EXCEPT ![i] = less] \/ wires' = [wires EXCEPT ![i] = none]
    BY <1>6 DEF FreesVirtual
  <2> HIDE DEF i, value
  <2>2. (i \in DOMAIN wires => less.terms = wires[i].terms) /\ none.terms = <<>>
    BY <1>2
  <2> HIDE DEF less, none
  <2>3. /\ DOMAIN wires' = DOMAIN wires
        /\ \A j \in DOMAIN wires : wires'[j].terms = wires[j].terms \/ wires'[j].terms = <<>>
    BY <2>1, <2>2
  <2> QED
    BY <2>3, AcyclicKept
<1>7. CASE Adds
  BY <1>7, AcyclicAdds
<1>8. CASE StartsAtZero \/ Starts \/ Gates \/ AssignsExtra \/ Finishes \/ Drops \/ WritesView
  BY <1>3, <1>8 DEF StartsAtZero, Starts, Gates, AssignsExtra, Finishes, Drops, WritesView, table
<1> QED
  BY <1>4, <1>5, <1>6, <1>7, <1>8 DEF Next

(* When nothing holds a wire and free() is idle, every slot is spent: one  *)
(* in use would be named by another in use, and so on without end.         *)
LEMMA AllSpent ==
  ASSUME NEW p, NEW stk, NEW tab, NEW fr, Sound(p, stk, tab, fr, <<>>), Acyclic(tab),
         \A i : HandleCount(stk, i) = 0
  PROVE  Len(fr) = Len(tab)
<1>1. /\ Len(tab) \in Nat /\ DOMAIN tab = 1 .. Len(tab) /\ IsList(tab) /\ IsList(fr)
      /\ FreeOk(fr, tab, <<>>) /\ SlotsOk(tab)
      /\ \A i \in DOMAIN tab :
           tab[i].refcount = HandleCount(stk, i) + NameCount(tab, i) + DrainCount(<<>>, i)
      /\ \A i : NameCount(tab, i) \in Nat
  BY SoundIs DEF Sound
<1>2. \A i : DrainCount(<<>>, i) = 0 /\ ~Retiring(<<>>, i)
  BY NoItems
<1>3. \A i \in DOMAIN tab : tab[i].refcount = NameCount(tab, i)
  <2> SUFFICES ASSUME NEW i \in DOMAIN tab PROVE tab[i].refcount = NameCount(tab, i)
    OBVIOUS
  <2>1. /\ tab[i].refcount = HandleCount(stk, i) + NameCount(tab, i) + DrainCount(<<>>, i)
        /\ HandleCount(stk, i) = 0 /\ DrainCount(<<>>, i) = 0 /\ NameCount(tab, i) \in Nat
    BY <1>1, <1>2
  <2> QED
    BY ONLY <2>1
<1>4. \A i \in DOMAIN tab : tab[i].refcount = 0 => Dead(fr, i) /\ tab[i].terms = <<>>
  BY <1>1, <1>2 DEF FreeOk, Clean
<1> DEFINE S == { i \in DOMAIN tab : tab[i].refcount # 0 }
<1>5. ASSUME S # {} PROVE FALSE
  <2>1. S \in SUBSET DOMAIN tab
    OBVIOUS
  <2>2. PICK i \in S : \A j \in S : TermsTo(tab[j], i) = {}
    BY <1>5, <2>1 DEF Acyclic
  <2>3. \A j \in DOMAIN tab : TermsTo(tab[j], i) = {}
    <3>1. ASSUME NEW j \in DOMAIN tab, j \notin S PROVE TermsTo(tab[j], i) = {}
      <4>1. tab[j].terms = <<>>
        BY <3>1, <1>4
      <4> QED
        BY <4>1, NoItems DEF TermsTo
    <3> QED
      BY <2>2, <3>1
  <2>4. NameCount(tab, i) = 0
    <3>1. UNION { {j} \X TermsTo(tab[j], i) : j \in DOMAIN tab } = {}
      BY <2>3
    <3> QED
      BY <3>1, FS_EmptySet DEF NameCount
  <2> QED
    BY <2>2, <2>4, <1>3
<1>6. \A i \in DOMAIN tab : Dead(fr, i)
  BY <1>4, <1>5
<1> HIDE DEF S
<1>7. fr \in Bijection(1 .. Len(fr), 1 .. Len(tab))
  <2>1. DOMAIN fr = 1 .. Len(fr) /\ fr \in [1 .. Len(fr) -> Range(fr)]
    BY <1>1, ListIs
  <2>2. \A k \in 1 .. Len(fr) : fr[k] \in 1 .. Len(tab)
    BY <1>1, <2>1 DEF FreeOk
  <2>3. fr \in [1 .. Len(fr) -> 1 .. Len(tab)]
    BY <2>1, <2>2
  <2>4. \A j, k \in 1 .. Len(fr) : fr[j] = fr[k] => j = k
    BY <1>1, <2>1 DEF FreeOk
  <2>5. \A i \in 1 .. Len(tab) : \E k \in 1 .. Len(fr) : fr[k] = i
    BY <1>1, <1>6, <2>1 DEF Dead
  <2> QED
    BY <2>3, <2>4, <2>5 DEF Bijection, Injection, Surjection, IsInjective
<1>8. Len(fr) \in Nat
  BY <1>1, ListIs
<1>9. IsFiniteSet(1 .. Len(fr)) /\ Cardinality(1 .. Len(fr)) = Len(fr)
      /\ IsFiniteSet(1 .. Len(tab)) /\ Cardinality(1 .. Len(tab)) = Len(tab)
  <2>1. \A n \in Nat : IsFiniteSet(1 .. n) /\ Cardinality(1 .. n) = n
    <3> SUFFICES ASSUME NEW n \in Nat PROVE IsFiniteSet(1 .. n) /\ Cardinality(1 .. n) = n
      OBVIOUS
    <3>1. IsFiniteSet(1 .. n) /\ Cardinality(1 .. n) = IF 1 > n THEN 0 ELSE n - 1 + 1
      BY FS_Interval, 1 \in Int, n \in Int
    <3> QED
      BY <3>1
  <2> QED
    BY <2>1, <1>1, <1>8
<1> QED
  BY <1>7, <1>9, FS_Bijection DEF ExistsBijection

(* When the circuit is done no slot has leaked (sy.rs:735).            *)
LEMMA SyFrees ==
  ASSUME IInv, prog \in Programs, WellWired(prog), Finishes, Acyclic(wires)
  PROVE  Len(free) = Len(wires)
<1>1. IInv' /\ work = <<>> /\ UNCHANGED <<prog, wires, free, work>> /\ stack' = <<>>
  BY FinishesKeeps DEF Finishes, input, table
<1>2. Sound(prog, <<>>, wires, free, <<>>)
  BY <1>1 DEF IInv
<1>3. \A i : HandleCount(<<>>, i) = 0
  BY NoHandles
<1> QED
  BY <1>2, <1>3, AllSpent

(* An empty table.                                                         *)
LEMMA AcyclicStarts == Acyclic(<<>>)
BY NoItems DEF Acyclic
=============================================================================
