-------------------------- MODULE GraphClientsProofs --------------------------
(***************************************************************************)
(* The two clients of graph_builder.  Keys: whatever resolvers ask for and *)
(* however they fail, KInv is an invariant of the keyed builder, and with  *)
(* it KeyedGraphRight.                                                     *)
(***************************************************************************)
EXTENDS KeyedBuilder, GraphPasses, GraphBuilderProofs

-----------------------------------------------------------------------------
(* The invariant of the keyed builder.  A frame's deps are the nodes of    *)
(* the keys it has been told, one for one, so that the node made of the    *)
(* frame has the edges its resolver asked for.  Keys and what a discovery  *)
(* pass has named may be anything.                                         *)

FrameSet(K, T) == [key : K, deps : Seq(Nat), asked : Seq(K), todo : T, calls : Nat,
                   failed : BOOLEAN]

FrameOK(r, f) ==
  /\ Len(f.asked) = Len(f.deps)
  /\ \A i \in 1 .. Len(f.asked) : f.asked[i] \in DOMAIN r /\ f.deps[i] = r[f.asked[i]]

StackTyped(s) == \E K, T : s \in Seq(FrameSet(K, T))

StackOK(r, s) ==
  /\ StackTyped(s)
  /\ \A i \in 1 .. Len(s) : FrameOK(r, s[i]) /\ s[i].key \notin DOMAIN r
  /\ \A i, j \in 1 .. Len(s) : s[i].key = s[j].key => i = j

ResolvedInv ==
  /\ resolved \in [DOMAIN resolved -> Nodes]
  /\ asked \in [DOMAIN resolved -> Seq(DOMAIN resolved)]
  /\ EdgesInCallOrder

EdgesDown == \A i \in 1 .. Len(edges) : edges[i].node \in Nodes /\ edges[i].dependency < edges[i].node

KInv ==
  /\ BInv
  /\ verdict \in {"none", "ok"}
  /\ phase # "idle" => stack = <<>>
  /\ StackOK(resolved, stack)
  /\ ResolvedInv
  /\ EdgesDown

KeysOf(s) == {s[i].key : i \in 1 .. Len(s)}

LEMMA InProgress ==
  ASSUME StackTyped(stack)
  PROVE  in_progress = KeysOf(stack)
<1>1. DOMAIN stack = 1 .. Len(stack)
  BY DEF StackTyped
<1> QED
  BY <1>1 DEF in_progress, ToSet, KeysOf

-----------------------------------------------------------------------------
(* Changing the innermost frame.                                           *)

LEMMA TopOf ==
  ASSUME NEW K, NEW T, NEW s \in Seq(FrameSet(K, T)), s # <<>>
  PROVE  /\ Len(s) \in Nat \ {0} /\ Last(s) = s[Len(s)] /\ Last(s) \in FrameSet(K, T)
         /\ Front(s) \in Seq(FrameSet(K, T)) /\ Len(Front(s)) = Len(s) - 1
         /\ \A i \in 1 .. Len(s) - 1 : Front(s)[i] = s[i]
<1> DEFINE F == FrameSet(K, T)
<1> HIDE DEF F
<1>1. s \in Seq(F)
  BY DEF F
<1>2. Len(s) \in Nat \ {0} /\ s[Len(s)] \in F
  BY <1>1
<1>3. \A i \in 1 .. Len(s) - 1 : s[i] \in F
  BY <1>1, <1>2
<1> DEFINE n == Len(s) - 1
           u == SubSeq(s, 1, n)
<1>4. n \in Nat /\ n \in Int /\ 1 \in Int
  BY <1>2
<1>5. /\ u \in Seq(F) /\ Len(u) = IF 1 <= n THEN n - 1 + 1 ELSE 0
      /\ \A i \in 1 .. n - 1 + 1 : u[i] = s[1 + i - 1]
  BY <1>3, <1>4, SubSeqProperties
<1> HIDE DEF u
<1>6. \A i \in 1 .. n : i \in 1 .. n - 1 + 1 /\ 1 + i - 1 = i
  BY <1>4
<1>7. Len(u) = n /\ \A i \in 1 .. n : u[i] = s[i]
  <2> HIDE DEF n
  <2> QED
    BY <1>4, <1>5, <1>6
<1>8. Last(s) = s[Len(s)] /\ Front(s) = u
  BY DEF Last, Front, u
<1> QED
  BY <1>2, <1>5, <1>7, <1>8 DEF F

LEMMA WithTopIs ==
  ASSUME NEW K, NEW T, NEW s \in Seq(FrameSet(K, T)), s # <<>>, NEW f \in FrameSet(K, T)
  PROVE  /\ WithTop(s, f) \in Seq(FrameSet(K, T)) /\ Len(WithTop(s, f)) = Len(s)
         /\ \A i \in 1 .. Len(s) : WithTop(s, f)[i] = IF i = Len(s) THEN f ELSE s[i]
<1> DEFINE u == Front(s)
<1>1. /\ Len(s) \in Nat \ {0} /\ u \in Seq(FrameSet(K, T)) /\ Len(u) = Len(s) - 1
      /\ \A i \in 1 .. Len(s) - 1 : u[i] = s[i]
  BY TopOf
<1> HIDE DEF u
<1>2. /\ Append(u, f) \in Seq(FrameSet(K, T)) /\ Len(Append(u, f)) = Len(u) + 1
      /\ Append(u, f)[Len(u) + 1] = f
      /\ \A i \in 1 .. Len(u) : Append(u, f)[i] = u[i]
  BY <1>1
<1> QED
  BY <1>1, <1>2 DEF WithTop, u

\* The same frames but for the innermost, which keeps its key.
LEMMA TopChanged ==
  ASSUME NEW K, NEW T, NEW s \in Seq(FrameSet(K, T)), s # <<>>, NEW r, StackOK(r, s),
         NEW f \in FrameSet(K, T), f.key = Last(s).key, FrameOK(r, f)
  PROVE  StackOK(r, WithTop(s, f)) /\ KeysOf(WithTop(s, f)) = KeysOf(s) /\ WithTop(s, f) # <<>>
<1> DEFINE w == WithTop(s, f)
<1>1. /\ w \in Seq(FrameSet(K, T)) /\ Len(w) = Len(s) /\ Len(s) \in Nat \ {0}
      /\ \A i \in 1 .. Len(s) : w[i] = IF i = Len(s) THEN f ELSE s[i]
  BY WithTopIs, TopOf
<1>2. \A i \in 1 .. Len(s) : w[i].key = s[i].key
  BY <1>1, TopOf
<1>3. StackTyped(w)
  BY <1>1 DEF StackTyped
<1> HIDE DEF w
<1>4. StackOK(r, w)
  BY <1>1, <1>2, <1>3 DEF StackOK
<1>5. KeysOf(w) = KeysOf(s)
  BY <1>1, <1>2 DEF KeysOf
<1> QED
  BY <1>1, <1>4, <1>5 DEF w

\* Sets of keys and of lists may grow.
LEMMA FramesGrow ==
  ASSUME NEW K, NEW L, NEW T, NEW U, K \subseteq L, T \subseteq U, NEW s \in Seq(FrameSet(K, T))
  PROVE  s \in Seq(FrameSet(L, U))
<1>1. FrameSet(K, T) \subseteq FrameSet(L, U)
  <2>1. Seq(K) \subseteq Seq(L)
    OBVIOUS
  <2> QED
    BY <2>1 DEF FrameSet
<1> QED
  BY <1>1

\* The stack without its innermost frame.
LEMMA Popped ==
  ASSUME NEW r, NEW s, StackOK(r, s), s # <<>>
  PROVE  /\ StackOK(r, Front(s)) /\ KeysOf(Front(s)) = KeysOf(s) \ {Last(s).key}
         /\ FrameOK(r, Last(s)) /\ Last(s).key \in KeysOf(s)
<1>1. PICK K, T : s \in Seq(FrameSet(K, T))
  BY DEF StackOK, StackTyped
<1> DEFINE u == Front(s)
<1>2. /\ Len(s) \in Nat \ {0} /\ Last(s) = s[Len(s)]
      /\ u \in Seq(FrameSet(K, T)) /\ Len(u) = Len(s) - 1
      /\ \A i \in 1 .. Len(s) - 1 : u[i] = s[i]
  BY <1>1, TopOf
<1> HIDE DEF u
<1>3. StackTyped(u)
  BY <1>2 DEF StackTyped
<1>4. StackOK(r, u)
  BY <1>2, <1>3 DEF StackOK
<1>5. FrameOK(r, Last(s)) /\ Last(s).key \in KeysOf(s)
  BY <1>2 DEF StackOK, KeysOf
<1>6. \A i \in 1 .. Len(s) - 1 : s[i].key # s[Len(s)].key
  BY <1>2 DEF StackOK
<1>7. KeysOf(u) = KeysOf(s) \ {Last(s).key}
  BY <1>2, <1>6 DEF KeysOf
<1> QED
  BY <1>4, <1>5, <1>7 DEF u

\* A frame of its own for a key that is neither resolved nor on the stack.
LEMMA Pushed ==
  ASSUME NEW r, NEW s, StackOK(r, s), NEW k, k \notin KeysOf(s), k \notin DOMAIN r
  PROVE  StackOK(r, Append(s, Frame(k)))
<1>1. PICK K, T : s \in Seq(FrameSet(K, T))
  BY DEF StackOK, StackTyped
<1> DEFINE L == K \cup {k}
           U == T \cup {<<>>}
           w == Append(s, Frame(k))
<1>2. s \in Seq(FrameSet(L, U))
  BY <1>1, FramesGrow
<1>3. Frame(k) \in FrameSet(L, U)
  BY DEF Frame, FrameSet
<1>4. Frame(k).key = k /\ FrameOK(r, Frame(k))
  BY DEF Frame, FrameOK
<1> HIDE DEF L, U
<1>5. /\ w \in Seq(FrameSet(L, U)) /\ Len(w) = Len(s) + 1 /\ Len(s) \in Nat
      /\ w[Len(s) + 1] = Frame(k) /\ \A i \in 1 .. Len(s) : w[i] = s[i]
  BY <1>2, <1>3
<1> HIDE DEF w
<1>6. StackTyped(w)
  BY <1>5 DEF StackTyped
<1>7. \A i \in 1 .. Len(w) : FrameOK(r, w[i]) /\ w[i].key \notin DOMAIN r
  BY <1>4, <1>5 DEF StackOK
<1>8. \A i \in 1 .. Len(s) : s[i].key # k
  BY DEF KeysOf
<1>9. \A i, j \in 1 .. Len(w) : w[i].key = w[j].key => i = j
  BY <1>4, <1>5, <1>8 DEF StackOK
<1> QED
  BY <1>6, <1>7, <1>9 DEF StackOK, w

\* A change of one frame that neither its key nor what it has been told feels.
LEMMA FailedKeeps ==
  ASSUME NEW r, NEW s, StackOK(r, s)
  PROVE  StackOK(r, Failed(s)) /\ KeysOf(Failed(s)) = KeysOf(s)
<1>1. CASE s = <<>> \/ recipe.way = "resolver"
  BY <1>1 DEF Failed
<1>2. CASE s # <<>> /\ recipe.way # "resolver"
  <2> DEFINE f == [Last(s) EXCEPT !.failed = TRUE]
  <2>1. PICK K, T : s \in Seq(FrameSet(K, T))
    BY DEF StackOK, StackTyped
  <2>2. Last(s) \in FrameSet(K, T) /\ FrameOK(r, Last(s))
    BY <1>2, <2>1, TopOf, Popped
  <2>3. f \in FrameSet(K, T) /\ f.key = Last(s).key /\ FrameOK(r, f)
    BY <2>2 DEF FrameSet, FrameOK
  <2>4. Failed(s) = WithTop(s, f)
    BY <1>2 DEF Failed
  <2> HIDE DEF f
  <2> QED
    BY <1>2, <2>1, <2>3, <2>4, TopChanged
<1> QED
  BY <1>1, <1>2

\* The innermost frame changed twice.
LEMMA TopTwice ==
  ASSUME NEW K, NEW T, NEW s \in Seq(FrameSet(K, T)), s # <<>>,
         NEW f \in FrameSet(K, T), NEW g \in FrameSet(K, T)
  PROVE  /\ WithTop(s, f) # <<>> /\ Last(WithTop(s, f)) = f
         /\ WithTop(WithTop(s, f), g) = WithTop(s, g)
<1> DEFINE w == WithTop(s, f)
<1>1. Len(s) \in Nat \ {0}
  BY TopOf
<1>2. /\ w \in Seq(FrameSet(K, T)) /\ Len(w) = Len(s)
      /\ \A i \in 1 .. Len(s) : w[i] = IF i = Len(s) THEN f ELSE s[i]
  BY WithTopIs
<1> HIDE DEF w
<1>3. w # <<>>
  BY <1>1, <1>2
<1>4. Last(w) = f
  BY <1>1, <1>2, <1>3, TopOf
<1>5. Front(w) = Front(s)
  <2>1. /\ Front(s) \in Seq(FrameSet(K, T)) /\ Len(Front(s)) = Len(s) - 1
        /\ \A i \in 1 .. Len(s) - 1 : Front(s)[i] = s[i]
    BY TopOf
  <2>2. /\ Front(w) \in Seq(FrameSet(K, T)) /\ Len(Front(w)) = Len(w) - 1
        /\ \A i \in 1 .. Len(w) - 1 : Front(w)[i] = w[i]
    BY <1>2, <1>3, TopOf
  <2>3. \A i \in 1 .. Len(s) - 1 : w[i] = s[i]
    BY <1>1, <1>2
  <2> QED
    BY <1>1, <1>2, <2>1, <2>2, <2>3
<1> QED
  BY <1>3, <1>4, <1>5 DEF WithTop, w

\* The innermost frame is told the node of a resolved key.
LEMMA ToldKeeps ==
  ASSUME NEW r, NEW s, StackOK(r, s), NEW k \in DOMAIN r, r[k] \in Nat
  PROVE  /\ StackOK(r, record_in_caller_frame(Noted(s, k), r[k]))
         /\ StackOK(r, Noted(record_in_caller_frame(s, r[k]), k))
<1>1. CASE s = <<>>
  BY <1>1 DEF record_in_caller_frame, Noted
<1>2. CASE s # <<>>
  <2> DEFINE f == [Last(s) EXCEPT !.asked = Append(@, k)]
             d == [Last(s) EXCEPT !.deps = Append(@, r[k])]
             g == [f EXCEPT !.deps = Append(@, r[k])]
  <2>1. PICK K, T : s \in Seq(FrameSet(K, T))
    BY DEF StackOK, StackTyped
  <2> DEFINE L == K \cup {k}
  <2>2. s \in Seq(FrameSet(L, T))
    BY <2>1, FramesGrow
  <2>3. Last(s) \in FrameSet(L, T) /\ FrameOK(r, Last(s))
    BY <1>2, <2>2, TopOf, Popped
  <2>4. Last(s).asked \in Seq(L) /\ Last(s).deps \in Seq(Nat) /\ k \in L
    BY <2>3 DEF FrameSet
  <2>5. Append(Last(s).asked, k) \in Seq(L) /\ Append(Last(s).deps, r[k]) \in Seq(Nat)
    BY <2>4
  <2>6. /\ f \in FrameSet(L, T) /\ f.key = Last(s).key
        /\ f.asked = Append(Last(s).asked, k) /\ f.deps = Last(s).deps
    BY <2>3, <2>5 DEF FrameSet
  <2>7. d \in FrameSet(L, T) /\ d.asked = Last(s).asked
    BY <2>3, <2>5 DEF FrameSet
  <2>8. g = [d EXCEPT !.asked = Append(@, k)]
    BY <2>3 DEF FrameSet
  <2>9. g \in FrameSet(L, T) /\ g.key = Last(s).key
        /\ g.asked = Append(Last(s).asked, k) /\ g.deps = Append(Last(s).deps, r[k])
    <3> HIDE DEF f
    <3> QED
      BY <2>5, <2>6 DEF FrameSet
  <2> HIDE DEF L, f, g, d
  <2>10. FrameOK(r, g)
    BY <2>3, <2>4, <2>9 DEF FrameOK
  <2>11. StackOK(r, WithTop(s, g))
    BY <1>2, <2>2, <2>9, <2>10, TopChanged
  <2>12. record_in_caller_frame(Noted(s, k), r[k]) = WithTop(s, g)
    <3>1. Noted(s, k) = WithTop(s, f)
      BY <1>2 DEF Noted, f
    <3>2. /\ WithTop(s, f) # <<>> /\ Last(WithTop(s, f)) = f
          /\ WithTop(WithTop(s, f), g) = WithTop(s, g)
      BY <1>2, <2>2, <2>6, <2>9, TopTwice
    <3> QED
      BY <3>1, <3>2 DEF record_in_caller_frame, g
  <2>13. Noted(record_in_caller_frame(s, r[k]), k) = WithTop(s, g)
    <3>1. record_in_caller_frame(s, r[k]) = WithTop(s, d)
      BY <1>2 DEF record_in_caller_frame, d
    <3>2. /\ WithTop(s, d) # <<>> /\ Last(WithTop(s, d)) = d
          /\ WithTop(WithTop(s, d), g) = WithTop(s, g)
      BY <1>2, <2>2, <2>7, <2>9, TopTwice
    <3> QED
      BY <2>8, <3>1, <3>2 DEF Noted
  <2> QED
    BY <2>11, <2>12, <2>13
<1> QED
  BY <1>1, <1>2

\* resolve() answers at once, fails on a cycle, or pushes a frame.
LEMMA ResolveKeeps ==
  ASSUME NEW s, StackOK(resolved, s), KeysOf(s) = in_progress,
         resolved \in [DOMAIN resolved -> Nodes], PendingInv, NEW k
  PROVE  StackOK(resolved, Resolve(s, k))
<1>1. CASE is_resolved(k)
  <2>1. k \in DOMAIN resolved /\ resolved[k] \in Nat
    BY <1>1 DEF is_resolved, Nodes, PendingInv
  <2>2. Resolve(s, k) = record_in_caller_frame(Noted(s, k), resolved[k])
    BY <1>1 DEF Resolve, resolve
  <2> QED
    BY <2>1, <2>2, ToldKeeps
<1>2. CASE ~is_resolved(k) /\ k \in in_progress
  <2>1. Resolve(s, k) = Failed(s)
    BY <1>2 DEF Resolve, resolve
  <2> QED
    BY <2>1, FailedKeeps
<1>3. CASE ~is_resolved(k) /\ k \notin in_progress
  <2>1. Resolve(s, k) = Append(s, Frame(k))
    BY <1>3 DEF Resolve, resolve
  <2> QED
    BY <1>3, <2>1, Pushed DEF is_resolved
<1> QED
  BY <1>1, <1>2, <1>3

-----------------------------------------------------------------------------
(* The steps *)

\* A step of the calls in progress only.
LEMMA QuietStep ==
  ASSUME KInv, Quiet, phase = "idle", StackOK(resolved, stack')
  PROVE  KInv'
<1>1. BInv'
  BY StutterKeeps DEF KInv, Quiet
<1>2. verdict' = verdict /\ phase' = phase /\ edges' = edges /\ count' = count
      /\ resolved' = resolved /\ asked' = asked
  BY DEF Quiet, builder_vars, pending, last
<1>3. StackOK(resolved', stack')
  BY <1>2
<1>4. ResolvedInv' /\ EdgesDown'
  BY <1>2 DEF KInv, ResolvedInv, EdgesInCallOrder, EdgesDown, Nodes
<1> QED
  BY <1>1, <1>2, <1>3, <1>4 DEF KInv

LEMMA CallKeeps ==
  ASSUME KInv, NEW k \in Key, Call(k)
  PROVE  KInv'
<1>1. stack = <<>> /\ phase = "idle" /\ stack' = resolve(stack, k) /\ Quiet
  BY DEF Call, AtRest
<1>2. stack' = Resolve(stack, k)
  BY <1>1 DEF Resolve, Noted
<1>3. StackOK(resolved, stack') 
  BY <1>2, ResolveKeeps, InProgress DEF KInv, BInv, StackOK, ResolvedInv
<1> QED
  BY <1>1, <1>3, QuietStep

\* The innermost frame of calls in progress.
LEMMA TopIs ==
  ASSUME KInv, stack # <<>>
  PROVE  /\ phase = "idle" /\ StackOK(resolved, stack) /\ KeysOf(stack) = in_progress
         /\ FrameOK(resolved, Top)
         /\ \E K, T : stack \in Seq(FrameSet(K, T)) /\ Top \in FrameSet(K, T)
<1>1. phase = "idle" /\ StackOK(resolved, stack) /\ StackTyped(stack)
  BY DEF KInv, StackOK
<1>2. PICK K, T : stack \in Seq(FrameSet(K, T))
  BY <1>1 DEF StackTyped
<1> QED
  BY <1>1, <1>2, TopOf, Popped, InProgress DEF Top

LEMMA AskKeeps ==
  ASSUME KInv, NEW k \in Key, Ask(k)
  PROVE  KInv'
<1> DEFINE f == [Top EXCEPT !.calls = @ + 1]
           w == WithTop(stack, f)
<1>1. stack # <<>> /\ stack' = Resolve(w, k) /\ Quiet
  BY DEF Ask
<1>2. PICK K, T : stack \in Seq(FrameSet(K, T)) /\ Top \in FrameSet(K, T)
  BY <1>1, TopIs
<1>3. f \in FrameSet(K, T) /\ f.key = Top.key /\ FrameOK(resolved, f)
  <2>1. Top.calls + 1 \in Nat
    BY <1>2 DEF FrameSet
  <2>2. f \in FrameSet(K, T) /\ f.key = Top.key /\ f.asked = Top.asked /\ f.deps = Top.deps
    BY <1>2, <2>1 DEF FrameSet
  <2> HIDE DEF f
  <2> QED
    BY <1>1, <2>2, TopIs DEF FrameOK
<1> HIDE DEF f
<1>4. StackOK(resolved, w) /\ KeysOf(w) = in_progress
  BY <1>1, <1>2, <1>3, TopChanged, TopIs DEF Top
<1> HIDE DEF w
<1>5. StackOK(resolved, stack')
  BY <1>1, <1>4, ResolveKeeps DEF KInv, BInv, ResolvedInv
<1> QED
  BY <1>1, <1>5, TopIs, QuietStep

LEMMA DiscoverKeeps ==
  ASSUME KInv, Discover
  PROVE  KInv'
<1> DEFINE new == newly_needed(Top.key)
           f == [Top EXCEPT !.todo = new]
<1>1. stack # <<>> /\ stack' = WithTop(stack, f) /\ Quiet
  BY DEF Discover
<1> HIDE DEF new
<1>2. PICK K, T : stack \in Seq(FrameSet(K, T)) /\ Top \in FrameSet(K, T)
  BY <1>1, TopIs
<1> DEFINE U == T \cup {new}
<1>3. stack \in Seq(FrameSet(K, U)) /\ Top \in FrameSet(K, U)
  BY <1>2, FramesGrow DEF FrameSet
<1>4. f \in FrameSet(K, U) /\ f.key = Top.key /\ FrameOK(resolved, f)
  BY <1>1, <1>3, TopIs DEF FrameSet, FrameOK
<1> HIDE DEF f, U
<1>5. StackOK(resolved, stack')
  BY <1>1, <1>3, <1>4, TopChanged, TopIs DEF Top
<1> QED
  BY <1>1, <1>5, TopIs, QuietStep

LEMMA ResolveNextKeeps ==
  ASSUME KInv, ResolveNext
  PROVE  KInv'
<1> DEFINE rest == Tail(Top.todo)
           k == Head(Top.todo)
           f == [Top EXCEPT !.todo = rest]
           w == WithTop(stack, f)
<1>1. stack # <<>> /\ stack' = Resolve(w, k) /\ Quiet
  BY DEF ResolveNext
<1> HIDE DEF rest, k
<1>2. PICK K, T : stack \in Seq(FrameSet(K, T)) /\ Top \in FrameSet(K, T)
  BY <1>1, TopIs
<1> DEFINE U == T \cup {rest}
<1>3. stack \in Seq(FrameSet(K, U)) /\ Top \in FrameSet(K, U)
  BY <1>2, FramesGrow DEF FrameSet
<1>4. f \in FrameSet(K, U) /\ f.key = Top.key /\ FrameOK(resolved, f)
  BY <1>1, <1>3, TopIs DEF FrameSet, FrameOK
<1> HIDE DEF f, U
<1>5. StackOK(resolved, w) /\ KeysOf(w) = in_progress
  BY <1>1, <1>3, <1>4, TopChanged, TopIs DEF Top
<1> HIDE DEF w
<1>6. StackOK(resolved, stack')
  BY <1>1, <1>5, ResolveKeeps DEF KInv, BInv, ResolvedInv
<1> QED
  BY <1>1, <1>6, TopIs, QuietStep

LEMMA ReturnFailureKeeps ==
  ASSUME KInv, ReturnFailure
  PROVE  KInv'
<1>1. stack # <<>> /\ stack' = Failed(Front(stack)) /\ Quiet
  BY DEF ReturnFailure, MayReturn
<1>2. StackOK(resolved, stack')
  BY <1>1, TopIs, Popped, FailedKeeps
<1> QED
  BY <1>1, <1>2, TopIs, QuietStep

LEMMA WithKeyVersionKeeps ==
  ASSUME KInv, NEW k \in Key, NEW v \in Version, with_key_version(k, v)
  PROVE  KInv'
<1>1. /\ stack = <<>> /\ phase = "idle" /\ phase' = phase /\ UNCHANGED keyed
      /\ stamps' = [stamps EXCEPT ![resolved[k] + 1] = v] /\ resolved[k] \in Nodes
      /\ edges' = edges /\ count' = count /\ verdict' = "none" /\ graph' = NoGraph
  BY DEF with_key_version, AtRest, with_node_version, Forget
<1>2. PendingInv'
  <2>1. PendingInv
    BY DEF KInv, BInv
  <2>2. resolved[k] + 1 \in 1 .. Len(stamps) /\ stamps \in Seq(Version)
    BY <1>1, <2>1 DEF PendingInv, Nodes
  <2>3. stamps' \in Seq(Version) /\ Len(stamps') = Len(stamps)
    BY <1>1, <2>2
  <2> QED
    BY <1>1, <2>1, <2>3 DEF PendingInv
<1>3. BInv'
  BY <1>1, <1>2, IdleStep DEF KInv
<1>4. stack' = stack /\ resolved' = resolved /\ asked' = asked
  BY <1>1 DEF keyed
<1>5. StackOK(resolved', stack')
  BY <1>4 DEF KInv
<1>6. ResolvedInv' /\ EdgesDown'
  BY <1>1, <1>4 DEF KInv, ResolvedInv, EdgesInCallOrder, EdgesDown, Nodes
<1> QED
  BY <1>1, <1>3, <1>4, <1>5, <1>6 DEF KInv

\* Edges that lead down leave nothing for build() to refuse.
LEMMA NothingToRefuse ==
  ASSUME PendingInv, EdgesDown
  PROVE  ~Dangling /\ ~Cyclic
<1>1. \A e \in Range(edges) : e.node \in Nodes /\ e.dependency \in Nat /\ e.dependency < e.node
  <2>1. DOMAIN edges = 1 .. Len(edges)
    BY DEF PendingInv
  <2> QED
    BY <2>1, EdgesAre DEF EdgesDown, Range
<1>2. ~Dangling
  BY <1>1 DEF Dangling, Nodes, PendingInv
<1>3. ASSUME Cyclic PROVE FALSE
  <2>1. PICK S \in SUBSET Nodes : S # {} /\ \A n \in S : Depends(n, S)
    BY <1>3 DEF Cyclic
  <2>2. S \subseteq Nat
    BY <2>1 DEF Nodes, PendingInv
  <2>3. PICK n \in S : \A m \in S : n <= m
    BY <2>1, <2>2, LeastNat
  <2>4. PICK e \in Range(edges) : e.node = n /\ e.dependency \in S
    BY <2>1, <2>3 DEF Depends
  <2> QED
    BY <1>1, <2>2, <2>3, <2>4
<1> QED
  BY <1>2, <1>3

LEMMA KeyedBuildKeeps ==
  ASSUME KInv, KeyedBuild
  PROVE  KInv'
<1>1. stack = <<>> /\ (Build \/ BuildStep) /\ UNCHANGED keyed
  BY DEF KeyedBuild
<1>2. BInv' /\ UNCHANGED pending
  <2>1. UNCHANGED pending
    BY <1>1 DEF Build, BuildStep, CheckEdge, QueueSource, QueueDone, TakeReady, ExpandEdge,
                ExpandDone, SortDone, RankNode, Freeze
  <2> QED
    BY <1>1, <2>1, BuildStepKeeps DEF KInv
<1>3. verdict' \in {"none", "ok"}
  <2>1. CASE Build
    BY <2>1 DEF Build, Forget
  <2>2. CASE BuildStep /\ phase' = "idle"
    <3>1. phase # "idle"
      BY <2>2 DEF BuildStep, CheckEdge, QueueSource, QueueDone, TakeReady, ExpandEdge,
                  ExpandDone, SortDone, RankNode, Freeze
    <3>2. ~Dangling /\ ~Cyclic
      BY NothingToRefuse DEF KInv, BInv
    <3> QED
      BY <2>2, <3>1, <3>2, OutcomeRight DEF KInv
  <2>3. CASE BuildStep /\ phase' # "idle"
    <3>1. verdict' = verdict
      BY <2>3 DEF BuildStep, CheckEdge, QueueSource, QueueDone, TakeReady, ExpandEdge,
                  ExpandDone, SortDone, RankNode, Freeze, Finish, last
    <3> QED
      BY <3>1 DEF KInv
  <2> QED
    BY <1>1, <2>1, <2>2, <2>3
<1>4. stack' = stack /\ resolved' = resolved /\ asked' = asked /\ edges' = edges /\ count' = count
  BY <1>1, <1>2 DEF keyed, pending
<1>5. StackOK(resolved', stack')
  BY <1>4 DEF KInv
<1>6. ResolvedInv' /\ EdgesDown'
  BY <1>4 DEF KInv, ResolvedInv, EdgesInCallOrder, EdgesDown, Nodes
<1> QED
  BY <1>1, <1>2, <1>3, <1>4, <1>5, <1>6 DEF KInv

-----------------------------------------------------------------------------
(* A resolver returns success. *)

\* What a frame knows is not lost when another key is resolved.
LEMMA ResolvedGrows ==
  ASSUME NEW r, NEW q, DOMAIN r \subseteq DOMAIN q, \A x \in DOMAIN r : q[x] = r[x],
         NEW s, StackOK(r, s), KeysOf(s) \cap DOMAIN q = {}
  PROVE  StackOK(q, s)
<1>1. \A i \in 1 .. Len(s) : FrameOK(q, s[i])
  BY DEF StackOK, FrameOK
<1>2. \A i \in 1 .. Len(s) : s[i].key \notin DOMAIN q
  BY DEF KeysOf
<1> QED
  BY <1>1, <1>2 DEF StackOK

LEMMA ReturnOkKeeps ==
  ASSUME KInv, ReturnOk
  PROVE  KInv'
<1> DEFINE t == Top
           u == Front(stack)
           d == t.deps
           a == t.asked
           k == t.key
           E == [i \in DOMAIN d |-> [node |-> count, dependency |-> d[i]]]
           m == Len(edges)
<1>1. /\ stack # <<>> /\ count' = count + 1 /\ stamps' = Append(stamps, 0) /\ edges' = edges \o E
      /\ verdict' = "none" /\ graph' = NoGraph /\ phase' = phase
      /\ resolved' = emplaced(resolved, k, count) /\ asked' = emplaced(asked, k, a)
      /\ stack' = Noted(record_in_caller_frame(u, count), k)
  BY DEF ReturnOk, MayReturn, Forget
<1>2. /\ phase = "idle" /\ FrameOK(resolved, t) /\ StackOK(resolved, u)
      /\ k \notin DOMAIN resolved /\ k \notin KeysOf(u)
      /\ \A x \in KeysOf(u) : x \notin DOMAIN resolved
  <2>1. /\ phase = "idle" /\ StackOK(resolved, stack) /\ FrameOK(resolved, t)
    BY <1>1, TopIs
  <2>2. /\ StackOK(resolved, u) /\ KeysOf(u) = KeysOf(stack) \ {k} /\ k \in KeysOf(stack)
    BY <1>1, <2>1, Popped DEF Top
  <2>3. \A x \in KeysOf(stack) : x \notin DOMAIN resolved
    BY <2>1 DEF StackOK, KeysOf
  <2> QED
    BY <2>1, <2>2, <2>3
<1>3. PICK K, T : t \in FrameSet(K, T)
  BY <1>1, TopIs
<1>4. d \in Seq(Nat) /\ a \in Seq(K)
  BY <1>3 DEF FrameSet
<1> HIDE DEF t, u, d, a, k
<1>5. PendingInv /\ ResolvedInv /\ EdgesDown
  BY DEF KInv, BInv
<1>6. /\ count \in Nat /\ m \in Nat /\ edges \in Seq(Ends)
      /\ resolved \in [DOMAIN resolved -> Nodes]
      /\ asked \in [DOMAIN resolved -> Seq(DOMAIN resolved)]
  BY <1>5 DEF PendingInv, ResolvedInv
<1>7. /\ Len(a) = Len(d) /\ Len(d) \in Nat /\ DOMAIN a = 1 .. Len(d) /\ DOMAIN d = 1 .. Len(d)
      /\ \A i \in 1 .. Len(d) : a[i] \in DOMAIN resolved /\ d[i] = resolved[a[i]] /\ d[i] \in Nodes
  <2>1. Len(a) = Len(d) /\ Len(d) \in Nat /\ DOMAIN a = 1 .. Len(d) /\ DOMAIN d = 1 .. Len(d)
    BY <1>2, <1>4 DEF FrameOK, a, d
  <2>2. \A i \in 1 .. Len(a) : a[i] \in DOMAIN resolved /\ d[i] = resolved[a[i]]
    BY <1>2 DEF FrameOK, a, d
  <2> QED
    BY <1>6, <2>1, <2>2
<1>8. E \in Seq(Ends) /\ Len(E) = Len(d)
      /\ \A i \in 1 .. Len(d) : E[i] = [node |-> count, dependency |-> d[i]]
  <2>1. \A i \in 1 .. Len(d) : [node |-> count, dependency |-> d[i]] \in Ends
    BY <1>4, <1>6, <1>7 DEF Ends
  <2>2. E \in [1 .. Len(d) -> Ends]
    BY <1>7, <2>1
  <2> QED
    BY <1>7, <2>2
<1> HIDE DEF E
<1>9. /\ edges' \in Seq(Ends) /\ Len(edges') = m + Len(d)
      /\ \A i \in 1 .. m : edges'[i] = edges[i]
      /\ \A i \in 1 .. Len(d) : edges'[m + i] = [node |-> count, dependency |-> d[i]]
  <2>1. edges' = edges \o E /\ edges \in Seq(Ends) /\ E \in Seq(Ends) /\ Len(E) = Len(d)
    BY <1>1, <1>6, <1>8
  <2>2. /\ edges' \in Seq(Ends) /\ Len(edges') = Len(edges) + Len(E)
        /\ \A i \in 1 .. Len(edges) + Len(E) :
             edges'[i] = IF i <= Len(edges) THEN edges[i] ELSE E[i - Len(edges)]
    BY <2>1, ConcatProperties
  <2> HIDE DEF m
  <2>3. /\ Len(edges') = m + Len(d)
        /\ \A i \in 1 .. m + Len(d) : edges'[i] = IF i <= m THEN edges[i] ELSE E[i - m]
    BY <2>1, <2>2 DEF m
  <2>4. \A i \in 1 .. m : i \in 1 .. m + Len(d) /\ i <= m
    BY <1>6, <1>7
  <2>5. \A i \in 1 .. Len(d) : m + i \in 1 .. m + Len(d) /\ ~(m + i <= m) /\ m + i - m = i
    BY <1>6, <1>7
  <2>6. \A i \in 1 .. m : edges'[i] = edges[i]
    BY <2>3, <2>4
  <2>7. \A i \in 1 .. Len(d) : edges'[m + i] = E[i]
    <3> SUFFICES ASSUME NEW i \in 1 .. Len(d)
                 PROVE  edges'[m + i] = E[i]
      OBVIOUS
    <3> DEFINE j == m + i
    <3>1. j \in 1 .. m + Len(d) /\ ~(j <= m) /\ j - m = i
      BY <1>6, <1>7
    <3> HIDE DEF j
    <3>2. edges'[j] = E[j - m]
      BY <2>3, <3>1
    <3> QED
      BY <3>1, <3>2 DEF j
  <2> QED
    BY <1>8, <2>2, <2>3, <2>6, <2>7
<1> HIDE DEF m
<1>10. PendingInv'
  <2>1. stamps' \in Seq(Version) /\ Len(stamps') = count + 1
    BY <1>1, <1>5, BuilderAssumption DEF PendingInv
  <2> QED
    BY <1>1, <1>6, <1>9, <2>1 DEF PendingInv
<1>11. BInv'
  BY <1>1, <1>2, <1>10, IdleStep DEF KInv
<1>12. /\ DOMAIN resolved' = DOMAIN resolved \cup {k} /\ resolved'[k] = count
       /\ \A x \in DOMAIN resolved : resolved'[x] = resolved[x]
       /\ resolved' = [x \in DOMAIN resolved' |-> resolved'[x]]
  <2>1. resolved' = emplaced(resolved, k, count) /\ k \notin DOMAIN resolved
    BY <1>1, <1>2
  <2>2. /\ DOMAIN resolved' = DOMAIN resolved \cup {k} /\ resolved'[k] = count
        /\ \A x \in DOMAIN resolved : resolved'[x] = resolved[x]
        /\ resolved' = [x \in DOMAIN resolved \cup {k} |-> resolved'[x]]
    BY ONLY <2>1, Zenon DEF emplaced
  <2> QED
    BY <2>2
<1>13. /\ DOMAIN asked' = DOMAIN resolved' /\ asked'[k] = a
       /\ \A x \in DOMAIN resolved : asked'[x] = asked[x]
       /\ asked' = [x \in DOMAIN resolved' |-> asked'[x]]
  <2>1. DOMAIN asked = DOMAIN resolved /\ asked = [x \in DOMAIN asked |-> asked[x]]
    BY <1>6
  <2>2. asked' = emplaced(asked, k, a) /\ k \notin DOMAIN asked
    BY <1>1, <1>2, <2>1
  <2>3. /\ DOMAIN asked' = DOMAIN asked \cup {k} /\ asked'[k] = a
        /\ \A x \in DOMAIN asked : asked'[x] = asked[x]
        /\ asked' = [x \in DOMAIN asked \cup {k} |-> asked'[x]]
    BY ONLY <2>2, Zenon DEF emplaced
  <2> QED
    BY <1>12, <2>1, <2>3
<1>14. StackOK(resolved', stack')
  <2>1. StackOK(resolved', u)
    BY <1>2, <1>12, ResolvedGrows
  <2>2. k \in DOMAIN resolved' /\ resolved'[k] \in Nat
    BY <1>6, <1>12
  <2> QED
    BY <1>1, <1>12, <2>1, <2>2, ToldKeeps
<1>15. EdgesDown'
  <2>1. Nodes \subseteq Nodes' /\ count \in Nodes' /\ \A x \in Nodes : x < count
    BY <1>1, <1>6 DEF Nodes
  <2> SUFFICES ASSUME NEW i \in 1 .. Len(edges')
               PROVE  edges'[i].node \in Nodes' /\ edges'[i].dependency < edges'[i].node
    BY DEF EdgesDown
  <2>2. CASE i \in 1 .. m
    <3>1. edges'[i] = edges[i] /\ i \in 1 .. Len(edges)
      BY <1>9, <2>2 DEF m
    <3> QED
      BY <1>5, <2>1, <3>1 DEF EdgesDown
  <2>3. CASE i \notin 1 .. m
    <3>1. i - m \in 1 .. Len(d) /\ m + (i - m) = i
      BY <1>6, <1>7, <1>9, <2>3
    <3>2. edges'[i] = [node |-> count, dependency |-> d[i - m]]
      BY <1>9, <3>1
    <3> QED
      BY <1>7, <2>1, <3>1, <3>2
  <2> QED
    BY <2>2, <2>3
<1>16. /\ resolved' \in [DOMAIN resolved' -> Nodes']
       /\ asked' \in [DOMAIN resolved' -> Seq(DOMAIN resolved')]
  <2>1. Nodes \subseteq Nodes' /\ count \in Nodes'
    BY <1>1, <1>6 DEF Nodes
  <2>2. \A x \in DOMAIN resolved' : resolved'[x] \in Nodes'
    BY <1>6, <1>12, <2>1
  <2>3. a \in Seq(DOMAIN resolved') /\ Seq(DOMAIN resolved) \subseteq Seq(DOMAIN resolved')
    <3>1. DOMAIN resolved \subseteq DOMAIN resolved'
      BY <1>12
    <3>2. Seq(DOMAIN resolved) \subseteq Seq(DOMAIN resolved')
      BY <3>1
    <3>3. \A i \in 1 .. Len(a) : a[i] \in DOMAIN resolved
      BY <1>7
    <3>4. a \in Seq(DOMAIN resolved)
      BY <1>4, <3>3
    <3> QED
      BY <3>2, <3>4
  <2>4. \A x \in DOMAIN resolved' : asked'[x] \in Seq(DOMAIN resolved')
    BY <1>6, <1>12, <1>13, <2>3
  <2> QED
    BY <1>12, <1>13, <2>2, <2>4
<1>17. EdgesInCallOrder'
  <2>1. DOMAIN edges = 1 .. m /\ DOMAIN edges' = 1 .. m + Len(d)
    BY <1>6, <1>9 DEF m
  <2> SUFFICES ASSUME NEW x \in DOMAIN resolved'
               PROVE  \E at \in [DOMAIN asked'[x] -> DOMAIN edges'] :
                 /\ \A i, j \in DOMAIN at : i < j => at[i] < at[j]
                 /\ {at[i] : i \in DOMAIN at} = {j \in DOMAIN edges' : edges'[j].node = resolved'[x]}
                 /\ \A i \in DOMAIN at : edges'[at[i]].dependency = resolved'[asked'[x][i]]
    BY DEF EdgesInCallOrder
  <2>2. CASE x = k
    <3> DEFINE at == [i \in 1 .. Len(d) |-> m + i]
    <3>1. at \in [DOMAIN asked'[x] -> DOMAIN edges']
      BY <1>6, <1>7, <1>13, <2>1, <2>2
    <3>2. \A i, j \in DOMAIN at : i < j => at[i] < at[j]
      BY <1>6
    <3>3. {at[i] : i \in DOMAIN at} = {j \in DOMAIN edges' : edges'[j].node = resolved'[x]}
      <4>1. \A j \in 1 .. m : edges'[j].node # count
        <5>1. \A j \in 1 .. m : edges'[j] = edges[j] /\ edges[j].node \in Nodes
          BY <1>5, <1>9 DEF EdgesDown, m
        <5> QED
          BY <1>6, <5>1 DEF Nodes
      <4>2. \A j \in 1 .. m + Len(d) : j \notin 1 .. m => j - m \in 1 .. Len(d) /\ m + (j - m) = j
        BY <1>6, <1>7
      <4>3. \A j \in 1 .. m + Len(d) : j \notin 1 .. m => j \in {at[i] : i \in DOMAIN at}
        BY <4>2
      <4>4. \A i \in 1 .. Len(d) : m + i \in 1 .. m + Len(d) /\ edges'[m + i].node = count
        <5> SUFFICES ASSUME NEW i \in 1 .. Len(d)
                     PROVE  m + i \in 1 .. m + Len(d) /\ edges'[m + i].node = count
          OBVIOUS
        <5>1. m + i \in 1 .. m + Len(d)
          BY <1>6, <1>7
        <5>2. edges'[m + i] = [node |-> count, dependency |-> d[i]]
          BY <1>9
        <5> QED
          BY <5>1, <5>2
      <4> QED
        BY <1>12, <2>1, <2>2, <4>1, <4>3, <4>4
    <3>4. \A i \in DOMAIN at : edges'[at[i]].dependency = resolved'[asked'[x][i]]
      <4> SUFFICES ASSUME NEW i \in 1 .. Len(d)
                   PROVE  edges'[m + i].dependency = resolved'[asked'[x][i]]
        OBVIOUS
      <4>1. edges'[m + i] = [node |-> count, dependency |-> d[i]]
        BY <1>9
      <4>2. d[i] = resolved[a[i]] /\ a[i] \in DOMAIN resolved
        BY <1>7
      <4>3. asked'[x][i] = a[i] /\ resolved'[a[i]] = resolved[a[i]]
        BY <1>12, <1>13, <2>2, <4>2
      <4> QED
        BY <4>1, <4>2, <4>3
    <3> HIDE DEF at
    <3> QED
      BY <3>1, <3>2, <3>3, <3>4
  <2>3. CASE x # k
    <3>1. x \in DOMAIN resolved /\ asked'[x] = asked[x] /\ resolved'[x] = resolved[x]
      BY <1>12, <1>13, <2>3
    <3>2. PICK at \in [DOMAIN asked[x] -> DOMAIN edges] :
            /\ \A i, j \in DOMAIN at : i < j => at[i] < at[j]
            /\ {at[i] : i \in DOMAIN at} = {j \in DOMAIN edges : edges[j].node = resolved[x]}
            /\ \A i \in DOMAIN at : edges[at[i]].dependency = resolved[asked[x][i]]
      BY <1>5, <3>1 DEF ResolvedInv, EdgesInCallOrder
    <3>3. at \in [DOMAIN asked'[x] -> DOMAIN edges']
      BY <1>6, <1>7, <2>1, <3>1
    <3>4. {j \in DOMAIN edges' : edges'[j].node = resolved'[x]}
            = {j \in DOMAIN edges : edges[j].node = resolved[x]}
      <4>1. resolved[x] # count
        BY <1>6, <3>1 DEF Nodes
      <4>2. \A j \in 1 .. m + Len(d) : j \notin 1 .. m => edges'[j].node = count
        <5> SUFFICES ASSUME NEW j \in 1 .. m + Len(d), j \notin 1 .. m
                     PROVE  edges'[j].node = count
          OBVIOUS
        <5>1. j - m \in 1 .. Len(d) /\ m + (j - m) = j
          BY <1>6, <1>7
        <5>2. edges'[m + (j - m)] = [node |-> count, dependency |-> d[j - m]]
          <6> DEFINE i == j - m
          <6>1. i \in 1 .. Len(d)
            BY <5>1
          <6> HIDE DEF i
          <6>2. edges'[m + i] = [node |-> count, dependency |-> d[i]]
            BY <1>9, <6>1
          <6> QED
            BY <6>2 DEF i
        <5> QED
          BY <5>1, <5>2
      <4>3. \A j \in 1 .. m : edges'[j].node = edges[j].node /\ j \in 1 .. m + Len(d)
        BY <1>6, <1>7, <1>9
      <4> QED
        BY <2>1, <3>1, <4>1, <4>2, <4>3
    <3>5. \A i \in DOMAIN at : edges'[at[i]].dependency = resolved'[asked'[x][i]]
      <4>1. \A i \in DOMAIN at : asked[x][i] \in DOMAIN resolved /\ at[i] \in 1 .. m
        BY <1>6, <2>1, <3>1
      <4> QED
        BY <1>9, <1>12, <3>1, <3>2, <4>1
    <3> QED
      BY <3>2, <3>3, <3>4, <3>5
  <2> QED
    BY <2>2, <2>3
<1> QED
  BY <1>1, <1>2, <1>11, <1>14, <1>15, <1>16, <1>17 DEF KInv, ResolvedInv

-----------------------------------------------------------------------------
LEMMA InitKInv ==
  ASSUME KeyedInit
  PROVE  KInv
<1>1. BInv /\ edges = <<>> /\ verdict = "none" /\ phase = "idle" /\ count = 0
      /\ stack = <<>> /\ resolved = <<>> /\ asked = <<>>
  BY InitBInv DEF KeyedInit, BuilderInit
<1>2. StackOK(resolved, stack)
  BY <1>1 DEF StackOK, StackTyped
<1>3. ResolvedInv /\ EdgesDown
  BY <1>1 DEF ResolvedInv, EdgesInCallOrder, EdgesDown
<1> QED
  BY <1>1, <1>2, <1>3 DEF KInv

LEMMA NextKInv ==
  ASSUME KInv, [KeyedNext]_keyed_vars
  PROVE  KInv'
<1>1. CASE UNCHANGED keyed_vars
  <2>1. UNCHANGED builder_vars /\ stack' = stack /\ resolved' = resolved /\ asked' = asked
        /\ verdict' = verdict /\ phase' = phase /\ edges' = edges /\ count' = count
    BY <1>1 DEF keyed_vars, keyed, builder_vars, pending, last
  <2>2. BInv'
    BY <2>1, StutterKeeps DEF KInv
  <2>3. StackOK(resolved', stack')
    BY <2>1 DEF KInv
  <2>4. ResolvedInv' /\ EdgesDown'
    BY <2>1 DEF KInv, ResolvedInv, EdgesInCallOrder, EdgesDown, Nodes
  <2> QED
    BY <2>1, <2>2, <2>3, <2>4 DEF KInv
<1>2. CASE KeyedNext
  BY <1>2, CallKeeps, AskKeeps, DiscoverKeeps, ResolveNextKeeps, ReturnOkKeeps, ReturnFailureKeeps,
     WithKeyVersionKeeps, KeyedBuildKeeps DEF KeyedNext
<1> QED
  BY <1>1, <1>2

LEMMA KInvImplies ==
  ASSUME KInv
  PROVE  KeyedGraphRight
<1>1. EdgesInCallOrder
  BY DEF KInv, ResolvedInv
<1>2. StackOK(resolved, stack) /\ in_progress = KeysOf(stack)
  BY InProgress DEF KInv, StackOK
<1>3. PICK K, T : stack \in Seq(FrameSet(K, T))
  BY <1>2 DEF StackOK, StackTyped
<1>4. Len(stack) = Cardinality(in_progress)
  <2> DEFINE n == Len(stack)
             f == [i \in 1 .. n |-> stack[i].key]
  <2>1. n \in Nat
    BY <1>3
  <2> HIDE DEF n
  <2>2. IsFiniteSet(1 .. n) /\ Cardinality(1 .. n) = n
    <3>1. 1 \in Int /\ n \in Int
      BY <2>1
    <3>2. IsFiniteSet(1 .. n) /\ Cardinality(1 .. n) = IF 1 > n THEN 0 ELSE n - 1 + 1
      BY <3>1, FS_Interval
    <3> QED
      BY <2>1, <3>2
  <2>3. f \in Surjection(1 .. n, KeysOf(stack))
    BY DEF Surjection, KeysOf, n
  <2>4. f \in Injection(1 .. n, KeysOf(stack))
    BY <1>2, <2>3 DEF Injection, IsInjective, Surjection, StackOK, n
  <2>5. Cardinality(KeysOf(stack)) = Cardinality(1 .. n)
    <3> HIDE DEF f
    <3> QED
      BY <2>2, <2>3, <2>4, FS_Surjection, FS_Injection
  <2> QED
    BY <1>2, <2>2, <2>5 DEF n
<1>5. in_progress \cap DOMAIN resolved = {}
  BY <1>2 DEF StackOK, KeysOf
<1>6. verdict \in {"none", "ok"} /\ \A e \in ToSet(edges) : e.dependency < e.node
  <2>1. DOMAIN edges = 1 .. Len(edges)
    BY DEF KInv, BInv, PendingInv
  <2> QED
    BY <2>1 DEF KInv, EdgesDown, ToSet
<1> QED
  BY <1>1, <1>4, <1>5, <1>6 DEF KeyedGraphRight, CyclesCutEarly

(* Whatever the client's resolvers ask for, in whatever nesting, and        *)
(* however they fail or are retried: the edges into a key's node lead from  *)
(* the keys its resolver asked for, in call order; cycles are cut before    *)
(* they recurse; and build() never refuses the graph (KeyedGraphRight).     *)
THEOREM KeyedGraphAlwaysRight == KeyedSpec => []KeyedGraphRight
<1>1. KeyedInit => KInv
  BY InitKInv
<1>2. KInv /\ [KeyedNext]_keyed_vars => KInv'
  BY NextKInv
<1>3. KInv => KeyedGraphRight
  BY KInvImplies
<1> QED
  BY <1>1, <1>2, <1>3, PTL DEF KeyedSpec

(* The graph of a keyed builder, whatever was declared through it and       *)
(* however often it was built, is one the executor can run                  *)
(* (GraphFitsExecutor).                                                     *)
THEOREM KeyedGraphsFit == KeyedSpec => []GraphFitsExecutor
<1>1. KeyedInit => KInv
  BY InitKInv
<1>2. KInv /\ [KeyedNext]_keyed_vars => KInv'
  BY NextKInv
<1>3. KInv => GraphFitsExecutor
  BY BInvFits DEF KInv
<1> QED
  BY <1>1, <1>2, <1>3, PTL DEF KeyedSpec

-----------------------------------------------------------------------------
(* The second client: pruning.  A finite set of numbers is listed in order *)
(* by Nth, and Rank finds a number's place in the list.                    *)

Rank(S, x) == Cardinality({y \in S : y <= x})

LEMMA RankStep ==
  ASSUME NEW S, S \subseteq Nat, IsFiniteSet(S), NEW x \in S
  PROVE  /\ Rank(S, x) \in 1 .. Cardinality(S)
         /\ Cardinality({y \in S : y < x}) = Rank(S, x) - 1
         /\ \A z \in S : z < x => Rank(S, z) < Rank(S, x)
<1> DEFINE B == {y \in S : y < x}
           A == {y \in S : y <= x}
<1>1. IsFiniteSet(A) /\ IsFiniteSet(B) /\ Cardinality(A) \in Nat /\ Cardinality(B) \in Nat
  BY FS_Subset, FS_CardinalityType
<1>2. A = B \cup {x} /\ x \notin B
  <2>1. x \in Nat /\ \A y \in S : y \in Nat
    OBVIOUS
  <2>2. \A y \in S : y <= x <=> y < x \/ y = x
    BY <2>1
  <2>3. ~(x < x)
    BY <2>1
  <2> QED
    BY <2>2, <2>3
<1>3. Cardinality(A) = Cardinality(B) + 1
  <2> HIDE DEF A, B
  <2> QED
    BY <1>1, <1>2, FS_AddElement
<1>4. Cardinality(A) <= Cardinality(S) /\ Cardinality(S) \in Nat
  BY FS_Subset, FS_CardinalityType
<1>5. ASSUME NEW z \in S, z < x PROVE Rank(S, z) < Rank(S, x)
  <2> DEFINE C == {y \in S : y <= z}
  <2>1. C \subseteq B
    <3>1. x \in Nat /\ z \in Nat /\ \A y \in S : y \in Nat
      OBVIOUS
    <3>2. \A y \in S : y <= z => y < x
      BY <1>5, <3>1
    <3> QED
      BY <3>2
  <2>2. Cardinality(C) <= Cardinality(B) /\ Cardinality(C) \in Nat
    <3> HIDE DEF B, C
    <3> QED
      BY <1>1, <2>1, FS_Subset, FS_CardinalityType
  <2> QED
    BY <1>1, <1>3, <2>2 DEF Rank
<1> QED
  BY <1>1, <1>3, <1>4, <1>5 DEF Rank

LEMMA NthIs ==
  ASSUME NEW S, S \subseteq Nat, IsFiniteSet(S)
  PROVE  /\ Cardinality(S) \in Nat
         /\ \A i \in 1 .. Cardinality(S) : Nth(S, i) \in S /\ Rank(S, Nth(S, i)) = i
         /\ \A x \in S : Rank(S, x) \in 1 .. Cardinality(S) /\ Nth(S, Rank(S, x)) = x
<1> DEFINE n == Cardinality(S)
           f == [x \in S |-> Rank(S, x)]
<1>1. n \in Nat
  BY FS_CardinalityType
<1>2. \A x \in S : Rank(S, x) \in 1 .. n
  BY RankStep
<1>3. \A x, y \in S : Rank(S, x) = Rank(S, y) => x = y
  <2> SUFFICES ASSUME NEW x \in S, NEW y \in S, x # y
               PROVE  Rank(S, x) # Rank(S, y)
    OBVIOUS
  <2>1. x < y \/ y < x
    OBVIOUS
  <2>2. Rank(S, x) \in Nat /\ Rank(S, y) \in Nat
    BY <1>2
  <2>3. x < y => Rank(S, x) < Rank(S, y)
    BY RankStep
  <2>4. y < x => Rank(S, y) < Rank(S, x)
    BY RankStep
  <2> QED
    BY <2>1, <2>2, <2>3, <2>4
<1>4. IsFiniteSet(1 .. n) /\ Cardinality(1 .. n) = n
  <2> HIDE DEF n
  <2>1. 1 \in Int /\ n \in Int
    BY <1>1
  <2>2. IsFiniteSet(1 .. n) /\ Cardinality(1 .. n) = IF 1 > n THEN 0 ELSE n - 1 + 1
    BY <2>1, FS_Interval
  <2> QED
    BY <1>1, <2>2
<1>5. f \in Injection(S, 1 .. n)
  BY <1>2, <1>3 DEF Injection, IsInjective
<1>6. f \in Surjection(S, 1 .. n)
  <2> HIDE DEF f
  <2> QED
    BY <1>4, <1>5, FS_Injection
<1>7. \A i \in 1 .. n : \E x \in S : Rank(S, x) = i
  BY <1>6 DEF Surjection
<1>8. \A i \in 1 .. n : Nth(S, i) \in S /\ Rank(S, Nth(S, i)) = i
  <2> SUFFICES ASSUME NEW i \in 1 .. n
               PROVE  Nth(S, i) \in S /\ Rank(S, Nth(S, i)) = i
    OBVIOUS
  <2>1. \E x \in S : Cardinality({y \in S : y <= x}) = i
    BY <1>7 DEF Rank
  <2> QED
    BY <2>1 DEF Nth, Rank
<1>9. \A x \in S : Nth(S, Rank(S, x)) = x
  BY <1>2, <1>3, <1>8
<1> QED
  BY <1>1, <1>2, <1>8, <1>9

\* Consecutive numbers.
LEMMA NthOfInterval ==
  ASSUME NEW a \in Nat, NEW n \in Nat
  PROVE  /\ Cardinality(a + 1 .. a + n) = n
         /\ \A i \in 1 .. n : Nth(a + 1 .. a + n, i) = a + i
<1> DEFINE S == a + 1 .. a + n
<1>1. IsFiniteSet(S) /\ Cardinality(S) = n /\ S \subseteq Nat
  <2>1. a + 1 \in Int /\ a + n \in Int
    OBVIOUS
  <2>2. IsFiniteSet(S) /\ Cardinality(S) = IF a + 1 > a + n THEN 0 ELSE a + n - (a + 1) + 1
    BY <2>1, FS_Interval
  <2> QED
    BY <2>2
<1>2. ASSUME NEW i \in 1 .. n PROVE Rank(S, a + i) = i /\ a + i \in S
  <2>1. {y \in S : y <= a + i} = a + 1 .. a + i
    OBVIOUS
  <2>2. a + 1 \in Int /\ a + i \in Int
    OBVIOUS
  <2>3. Cardinality(a + 1 .. a + i) = IF a + 1 > a + i THEN 0 ELSE a + i - (a + 1) + 1
    BY <2>2, FS_Interval
  <2>4. a + 1 <= a + i /\ a + i - (a + 1) + 1 = i /\ a + i \in S
    OBVIOUS
  <2>5. Rank(S, a + i) = Cardinality(a + 1 .. a + i)
    BY <2>1 DEF Rank
  <2> QED
    BY <2>3, <2>4, <2>5
<1> HIDE DEF S
<1>3. \A i \in 1 .. n : Nth(S, i) = a + i
  BY <1>1, <1>2, NthIs
<1> QED
  BY <1>1, <1>3 DEF S

-----------------------------------------------------------------------------
(* The invariant of pruning.  What is marked is needed, and what is marked *)
(* and expanded has its dependencies marked; the ids of the kept nodes are *)
(* their ranks; and the edges declared so far are those of the kept nodes  *)
(* below next_id, each node's in order, every one of them once.            *)

\* A frozen graph is what was declared.
OkGraph ==
  verdict = "ok" =>
    /\ phase = "idle" /\ graph.nodes = Nodes /\ graph.edges = edges
    /\ graph.version = [n \in Nodes |-> stamps[n + 1]]

EdgesOver(N) == [node : N, dependency : N]

GraphOK(g) ==
  /\ \E n \in Nat : g.nodes = 0 .. n - 1
  /\ g.edges \in Seq(EdgesOver(g.nodes))
  /\ g.version \in [g.nodes -> Version]
  /\ \A S \in (SUBSET g.nodes) \ {{}} :
       \E n \in S : \A k \in 1 .. Len(g.edges) :
         g.edges[k].node = n => g.edges[k].dependency \notin S

OldOK == GraphOK(old) /\ wanted \subseteq old.nodes

WalkInv ==
  /\ wanted \subseteq keep /\ keep \subseteq Needed(wanted) /\ work \subseteq keep
  /\ \A k \in 1 .. Len(old.edges) :
       old.edges[k].node \in keep \ work => old.edges[k].dependency \in keep

NewId(id) == Cardinality({k \in keep : k < id})

Numbered ==
  /\ work = {}
  /\ old_to_new = [id \in old.nodes |-> IF id \in keep THEN NewId(id) ELSE npos]
  /\ count = Cardinality(keep)
  /\ \A id \in keep : stamps[NewId(id) + 1] = old.version[id]
  /\ next_id \in Nat

\* What dependency_range lists, of a list of edges.
InputsOf(es, id) == [i \in 1 .. Cardinality(Into(es, id)) |-> es[Nth(Into(es, id), i)].dependency]

\* The edges from d that are to be declared, and those declared.
OldUses(d, a) == {k \in 1 .. Len(old.edges) : /\ old.edges[k].dependency = d
                                              /\ old.edges[k].node \in keep /\ old.edges[k].node < a}
NewUses(d) == {k \in 1 .. Len(edges) : edges[k].dependency = NewId(d)}

Declared(a) ==
  /\ \A k \in 1 .. Len(edges) : /\ \E id \in keep : id < a /\ edges[k].node = NewId(id)
                                /\ edges[k].dependency \in Nodes
  /\ \A id \in keep : id < a =>
       InputsOf(edges, NewId(id)) =
         [i \in 1 .. Cardinality(Into(old.edges, id)) |-> NewId(InputsOf(old.edges, id)[i])]
  /\ \A d \in keep : Cardinality(NewUses(d)) = Cardinality(OldUses(d, a))

PassInv ==
  /\ BInv /\ OkGraph
  /\ pass \in {"none", "walk", "declare", "build"}
  /\ pass # "none" => OldOK /\ WalkInv
  /\ pass \in {"walk", "declare"} => phase = "idle"
  /\ pass = "walk" => edges = <<>>
  /\ pass \in {"declare", "build"} => Numbered /\ Declared(next_id)
  /\ pass = "build" => /\ next_id \notin old.nodes /\ verdict \in {"none", "ok"}
                       /\ phase = "idle" => verdict = "ok"

LEMMA OldIs ==
  ASSUME OldOK
  PROVE  /\ IsFiniteSet(old.nodes) /\ old.nodes \subseteq Nat
         /\ DOMAIN old.edges = 1 .. Len(old.edges) /\ Len(old.edges) \in Nat
         /\ \A k \in 1 .. Len(old.edges) : /\ old.edges[k].node \in old.nodes
                                           /\ old.edges[k].dependency \in old.nodes
<1>1. PICK n \in Nat : old.nodes = 0 .. n - 1
  BY DEF OldOK, GraphOK
<1>2. IsFiniteSet(0 .. n - 1)
  BY FS_Interval
<1>3. old.edges \in Seq(EdgesOver(old.nodes))
  BY DEF OldOK, GraphOK
<1>4. ASSUME NEW k \in 1 .. Len(old.edges)
      PROVE  old.edges[k].node \in old.nodes /\ old.edges[k].dependency \in old.nodes
  <2>1. old.edges[k] \in EdgesOver(old.nodes)
    BY <1>3
  <2> QED
    BY <2>1 DEF EdgesOver
<1> QED
  BY <1>1, <1>2, <1>3, <1>4

LEMMA KeepIs ==
  ASSUME OldOK, WalkInv
  PROVE  keep \subseteq old.nodes /\ keep \subseteq Nat /\ IsFiniteSet(keep)
<1>1. keep \subseteq old.nodes
  BY DEF WalkInv, Needed
<1> QED
  BY <1>1, OldIs, FS_Subset

LEMMA NewIdIs ==
  ASSUME OldOK, WalkInv
  PROVE  /\ Cardinality(keep) \in Nat
         /\ \A id \in keep : /\ NewId(id) \in 0 .. Cardinality(keep) - 1
                             /\ Nth(keep, NewId(id) + 1) = id
         /\ \A id, d \in keep : NewId(id) = NewId(d) => id = d
         /\ \A n \in 0 .. Cardinality(keep) - 1 : \E id \in keep : NewId(id) = n
<1>1. keep \subseteq Nat /\ IsFiniteSet(keep) /\ Cardinality(keep) \in Nat
  BY KeepIs, FS_CardinalityType
<1>2. \A id \in keep : NewId(id) = Rank(keep, id) - 1
  BY <1>1, RankStep DEF NewId
<1>3. /\ \A id \in keep : Rank(keep, id) \in 1 .. Cardinality(keep) /\ Nth(keep, Rank(keep, id)) = id
      /\ \A i \in 1 .. Cardinality(keep) : Nth(keep, i) \in keep /\ Rank(keep, Nth(keep, i)) = i
  BY <1>1, NthIs
<1>4. \A id \in keep : NewId(id) + 1 = Rank(keep, id) /\ NewId(id) \in 0 .. Cardinality(keep) - 1
  BY <1>1, <1>2, <1>3
<1>5. \A id, d \in keep : NewId(id) = NewId(d) => id = d
  BY <1>3, <1>4
<1>6. ASSUME NEW n \in 0 .. Cardinality(keep) - 1 PROVE \E id \in keep : NewId(id) = n
  <2>1. n + 1 \in 1 .. Cardinality(keep)
    BY <1>1
  <2>2. Nth(keep, n + 1) \in keep /\ Rank(keep, Nth(keep, n + 1)) = n + 1
    BY <1>3, <2>1
  <2>3. NewId(Nth(keep, n + 1)) = n
    BY <1>2, <2>2
  <2> QED
    BY <2>2, <2>3
<1> QED
  BY <1>1, <1>3, <1>4, <1>5, <1>6

LEMMA KeepNeeded ==
  ASSUME OldOK, WalkInv, work = {}
  PROVE  keep = Needed(wanted)
<1>1. keep \in SUBSET old.nodes /\ wanted \subseteq keep
  BY KeepIs DEF WalkInv
<1>2. \A k \in DOMAIN old.edges : old.edges[k].node \in keep => old.edges[k].dependency \in keep
  BY OldIs DEF WalkInv
<1>3. Needed(wanted) \subseteq keep
  BY <1>1, <1>2 DEF Needed
<1> QED
  BY <1>3 DEF WalkInv

LEMMA IntoIs ==
  ASSUME NEW E, NEW es \in Seq(E), NEW id
  PROVE  /\ Into(es, id) \subseteq 1 .. Len(es) /\ Into(es, id) \subseteq Nat
         /\ IsFiniteSet(Into(es, id)) /\ Cardinality(Into(es, id)) \in Nat
         /\ \A i \in 1 .. Cardinality(Into(es, id)) :
              /\ Nth(Into(es, id), i) \in Into(es, id)
              /\ Rank(Into(es, id), Nth(Into(es, id), i)) = i
         /\ \A k \in Into(es, id) : /\ Rank(Into(es, id), k) \in 1 .. Cardinality(Into(es, id))
                                    /\ Nth(Into(es, id), Rank(Into(es, id), k)) = k
<1>1. Into(es, id) \subseteq 1 .. Len(es) /\ 1 .. Len(es) \subseteq Nat
  BY DEF Into
<1>2. IsFiniteSet(1 .. Len(es))
  <2>1. Len(es) \in Int /\ 1 \in Int
    OBVIOUS
  <2> QED
    BY <2>1, FS_Interval
<1>3. Into(es, id) \subseteq Nat /\ IsFiniteSet(Into(es, id))
  BY <1>1, <1>2, FS_Subset
<1> QED
  BY <1>1, <1>3, NthIs

\* What a kept node reads is kept.
LEMMA InputsKept ==
  ASSUME OldOK, WalkInv, work = {}, NEW id \in keep
  PROVE  \A i \in 1 .. Cardinality(Into(old.edges, id)) :
           /\ Nth(Into(old.edges, id), i) \in 1 .. Len(old.edges)
           /\ old.edges[Nth(Into(old.edges, id), i)].node = id
           /\ InputsOf(old.edges, id)[i] = old.edges[Nth(Into(old.edges, id), i)].dependency
           /\ InputsOf(old.edges, id)[i] \in keep
<1> SUFFICES ASSUME NEW i \in 1 .. Cardinality(Into(old.edges, id))
             PROVE  /\ Nth(Into(old.edges, id), i) \in 1 .. Len(old.edges)
                    /\ old.edges[Nth(Into(old.edges, id), i)].node = id
                    /\ InputsOf(old.edges, id)[i] = old.edges[Nth(Into(old.edges, id), i)].dependency
                    /\ InputsOf(old.edges, id)[i] \in keep
  OBVIOUS
<1> DEFINE k == Nth(Into(old.edges, id), i)
<1>1. k \in Into(old.edges, id) /\ k \in 1 .. Len(old.edges)
  BY IntoIs DEF OldOK, GraphOK
<1>2. InputsOf(old.edges, id)[i] = old.edges[k].dependency
  BY DEF InputsOf
<1>3. old.edges[k].node = id
  BY <1>1 DEF Into
<1> HIDE DEF k
<1>4. old.edges[k].dependency \in keep
  BY <1>1, <1>3 DEF WalkInv
<1> QED
  BY <1>1, <1>2, <1>3, <1>4 DEF k

-----------------------------------------------------------------------------
(* Steps that leave the pass alone *)

LEMMA OkGraphStep ==
  ASSUME PendingInv, OkGraph, [BuilderNext]_builder_vars
  PROVE  OkGraph'
<1>1. CASE UNCHANGED builder_vars
  BY <1>1 DEF OkGraph, builder_vars, pending, last, Nodes
<1>2. CASE add_node \/ Build \/ (\E n, d \in NodeId : depends_on(n, d))
           \/ (\E n \in NodeId, v \in Version : with_node_version(n, v))
  <2>1. verdict' = "none"
    BY <1>2 DEF add_node, Build, depends_on, with_node_version, Forget
  <2> QED
    BY <2>1 DEF OkGraph
<1>3. CASE Freeze
  <2>1. /\ phase' = "idle" /\ UNCHANGED pending
        /\ graph' = [nodes |-> Nodes, edges |-> edges, order |-> order, priority |-> priority,
                     version |-> [n \in Nodes |-> stamps[n + 1]]]
    BY <1>3 DEF Freeze, Finish
  <2>2. Nodes' = Nodes /\ edges' = edges /\ stamps' = stamps
    BY <2>1 DEF pending, Nodes
  <2> QED
    BY <2>1, <2>2 DEF OkGraph
<1>4. CASE BuildStep /\ ~Freeze
  <2>1. phase # "idle"
    BY <1>4 DEF BuildStep, CheckEdge, QueueSource, QueueDone, TakeReady, ExpandEdge,
                ExpandDone, SortDone, RankNode
  <2>2. verdict' \in {verdict, "unknown", "cycle"}
    BY <1>4 DEF BuildStep, CheckEdge, QueueSource, QueueDone, TakeReady, ExpandEdge,
                ExpandDone, SortDone, RankNode, Finish, last
  <2> QED
    BY <2>1, <2>2 DEF OkGraph
<1> QED
  BY <1>1, <1>2, <1>3, <1>4 DEF BuilderNext

\* The marks and the declarations stay as they are.
LEMMA PassKept ==
  ASSUME UNCHANGED pending, UNCHANGED <<old, wanted, keep, work, old_to_new, next_id>>
  PROVE  /\ OldOK => OldOK'
         /\ WalkInv => WalkInv'
         /\ Numbered => Numbered'
         /\ Declared(next_id) => Declared(next_id)'
         /\ edges' = edges /\ count' = count /\ stamps' = stamps /\ old' = old /\ wanted' = wanted
         /\ keep' = keep /\ work' = work /\ old_to_new' = old_to_new /\ next_id' = next_id
<1>1. /\ edges' = edges /\ count' = count /\ stamps' = stamps /\ old' = old /\ wanted' = wanted
      /\ keep' = keep /\ work' = work /\ old_to_new' = old_to_new /\ next_id' = next_id
  BY DEF pending
<1>2. OldOK => OldOK'
  BY <1>1 DEF OldOK
<1>3. WalkInv => WalkInv'
  BY <1>1 DEF WalkInv, Needed
<1>4. Numbered => Numbered'
  BY <1>1 DEF Numbered, NewId
<1>5. Declared(next_id) => Declared(next_id)'
  <2>1. \A id : NewId(id)' = NewId(id) /\ InputsOf(edges, id)' = InputsOf(edges, id)
               /\ InputsOf(old.edges, id)' = InputsOf(old.edges, id)
               /\ Into(old.edges, id)' = Into(old.edges, id)
    BY <1>1 DEF NewId, InputsOf, Into
  <2>2. \A id : InputsOf(edges, NewId(id))' = InputsOf(edges, NewId(id))
    BY <1>1, <2>1 DEF InputsOf, Into
  <2>3. \A d : NewUses(d)' = NewUses(d) /\ OldUses(d, next_id)' = OldUses(d, next_id)
    BY <1>1, <2>1 DEF NewUses, OldUses
  <2>4. Nodes' = Nodes
    BY <1>1 DEF Nodes
  <2> QED
    BY <1>1, <2>1, <2>2, <2>3, <2>4 DEF Declared
<1> QED
  BY <1>1, <1>2, <1>3, <1>4, <1>5

\* Steps of the builder when nothing is being pruned.
LEMMA NotPruning ==
  ASSUME PassInv, pass = "none", BuilderNext, UNCHANGED passes
  PROVE  PassInv'
<1>1. BInv'
  BY NextBInv DEF PassInv
<1>2. OkGraph'
  BY OkGraphStep DEF PassInv, BInv
<1>3. pass' = "none"
  BY DEF passes
<1> QED
  BY <1>1, <1>2, <1>3 DEF PassInv

LEMMA PruneKeeps ==
  ASSUME PassInv, NEW sinks, prune_to_sinks(sinks)
  PROVE  PassInv'
<1>1. /\ phase = "idle" /\ verdict = "ok" /\ sinks \subseteq graph.nodes
      /\ pass' = "walk" /\ old' = graph /\ wanted' = sinks /\ keep' = sinks /\ work' = sinks
      /\ count' = 0 /\ edges' = <<>> /\ stamps' = <<>>
      /\ verdict' = "none" /\ graph' = NoGraph /\ phase' = phase
  BY DEF prune_to_sinks, Forget
<1>2. PendingInv'
  BY <1>1 DEF PendingInv
<1>3. BInv'
  BY <1>1, <1>2, IdleStep DEF PassInv
<1>4. OkGraph'
  BY <1>1 DEF OkGraph
<1>5. OldOK'
  <2>1. /\ count \in Nat /\ edges \in Seq(Ends) /\ stamps \in Seq(Version) /\ Len(stamps) = count
    BY DEF PassInv, BInv, PendingInv
  <2>2. graph.nodes = 0 .. count - 1 /\ graph.edges = edges
        /\ graph.version = [n \in Nodes |-> stamps[n + 1]]
    BY <1>1 DEF PassInv, OkGraph, Nodes
  <2>3. GraphFitsExecutor
    BY BInvFits DEF PassInv
  <2>4. DOMAIN edges = 1 .. Len(edges) /\ Len(edges) \in Nat
    BY <2>1
  <2>5. edges \in Seq(EdgesOver(graph.nodes))
    <3>1. \A k \in 1 .. Len(edges) : edges[k].node \in graph.nodes /\ edges[k].dependency \in graph.nodes
      BY <2>2, <2>3, <2>4 DEF GraphFitsExecutor, Range
    <3>2. \A k \in 1 .. Len(edges) : edges[k] \in EdgesOver(graph.nodes)
      <4> SUFFICES ASSUME NEW k \in 1 .. Len(edges)
                   PROVE  edges[k] \in EdgesOver(graph.nodes)
        OBVIOUS
      <4>1. edges[k] \in Ends
        BY <2>1
      <4> QED
        BY <3>1, <4>1 DEF Ends, EdgesOver
    <3> QED
      BY <2>1, <2>4, <3>2
  <2>6. graph.version \in [graph.nodes -> Version]
    <3>1. \A n \in Nodes : n + 1 \in 1 .. Len(stamps)
      BY <2>1 DEF Nodes
    <3>2. \A n \in Nodes : stamps[n + 1] \in Version
      BY <2>1, <3>1
    <3> QED
      BY <2>2, <3>2 DEF Nodes
  <2>7. \A S \in (SUBSET graph.nodes) \ {{}} :
          \E n \in S : \A k \in 1 .. Len(edges) : edges[k].node = n => edges[k].dependency \notin S
    <3>1. \A S \in (SUBSET graph.nodes) \ {{}} :
            \E n \in S : \A e \in Range(graph.edges) : e.node = n => e.dependency \notin S
      BY <2>3 DEF GraphFitsExecutor
    <3>2. \A k \in 1 .. Len(edges) : edges[k] \in Range(graph.edges)
      BY <2>2, <2>4 DEF Range
    <3> QED
      BY <3>1, <3>2
  <2>8. GraphOK(graph)
    <3>1. \E n \in Nat : graph.nodes = 0 .. n - 1
      BY <2>1, <2>2
    <3>2. graph.edges \in Seq(EdgesOver(graph.nodes))
      BY <2>2, <2>5
    <3>3. \A S \in (SUBSET graph.nodes) \ {{}} :
            \E n \in S : \A k \in 1 .. Len(graph.edges) :
              graph.edges[k].node = n => graph.edges[k].dependency \notin S
      BY <2>2, <2>7
    <3> QED
      BY ONLY <2>6, <3>1, <3>2, <3>3 DEF GraphOK
  <2> QED
    BY <1>1, <2>8 DEF OldOK
<1>6. WalkInv'
  <2>1. old'.nodes = graph.nodes
    BY <1>1
  <2>2. sinks \subseteq Needed(wanted)'
    BY <1>1, <2>1 DEF Needed
  <2> QED
    BY <1>1, <2>2 DEF WalkInv
<1> QED
  BY <1>1, <1>3, <1>4, <1>5, <1>6 DEF PassInv

LEMMA ExpandKeeps ==
  ASSUME PassInv, NEW id \in work, Expand(id)
  PROVE  PassInv'
<1>1. /\ pass = "walk" /\ UNCHANGED builder_vars /\ pass' = pass /\ old' = old /\ wanted' = wanted
      /\ keep' = keep \cup Dependencies(id)
      /\ work' = (work \ {id}) \cup (Dependencies(id) \ keep)
  BY DEF Expand
<1>2. OldOK /\ WalkInv /\ phase = "idle" /\ edges = <<>>
  BY <1>1 DEF PassInv
<1>3. BInv'
  BY <1>1, StutterKeeps DEF PassInv
<1>4. OkGraph'
  BY <1>1, OkGraphStep DEF PassInv, BInv
<1>5. OldOK'
  BY <1>1, <1>2 DEF OldOK
<1>6. Dependencies(id) \subseteq Needed(wanted)
  <2> SUFFICES ASSUME NEW k \in Into(old.edges, id)
               PROVE  old.edges[k].dependency \in Needed(wanted)
    BY DEF Dependencies
  <2>1. k \in 1 .. Len(old.edges) /\ old.edges[k].node = id
    BY <1>2, OldIs DEF Into
  <2>2. old.edges[k].dependency \in old.nodes
    BY <1>2, <2>1, OldIs
  <2>3. id \in Needed(wanted)
    BY <1>2 DEF WalkInv
  <2>4. DOMAIN old.edges = 1 .. Len(old.edges)
    BY <1>2, OldIs
  <2> QED
    BY <2>1, <2>2, <2>3, <2>4 DEF Needed
<1>7. WalkInv'
  <2>1. Needed(wanted)' = Needed(wanted)
    BY <1>1 DEF Needed
  <2>2. wanted' \subseteq keep' /\ keep' \subseteq Needed(wanted)' /\ work' \subseteq keep'
    BY <1>1, <1>2, <1>6, <2>1 DEF WalkInv
  <2>3. ASSUME NEW k \in 1 .. Len(old.edges), old.edges[k].node \in keep' \ work'
        PROVE  old.edges[k].dependency \in keep'
    <3>1. CASE old.edges[k].node = id
      <4>1. k \in Into(old.edges, id)
        BY <1>2, <3>1, OldIs DEF Into
      <4> QED
        BY <1>1, <4>1 DEF Dependencies
    <3>2. CASE old.edges[k].node # id
      <4>1. old.edges[k].node \in keep \ work
        BY <1>1, <2>3, <3>2
      <4> QED
        BY <1>1, <1>2, <4>1 DEF WalkInv
    <3> QED
      BY <3>1, <3>2
  <2> QED
    BY <1>1, <2>2, <2>3 DEF WalkInv
<1>8. phase' = "idle" /\ edges' = <<>>
  BY <1>1, <1>2 DEF builder_vars, pending
<1> QED
  BY <1>1, <1>3, <1>4, <1>5, <1>7, <1>8 DEF PassInv

-----------------------------------------------------------------------------
(* The declarations *)

LEMMA AddNodesKeeps ==
  ASSUME PassInv, AddNodes
  PROVE  PassInv'
<1>1. /\ pass = "walk" /\ work = {} /\ pass' = "declare" /\ next_id' = 0
      /\ old_to_new' = [id \in old.nodes |-> IF id \in keep THEN NewId(id) ELSE npos]
      /\ count' = Cardinality(keep)
      /\ stamps' = [i \in 1 .. Cardinality(keep) |-> old.version[Nth(keep, i)]]
      /\ verdict' = "none" /\ graph' = NoGraph /\ edges' = edges /\ phase' = phase
      /\ old' = old /\ wanted' = wanted /\ keep' = keep /\ work' = work
  BY DEF AddNodes, Forget, NewId
<1>2. OldOK /\ WalkInv /\ phase = "idle" /\ edges = <<>>
  BY <1>1 DEF PassInv
<1>3. /\ keep \subseteq old.nodes /\ keep \subseteq Nat /\ IsFiniteSet(keep) /\ Cardinality(keep) \in Nat
      /\ \A i \in 1 .. Cardinality(keep) : Nth(keep, i) \in keep
  BY <1>2, KeepIs, NthIs
<1>4. PendingInv'
  <2>1. \A i \in 1 .. Cardinality(keep) : old.version[Nth(keep, i)] \in Version
    BY <1>2, <1>3 DEF OldOK, GraphOK
  <2>2. stamps' \in Seq(Version) /\ Len(stamps') = Cardinality(keep)
    BY <1>1, <1>3, <2>1
  <2> QED
    BY <1>1, <1>2, <1>3, <2>2 DEF PendingInv
<1>5. BInv'
  BY <1>1, <1>2, <1>4, IdleStep DEF PassInv
<1>6. OkGraph'
  BY <1>1 DEF OkGraph
<1>7. OldOK' /\ WalkInv'
  BY <1>1, <1>2 DEF OldOK, WalkInv, Needed
<1>8. \A id : NewId(id)' = NewId(id)
  BY <1>1 DEF NewId
<1>9. Numbered'
  <2>1. ASSUME NEW id \in keep PROVE stamps'[NewId(id) + 1] = old.version[id]
    <3>1. NewId(id) \in 0 .. Cardinality(keep) - 1 /\ Nth(keep, NewId(id) + 1) = id
      BY <1>2, NewIdIs
    <3>2. NewId(id) + 1 \in 1 .. Cardinality(keep)
      BY <1>3, <3>1
    <3> QED
      BY <1>1, <3>1, <3>2
  <2>2. old_to_new' = [id \in old.nodes |-> IF id \in keep THEN NewId(id)' ELSE npos]
    BY <1>1, <1>8
  <2> QED
    BY <1>1, <1>8, <2>1, <2>2 DEF Numbered
<1>10. Declared(0)'
  <2>1. \A id \in keep : ~(id < 0)
    BY <1>3
  <2>2. \A d : OldUses(d, 0)' = {}
    <3>1. \A k \in 1 .. Len(old.edges) : old.edges[k].node \in keep => ~(old.edges[k].node < 0)
      BY <2>1
    <3> QED
      BY <1>1, <3>1 DEF OldUses
  <2>3. \A d : NewUses(d)' = {}
    BY <1>1, <1>2 DEF NewUses
  <2>4. \A k \in 1 .. Len(edges') : FALSE
    BY <1>1, <1>2
  <2>5. \A d : Cardinality(NewUses(d)') = Cardinality(OldUses(d, 0)')
    BY <2>2, <2>3
  <2> QED
    BY <1>1, <2>1, <2>4, <2>5 DEF Declared
<1>11. Declared(next_id)'
  BY <1>1, <1>10
<1> QED
  BY <1>1, <1>2, <1>5, <1>6, <1>7, <1>9, <1>11 DEF PassInv

\* Two lists of edges in one.
LEMMA Joined ==
  ASSUME NEW es \in Seq(Ends), NEW ns \in Seq(Ends)
  PROVE  /\ es \o ns \in Seq(Ends) /\ Len(es \o ns) = Len(es) + Len(ns)
         /\ \A i \in 1 .. Len(es) : (es \o ns)[i] = es[i]
         /\ \A i \in 1 .. Len(ns) : (es \o ns)[Len(es) + i] = ns[i]
<1> DEFINE j == es \o ns
           m == Len(es)
           l == Len(ns)
<1>1. /\ j \in Seq(Ends) /\ Len(j) = m + l
      /\ \A i \in 1 .. m + l : j[i] = IF i <= m THEN es[i] ELSE ns[i - m]
  BY ConcatProperties
<1>2. m \in Nat /\ l \in Nat
  OBVIOUS
<1> HIDE DEF j, m, l
<1>3. ASSUME NEW i \in 1 .. m PROVE j[i] = es[i]
  <2>1. i \in 1 .. m + l /\ i <= m
    BY <1>2
  <2> QED
    BY <1>1, <2>1
<1>4. ASSUME NEW i \in 1 .. l PROVE j[m + i] = ns[i]
  <2> DEFINE k == m + i
  <2>1. k \in 1 .. m + l /\ ~(k <= m) /\ k - m = i
    BY <1>2
  <2> HIDE DEF k
  <2>2. j[k] = ns[k - m]
    BY <1>1, <2>1
  <2> QED
    BY <2>1, <2>2 DEF k
<1> QED
  BY <1>1, <1>3, <1>4 DEF j, m, l

\* Sets of numbers matched one to one by a function are of one size.
LEMMA SameSize ==
  ASSUME NEW I, IsFiniteSet(I), NEW f, f = [i \in I |-> f[i]],
         \A i, j \in I : f[i] = f[j] => i = j
  PROVE  /\ IsFiniteSet({f[i] : i \in I}) /\ Cardinality({f[i] : i \in I}) = Cardinality(I)
<1> DEFINE T == {f[i] : i \in I}
<1>1. f \in [I -> T]
  OBVIOUS
<1>2. f \in Surjection(I, T)
  BY <1>1 DEF Surjection
<1>3. f \in Injection(I, T)
  BY <1>1 DEF Injection, IsInjective
<1> HIDE DEF T
<1>4. IsFiniteSet(T) /\ Cardinality(T) = Cardinality(I)
  BY <1>2, <1>3, FS_Surjection
<1> QED
  BY <1>4 DEF T

\* The edges of one more node.
LEMMA AddEdgesKeeps ==
  ASSUME PassInv, AddEdges
  PROVE  PassInv'
<1>0. PICK id \in Nat : id = next_id
  BY DEF PassInv, AddEdges, Numbered
<1> DEFINE I == Into(old.edges, id)
           L == Cardinality(I)
           R == InputsOf(old.edges, id)
           N == [i \in 1 .. L |-> [node |-> NewId(id), dependency |-> NewId(R[i])]]
           m == Len(edges)
           es == edges'
<1>1. /\ pass = "declare" /\ id \in old.nodes /\ next_id' = id + 1
      /\ verdict' = "none" /\ graph' = NoGraph /\ phase' = phase /\ pass' = pass
      /\ count' = count /\ stamps' = stamps
      /\ old' = old /\ wanted' = wanted /\ keep' = keep /\ work' = work /\ old_to_new' = old_to_new
      /\ edges' = IF id \in keep THEN edges \o NewEdges(id) ELSE edges
  BY <1>0 DEF AddEdges, Forget
<1>2. OldOK /\ WalkInv /\ Numbered /\ Declared(id) /\ phase = "idle" /\ PendingInv
  <2>1. Declared(next_id)
    BY <1>1 DEF PassInv
  <2>2. Declared(id)
    BY <1>0, <2>1
  <2> QED
    BY <1>1, <2>2 DEF PassInv, BInv
<1>3. /\ work = {} /\ keep \subseteq Nat /\ keep \subseteq old.nodes /\ IsFiniteSet(keep)
      /\ edges \in Seq(Ends) /\ m \in Nat /\ DOMAIN edges = 1 .. m /\ count = Cardinality(keep)
      /\ count \in Nat
  BY <1>2, KeepIs DEF Numbered, PendingInv
<1>4. /\ \A x : NewId(x)' = NewId(x) /\ InputsOf(old.edges, x)' = InputsOf(old.edges, x)
                /\ Into(old.edges, x)' = Into(old.edges, x)
      /\ Nodes' = Nodes
  BY <1>1 DEF NewId, InputsOf, Into, Nodes
<1>5. /\ \A x \in keep : NewId(x) \in Nodes /\ NewId(x) \in Nat
      /\ \A x, y \in keep : NewId(x) = NewId(y) => x = y
  BY <1>2, <1>3, NewIdIs DEF Nodes
<1>6. OldOK' /\ WalkInv'
  BY <1>1, <1>2 DEF OldOK, WalkInv, Needed
<1>7. Numbered'
  <2>1. next_id' \in Nat
    BY <1>1
  <2> QED
    BY <1>1, <1>2, <1>3, <1>4, <2>1 DEF Numbered
<1>8. \A x : InputsOf(edges, x)' = InputsOf(es, x)
  BY DEF InputsOf, Into
<1>9. \A x : InputsOf(edges, NewId(x))' = InputsOf(es, NewId(x))
  BY <1>4 DEF InputsOf, Into
<1>10. \A d : NewUses(d)' = {k \in 1 .. Len(es) : es[k].dependency = NewId(d)}
  BY <1>4 DEF NewUses
<1>11. \A d : OldUses(d, id + 1)' = OldUses(d, id + 1)
  BY <1>1 DEF OldUses
<1>12. SUFFICES /\ es \in Seq(Ends)
                /\ \A k \in 1 .. Len(es) : /\ \E x \in keep : x < id + 1 /\ es[k].node = NewId(x)
                                           /\ es[k].dependency \in Nodes
                /\ \A x \in keep : x < id + 1 =>
                     InputsOf(es, NewId(x)) =
                       [i \in 1 .. Cardinality(Into(old.edges, x)) |-> NewId(InputsOf(old.edges, x)[i])]
                /\ \A d \in keep : Cardinality({k \in 1 .. Len(es) : es[k].dependency = NewId(d)})
                                     = Cardinality(OldUses(d, id + 1))
  <2>1. BInv'
    BY <1>1, <1>2, <1>12, IdleStep DEF PassInv, PendingInv
  <2>2. OkGraph'
    BY <1>1 DEF OkGraph
  <2>3. Declared(id + 1)'
    <3>1. \A d \in keep' : Cardinality(NewUses(d)') = Cardinality(OldUses(d, id + 1)')
      BY <1>1, <1>10, <1>11, <1>12
    <3>2. \A x \in keep' : x < id + 1 =>
            InputsOf(edges, NewId(x))' =
              [i \in 1 .. Cardinality(Into(old.edges, x)) |-> NewId(InputsOf(old.edges, x)[i])]'
      BY <1>1, <1>4, <1>9, <1>12
    <3>3. \A k \in 1 .. Len(edges') : /\ \E x \in keep' : x < id + 1 /\ edges'[k].node = NewId(x)'
                                      /\ edges'[k].dependency \in Nodes'
      BY <1>1, <1>4, <1>12
    <3> QED
      BY <3>1, <3>2, <3>3 DEF Declared
  <2>4. Declared(next_id)'
    BY <1>1, <2>3
  <2> QED
    BY <1>1, <1>2, <1>6, <1>7, <2>1, <2>2, <2>4 DEF PassInv
<1>13. CASE id \notin keep
  <2>1. es = edges
    BY <1>1, <1>13
  <2>2. \A x \in keep : x < id + 1 <=> x < id
    BY <1>3, <1>13
  <2>3. \A d : OldUses(d, id + 1) = OldUses(d, id)
    BY <2>2 DEF OldUses
  <2>4. \A k \in 1 .. Len(es) : /\ \E x \in keep : x < id + 1 /\ es[k].node = NewId(x)
                                /\ es[k].dependency \in Nodes
    BY <1>2, <2>1, <2>2 DEF Declared
  <2>5. \A d \in keep : Cardinality(NewUses(d)) = Cardinality(OldUses(d, id + 1))
    BY <1>2, <2>3 DEF Declared
  <2> QED
    BY <1>2, <1>3, <2>1, <2>2, <2>4, <2>5 DEF Declared, NewUses
<1>14. CASE id \in keep
  <2>1. /\ I \subseteq 1 .. Len(old.edges) /\ I \subseteq Nat /\ IsFiniteSet(I) /\ L \in Nat
        /\ \A i \in 1 .. L : Nth(I, i) \in I /\ Rank(I, Nth(I, i)) = i
        /\ \A k \in I : Rank(I, k) \in 1 .. L /\ Nth(I, Rank(I, k)) = k
    BY <1>2, IntoIs DEF OldOK, GraphOK
  <2>2. \A i \in 1 .. L : /\ old.edges[Nth(I, i)].node = id
                          /\ R[i] = old.edges[Nth(I, i)].dependency /\ R[i] \in keep
    BY <1>2, <1>3, <1>14, InputsKept
  <2>3. N \in Seq(Ends) /\ Len(N) = L
        /\ \A i \in 1 .. L : N[i] = [node |-> NewId(id), dependency |-> NewId(R[i])]
    <3> HIDE DEF L, R
    <3>1. \A i \in 1 .. L : [node |-> NewId(id), dependency |-> NewId(R[i])] \in Ends
      BY <1>5, <1>14, <2>2 DEF Ends
    <3> QED
      BY <2>1, <3>1
  <2>4. es = edges \o N
    <3>1. \A x \in keep : old_to_new[x] = NewId(x)
      BY <1>2, <1>3 DEF Numbered
    <3>2. dependency_range(old, id) = R /\ Len(R) = L
      BY <2>1 DEF dependency_range, InputsOf
    <3>3. \A i \in 1 .. L : old_to_new[R[i]] = NewId(R[i])
      BY <2>2, <3>1
    <3>4. NewEdges(id) = N
      <4> HIDE DEF L, R
      <4> QED
        BY <1>14, <3>1, <3>2, <3>3 DEF NewEdges
    <3> QED
      BY <1>1, <1>14, <3>4
  <2> HIDE DEF N, es
  <2>5. /\ es \in Seq(Ends) /\ Len(es) = m + L
        /\ \A k \in 1 .. m : es[k] = edges[k]
        /\ \A i \in 1 .. L : es[m + i] = N[i]
    <3>1. /\ es \in Seq(Ends) /\ Len(es) = Len(edges) + Len(N)
          /\ \A k \in 1 .. Len(edges) : es[k] = edges[k]
          /\ \A i \in 1 .. Len(N) : es[Len(edges) + i] = N[i]
      <4>1. /\ edges \o N \in Seq(Ends) /\ Len(edges \o N) = Len(edges) + Len(N)
            /\ \A k \in 1 .. Len(edges) : (edges \o N)[k] = edges[k]
            /\ \A i \in 1 .. Len(N) : (edges \o N)[Len(edges) + i] = N[i]
        BY <1>3, <2>3, Joined
      <4> QED
        BY <2>4, <4>1
    <3>2. Len(N) = L
      BY <2>3
    <3> HIDE DEF L
    <3> QED
      BY <3>1, <3>2
  <2>6. \A i \in 1 .. L : es[m + i].node = NewId(id) /\ es[m + i].dependency = NewId(R[i])
    BY <2>3, <2>5
  <2> HIDE DEF I, L, R, m
  <2>7. \A k \in 1 .. m : /\ \E x \in keep : x < id /\ es[k].node = NewId(x) /\ x # id
                          /\ es[k].dependency \in Nodes
    BY <1>2, <1>3, <2>5 DEF Declared, m
  <2>8. \A k \in 1 .. m + L : k \in 1 .. m \/ \E i \in 1 .. L : k = m + i
    <3> SUFFICES ASSUME NEW k \in 1 .. m + L, k \notin 1 .. m
                 PROVE  \E i \in 1 .. L : k = m + i
      OBVIOUS
    <3>1. k - m \in 1 .. L /\ k = m + (k - m)
      BY <1>3, <2>1
    <3> QED
      BY <3>1
  <2>9. 1 .. m \subseteq 1 .. m + L /\ \A i \in 1 .. L : m + i \in 1 .. m + L /\ m + i \notin 1 .. m
    BY <1>3, <2>1
  <2>10. DOMAIN es = 1 .. m + L
    BY <2>5
  <2>11. ASSUME NEW k \in 1 .. Len(es)
         PROVE  /\ \E x \in keep : x < id + 1 /\ es[k].node = NewId(x)
                /\ es[k].dependency \in Nodes
    <3>1. CASE k \in 1 .. m
      <4>1. PICK x \in keep : x < id /\ es[k].node = NewId(x)
        BY <2>7, <3>1
      <4>2. x < id + 1
        BY <1>3, <4>1
      <4> QED
        BY <2>7, <3>1, <4>1, <4>2
    <3>2. CASE \E i \in 1 .. L : k = m + i
      <4>1. es[k].node = NewId(id) /\ es[k].dependency \in Nodes
        BY <1>5, <2>2, <2>6, <3>2
      <4> QED
        BY <1>14, <4>1
    <3> QED
      BY <2>5, <2>8, <3>1, <3>2
  <2>12. ASSUME NEW x \in keep, x < id
         PROVE  InputsOf(es, NewId(x)) = InputsOf(edges, NewId(x))
    <3>1. x # id /\ NewId(x) # NewId(id)
      BY <1>3, <1>5, <1>14, <2>12
    <3>2. \A i \in 1 .. L : es[m + i].node # NewId(x)
      BY <2>6, <3>1
    <3>3. Into(es, NewId(x)) = Into(edges, NewId(x))
      <4>1. \A k \in 1 .. m + L : es[k].node = NewId(x) => k \in 1 .. m /\ edges[k].node = NewId(x)
        BY <2>5, <2>8, <3>2
      <4>2. \A k \in 1 .. m : edges[k].node = NewId(x) => k \in 1 .. m + L /\ es[k].node = NewId(x)
        BY <2>5, <2>9
      <4> QED
        BY <1>3, <2>10, <4>1, <4>2 DEF Into
    <3>4. \A i \in 1 .. Cardinality(Into(edges, NewId(x))) : Nth(Into(edges, NewId(x)), i) \in 1 .. m
      BY <1>3, IntoIs DEF m
    <3>5. \A i \in 1 .. Cardinality(Into(edges, NewId(x))) :
            es[Nth(Into(edges, NewId(x)), i)] = edges[Nth(Into(edges, NewId(x)), i)]
      BY <2>5, <3>4
    <3> QED
      BY <3>3, <3>5 DEF InputsOf
  <2>13. InputsOf(es, NewId(id)) = [i \in 1 .. L |-> NewId(R[i])]
    <3>1. Into(es, NewId(id)) = m + 1 .. m + L
      <4>1. \A k \in 1 .. m : es[k].node # NewId(id)
        BY <1>5, <1>14, <2>7
      <4>2. \A k \in 1 .. m + L : es[k].node = NewId(id) => k \in m + 1 .. m + L
        BY <1>3, <2>1, <4>1
      <4>3. \A k \in m + 1 .. m + L : k \in 1 .. m + L /\ es[k].node = NewId(id)
        <5> SUFFICES ASSUME NEW k \in m + 1 .. m + L
                     PROVE  k \in 1 .. m + L /\ es[k].node = NewId(id)
          OBVIOUS
        <5>1. k \in 1 .. m + L /\ k \notin 1 .. m
          BY <1>3, <2>1
        <5>2. PICK i \in 1 .. L : k = m + i
          BY <2>8, <5>1
        <5> QED
          BY <2>6, <5>1, <5>2
      <4> QED
        BY <2>10, <4>2, <4>3 DEF Into
    <3>2. Cardinality(m + 1 .. m + L) = L /\ \A i \in 1 .. L : Nth(m + 1 .. m + L, i) = m + i
      BY <1>3, <2>1, NthOfInterval
    <3> QED
      BY <2>6, <3>1, <3>2 DEF InputsOf
  <2>14. ASSUME NEW x \in keep, x < id + 1
         PROVE  InputsOf(es, NewId(x)) =
                  [i \in 1 .. Cardinality(Into(old.edges, x)) |-> NewId(InputsOf(old.edges, x)[i])]
    <3>1. CASE x < id
      BY <1>2, <2>12, <3>1 DEF Declared
    <3>2. CASE x = id
      BY <2>13, <3>2 DEF I, L, R
    <3> QED
      BY <1>3, <2>14, <3>1, <3>2
  <2>15. ASSUME NEW d \in keep
         PROVE  Cardinality({k \in 1 .. Len(es) : es[k].dependency = NewId(d)})
                  = Cardinality(OldUses(d, id + 1))
    <3> DEFINE J == {i \in 1 .. L : R[i] = d}
               f == [i \in J |-> m + i]
               g == [i \in J |-> Nth(I, i)]
               A == {f[i] : i \in J}
               B == {g[i] : i \in J}
    <3>1. IsFiniteSet(J)
      <4>1. IsFiniteSet(1 .. L)
        BY <2>1, FS_Interval
      <4> QED
        BY <4>1, FS_Subset
    <3>2. IsFiniteSet(A) /\ Cardinality(A) = Cardinality(J)
      <4>1. f = [i \in J |-> f[i]] /\ \A i, j \in J : f[i] = f[j] => i = j
        BY <1>3, <2>1
      <4> HIDE DEF f, J
      <4> QED
        BY <3>1, <4>1, SameSize
    <3>3. IsFiniteSet(B) /\ Cardinality(B) = Cardinality(J)
      <4>1. g = [i \in J |-> g[i]] /\ \A i, j \in J : g[i] = g[j] => i = j
        BY <2>1
      <4> HIDE DEF g, J
      <4> QED
        BY <3>1, <4>1, SameSize
    <3>4. {k \in 1 .. Len(es) : es[k].dependency = NewId(d)} = NewUses(d) \cup A
      <4>1. \A k \in 1 .. m : es[k].dependency = NewId(d) <=> k \in NewUses(d)
        BY <2>5 DEF NewUses, m
      <4>2. \A i \in 1 .. L : es[m + i].dependency = NewId(d) <=> i \in J
        BY <1>5, <2>2, <2>6
      <4>3. A = {m + i : i \in J}
        OBVIOUS
      <4>4. NewUses(d) \subseteq 1 .. m
        BY DEF NewUses, m
      <4>5. \A k \in 1 .. m + L : es[k].dependency = NewId(d) => k \in NewUses(d) \cup A
        <5> HIDE DEF A, J
        <5> QED
          BY <2>8, <4>1, <4>2, <4>3
      <4>6. \A k \in NewUses(d) \cup A : k \in 1 .. m + L /\ es[k].dependency = NewId(d)
        <5>1. \A k \in NewUses(d) : k \in 1 .. m + L /\ es[k].dependency = NewId(d)
          BY <2>9, <4>1, <4>4
        <5>2. \A i \in J : m + i \in 1 .. m + L /\ es[m + i].dependency = NewId(d)
          BY <2>9, <4>2
        <5> HIDE DEF A, J
        <5> QED
          BY <4>3, <5>1, <5>2
      <4> HIDE DEF A
      <4> QED
        BY <2>5, <4>5, <4>6
    <3>5. OldUses(d, id + 1) = OldUses(d, id) \cup B
      <4>1. B = {Nth(I, i) : i \in J}
        OBVIOUS
      <4>2. \A k \in 1 .. Len(old.edges) : old.edges[k].node = id /\ old.edges[k].dependency = d => k \in B
        <5> SUFFICES ASSUME NEW k \in 1 .. Len(old.edges), old.edges[k].node = id, old.edges[k].dependency = d
                     PROVE  k \in B
          OBVIOUS
        <5>1. k \in I
          BY <1>2, OldIs DEF I, Into
        <5>2. Rank(I, k) \in J /\ Nth(I, Rank(I, k)) = k
          BY <2>1, <2>2, <5>1
        <5> HIDE DEF B, J
        <5> QED
          BY <4>1, <5>2
      <4>3. \A k \in B : k \in 1 .. Len(old.edges) /\ old.edges[k].node = id /\ old.edges[k].dependency = d
        <5>1. \A i \in J : /\ Nth(I, i) \in 1 .. Len(old.edges)
                           /\ old.edges[Nth(I, i)].node = id /\ old.edges[Nth(I, i)].dependency = d
          BY <2>1, <2>2
        <5> HIDE DEF B, J
        <5> QED
          BY <4>1, <5>1
      <4>4. \A x \in keep : x < id + 1 <=> x < id \/ x = id
        BY <1>3
      <4> HIDE DEF B
      <4> QED
        BY <1>14, <4>2, <4>3, <4>4 DEF OldUses
    <3>6. A \cap NewUses(d) = {}
      BY <2>9 DEF NewUses, m
    <3>7. B \cap OldUses(d, id) = {}
      <4>1. \A k \in OldUses(d, id) : old.edges[k].node # id
        BY <1>3 DEF OldUses
      <4>2. \A k \in B : old.edges[k].node = id
        BY <2>1, <2>2
      <4> HIDE DEF B
      <4> QED
        BY <4>1, <4>2
    <3>8. IsFiniteSet(NewUses(d)) /\ IsFiniteSet(OldUses(d, id))
      <4>1. IsFiniteSet(1 .. m) /\ IsFiniteSet(1 .. Len(old.edges))
        <5>1. 1 \in Int /\ m \in Int /\ Len(old.edges) \in Int
          BY <1>2, <1>3, OldIs
        <5> QED
          BY <5>1, FS_Interval
      <4>2. NewUses(d) \subseteq 1 .. m /\ OldUses(d, id) \subseteq 1 .. Len(old.edges)
        BY DEF NewUses, OldUses, m
      <4> QED
        BY <4>1, <4>2, FS_Subset
    <3>9. Cardinality(NewUses(d)) = Cardinality(OldUses(d, id))
      BY <1>2 DEF Declared
    <3> HIDE DEF A, B, J
    <3>10. Cardinality(NewUses(d) \cup A) = Cardinality(NewUses(d)) + Cardinality(A)
      <4>1. NewUses(d) \cap A = {} /\ Cardinality(NewUses(d)) \in Nat /\ Cardinality(A) \in Nat
        BY <3>2, <3>6, <3>8, FS_CardinalityType
      <4>2. Cardinality(NewUses(d) \cup A)
              = Cardinality(NewUses(d)) + Cardinality(A) - Cardinality(NewUses(d) \cap A)
        BY <3>2, <3>8, FS_Union
      <4>3. Cardinality(NewUses(d) \cap A) = 0
        BY <4>1, FS_EmptySet
      <4> QED
        BY <4>1, <4>2, <4>3
    <3>11. Cardinality(OldUses(d, id) \cup B) = Cardinality(OldUses(d, id)) + Cardinality(B)
      <4>1. OldUses(d, id) \cap B = {} /\ Cardinality(OldUses(d, id)) \in Nat /\ Cardinality(B) \in Nat
        BY <3>3, <3>7, <3>8, FS_CardinalityType
      <4>2. Cardinality(OldUses(d, id) \cup B)
              = Cardinality(OldUses(d, id)) + Cardinality(B) - Cardinality(OldUses(d, id) \cap B)
        BY <3>3, <3>8, FS_Union
      <4>3. Cardinality(OldUses(d, id) \cap B) = 0
        BY <4>1, FS_EmptySet
      <4> QED
        BY <4>1, <4>2, <4>3
    <3> QED
      BY <3>2, <3>3, <3>4, <3>5, <3>9, <3>10, <3>11
  <2> QED
    BY <2>5, <2>11, <2>14, <2>15
<1> QED
  BY <1>13, <1>14

-----------------------------------------------------------------------------
(* The new graph is built: its edges join its nodes, and a cycle in it     *)
(* would be one in the old graph.                                          *)

\* All nodes of the old graph are below an id that is none of them.
LEMMA AllDeclared ==
  ASSUME OldOK, WalkInv, next_id \in Nat, next_id \notin old.nodes
  PROVE  \A id \in keep : id < next_id
<1>1. PICK n \in Nat : old.nodes = 0 .. n - 1
  BY DEF OldOK, GraphOK
<1>2. \A id \in old.nodes : id < next_id
  BY <1>1
<1> QED
  BY <1>2, KeepIs

LEMMA PrunedFits ==
  ASSUME PassInv, pass \in {"declare", "build"}, next_id \notin old.nodes
  PROVE  ~Dangling /\ ~Cyclic
<1>1. /\ PendingInv /\ OldOK /\ WalkInv /\ Numbered /\ Declared(next_id)
      /\ count = Cardinality(keep) /\ work = {} /\ next_id \in Nat
  BY DEF PassInv, BInv, Numbered
<1>2. DOMAIN edges = 1 .. Len(edges) /\ edges \in Seq(Ends)
  BY <1>1 DEF PendingInv
<1>3. /\ \A id \in keep : NewId(id) \in Nodes
      /\ \A n \in Nodes : \E id \in keep : NewId(id) = n
      /\ \A id \in keep : id < next_id
  BY <1>1, NewIdIs, AllDeclared DEF Nodes
<1>4. ~Dangling
  BY <1>1, <1>2, <1>3 DEF Dangling, Declared, Range
<1>5. ASSUME Cyclic PROVE FALSE
  <2>1. PICK S \in SUBSET Nodes : S # {} /\ \A n \in S : Depends(n, S)
    BY <1>5 DEF Cyclic
  <2> DEFINE P == {id \in keep : NewId(id) \in S}
  <2>2. P \in (SUBSET old.nodes) \ {{}}
    <3>1. P # {}
      BY <1>3, <2>1
    <3> QED
      BY <1>1, <3>1, KeepIs
  <2>3. PICK x \in P : \A k \in 1 .. Len(old.edges) :
          old.edges[k].node = x => old.edges[k].dependency \notin P
    <3> HIDE DEF P
    <3> QED
      BY <1>1, <2>2 DEF OldOK, GraphOK
  <2>4. PICK e \in Range(edges) : e.node = NewId(x) /\ e.dependency \in S
    BY <2>1 DEF Depends
  <2>5. PICK k \in 1 .. Len(edges) : e = edges[k]
    BY <1>2 DEF Range
  <2> DEFINE I == Into(edges, NewId(x))
             r == Rank(I, k)
             d == InputsOf(old.edges, x)[r]
  <2>6. k \in I
    BY <1>2, <2>4, <2>5 DEF Into
  <2>7. r \in 1 .. Cardinality(I) /\ Nth(I, r) = k
    BY <1>2, <2>6, IntoIs
  <2>8. InputsOf(edges, NewId(x))[r] = e.dependency /\ DOMAIN InputsOf(edges, NewId(x)) = 1 .. Cardinality(I)
    <3> HIDE DEF r
    <3> QED
      BY <2>5, <2>7 DEF InputsOf
  <2>9. InputsOf(edges, NewId(x)) =
          [i \in 1 .. Cardinality(Into(old.edges, x)) |-> NewId(InputsOf(old.edges, x)[i])]
    BY <1>1, <1>3 DEF Declared
  <2>10. r \in 1 .. Cardinality(Into(old.edges, x)) /\ e.dependency = NewId(d)
    <3> HIDE DEF r, I
    <3> QED
      BY <2>7, <2>8, <2>9
  <2>11. \E j \in 1 .. Len(old.edges) : /\ old.edges[j].node = x /\ old.edges[j].dependency = d
                                        /\ d \in keep
    <3> HIDE DEF r
    <3> QED
      BY <1>1, <2>10, InputsKept
  <2>12. d \in P
    <3> HIDE DEF d
    <3> QED
      BY <2>4, <2>10, <2>11
  <2> QED
    <3> HIDE DEF d, P
    <3> QED
      BY <2>3, <2>11, <2>12
<1> QED
  BY <1>4, <1>5

LEMMA BuildPrunedKeeps ==
  ASSUME PassInv, BuildPruned
  PROVE  PassInv'
<1>1. /\ pass = "declare" /\ next_id \notin old.nodes /\ pass' = "build" /\ Build
      /\ UNCHANGED <<old, wanted, keep, work, old_to_new, next_id>>
  BY DEF BuildPruned
<1>2. UNCHANGED pending /\ phase' = "check" /\ verdict' = "none"
  BY <1>1 DEF Build, Forget
<1>3. BInv'
  BY <1>1, BuildStepKeeps DEF PassInv
<1>4. OldOK' /\ WalkInv' /\ Numbered' /\ Declared(next_id)' /\ next_id' \notin old'.nodes
  BY <1>1, <1>2, PassKept DEF PassInv
<1>5. OkGraph'
  BY <1>2 DEF OkGraph
<1> QED
  BY <1>1, <1>2, <1>3, <1>4, <1>5 DEF PassInv

LEMMA PrunedBuildKeeps ==
  ASSUME PassInv, pass = "build", BuildStep, UNCHANGED passes
  PROVE  PassInv'
<1>1. /\ phase # "idle" /\ UNCHANGED pending
      /\ UNCHANGED <<pass, old, wanted, keep, work, old_to_new, next_id>>
  BY DEF BuildStep, CheckEdge, QueueSource, QueueDone, TakeReady, ExpandEdge,
         ExpandDone, SortDone, RankNode, Freeze, passes
<1>2. BInv' /\ OkGraph'
  BY BuildStepKeeps, OkGraphStep DEF PassInv, BInv, BuilderNext
<1>3. OldOK' /\ WalkInv' /\ Numbered' /\ Declared(next_id)' /\ next_id' \notin old'.nodes
  BY <1>1, PassKept DEF PassInv
<1>4. verdict' \in {"none", "ok"} /\ (phase' = "idle" => verdict' = "ok")
  <2>1. CASE phase' = "idle"
    <3>1. ~Dangling /\ ~Cyclic
      BY PrunedFits DEF PassInv
    <3> QED
      BY <1>1, <2>1, <3>1, OutcomeRight DEF PassInv
  <2>2. CASE phase' # "idle"
    <3>1. verdict' = verdict
      BY <2>2 DEF BuildStep, CheckEdge, QueueSource, QueueDone, TakeReady, ExpandEdge,
                  ExpandDone, SortDone, RankNode, Freeze, Finish, last
    <3> QED
      BY <2>2, <3>1 DEF PassInv
  <2> QED
    BY <2>1, <2>2
<1> QED
  BY <1>1, <1>2, <1>3, <1>4 DEF PassInv

LEMMA InitPassInv == PassesInit => PassInv
<1> SUFFICES ASSUME PassesInit PROVE PassInv
  OBVIOUS
<1>1. BInv
  BY InitBInv DEF PassesInit
<1>2. pass = "none" /\ verdict = "none"
  BY DEF PassesInit, BuilderInit
<1> QED
  BY <1>1, <1>2 DEF PassInv, OkGraph

LEMMA NextPassInv == PassInv /\ [PassesNext]_passes_vars => PassInv'
<1> SUFFICES ASSUME PassInv, [PassesNext]_passes_vars PROVE PassInv'
  OBVIOUS
<1>1. CASE pass = "none" /\ BuilderNext /\ UNCHANGED passes
  BY <1>1, NotPruning
<1>2. CASE \E sinks \in SUBSET graph.nodes : prune_to_sinks(sinks)
  BY <1>2, PruneKeeps
<1>3. CASE \E id \in work : Expand(id)
  BY <1>3, ExpandKeeps
<1>4. CASE AddNodes
  BY <1>4, AddNodesKeeps
<1>5. CASE AddEdges
  BY <1>5, AddEdgesKeeps
<1>6. CASE BuildPruned
  BY <1>6, BuildPrunedKeeps
<1>7. CASE pass = "build" /\ BuildStep /\ UNCHANGED passes
  BY <1>7, PrunedBuildKeeps
<1>8. CASE UNCHANGED passes_vars
  <2>1. UNCHANGED builder_vars /\ UNCHANGED pending /\ UNCHANGED <<phase, verdict>>
        /\ UNCHANGED <<pass, old, wanted, keep, work, old_to_new, next_id>>
    BY <1>8 DEF passes_vars, passes, builder_vars, last
  <2>2. BInv' /\ OkGraph'
    BY <2>1, StutterKeeps, OkGraphStep DEF PassInv, BInv
  <2> QED
    BY <2>1, <2>2, PassKept DEF PassInv
<1> QED
  BY <1>1, <1>2, <1>3, <1>4, <1>5, <1>6, <1>7, <1>8 DEF PassesNext

LEMMA PassInvImplies == PassInv => PrunedFaithfully
<1> SUFFICES ASSUME PassInv, pass = "build" PROVE PrunedFaithfully
  BY DEF PrunedFaithfully
<1>1. /\ PendingInv /\ OkGraph /\ OldOK /\ WalkInv /\ Numbered /\ Declared(next_id)
      /\ count = Cardinality(keep) /\ work = {} /\ next_id \in Nat
      /\ (phase = "idle" => verdict = "ok")
  BY DEF PassInv, BInv, Numbered
<1>2. keep = Needed(wanted) /\ keep \subseteq old.nodes
  BY <1>1, KeepNeeded, KeepIs
<1>3. /\ \A id \in keep : NewId(id) \in Nodes /\ NewId(id) \in Nat /\ old_to_new[id] = NewId(id)
      /\ \A n \in Nodes : \E id \in keep : NewId(id) = n
      /\ \A id \in old.nodes \ keep : old_to_new[id] = npos
      /\ \A id \in keep : id < next_id
  BY <1>1, <1>2, NewIdIs, AllDeclared DEF Nodes, Numbered, PassInv
<1>4. {id \in old.nodes : old_to_new[id] # npos} = keep
  BY <1>2, <1>3 DEF npos
<1>5. ASSUME verdict = "ok"
      PROVE  /\ graph.nodes = {old_to_new[id] : id \in keep}
             /\ \A id \in keep :
                  /\ dependency_range(graph, old_to_new[id]) =
                       [i \in DOMAIN dependency_range(old, id) |-> old_to_new[dependency_range(old, id)[i]]]
                  /\ graph.version[old_to_new[id]] = old.version[id]
                  /\ count_consumers(old, keep)[id] =
                       Cardinality({k \in DOMAIN graph.edges : graph.edges[k].dependency = old_to_new[id]})
  <2>1. /\ graph.nodes = Nodes /\ graph.edges = edges
        /\ graph.version = [n \in Nodes |-> stamps[n + 1]] /\ DOMAIN edges = 1 .. Len(edges)
    BY <1>1, <1>5 DEF OkGraph, PendingInv
  <2>2. graph.nodes = {old_to_new[id] : id \in keep}
    BY <1>3, <2>1
  <2>3. ASSUME NEW id \in keep
        PROVE  dependency_range(graph, old_to_new[id]) =
                 [i \in DOMAIN dependency_range(old, id) |-> old_to_new[dependency_range(old, id)[i]]]
    <3>1. dependency_range(graph, old_to_new[id]) = InputsOf(edges, NewId(id))
      BY <1>3, <2>1 DEF dependency_range, InputsOf
    <3>2. /\ dependency_range(old, id) = InputsOf(old.edges, id)
          /\ DOMAIN dependency_range(old, id) = 1 .. Cardinality(Into(old.edges, id))
      BY DEF dependency_range, InputsOf
    <3>3. InputsOf(edges, NewId(id)) =
            [i \in 1 .. Cardinality(Into(old.edges, id)) |-> NewId(InputsOf(old.edges, id)[i])]
      BY <1>1, <1>3 DEF Declared
    <3>4. \A i \in 1 .. Cardinality(Into(old.edges, id)) :
            old_to_new[InputsOf(old.edges, id)[i]] = NewId(InputsOf(old.edges, id)[i])
      BY <1>1, <1>3, InputsKept
    <3> QED
      BY <3>1, <3>2, <3>3, <3>4
  <2>4. ASSUME NEW id \in keep PROVE graph.version[old_to_new[id]] = old.version[id]
    <3>1. NewId(id) \in Nodes /\ stamps[NewId(id) + 1] = old.version[id] /\ old_to_new[id] = NewId(id)
      BY <1>1, <1>3 DEF Numbered
    <3>2. graph.version[NewId(id)] = stamps[NewId(id) + 1]
      BY <2>1, <3>1
    <3> QED
      BY <3>1, <3>2
  <2>5. ASSUME NEW id \in keep
        PROVE  count_consumers(old, keep)[id] =
                 Cardinality({k \in DOMAIN graph.edges : graph.edges[k].dependency = old_to_new[id]})
    <3>1. {k \in DOMAIN graph.edges : graph.edges[k].dependency = old_to_new[id]} = NewUses(id)
      BY <1>3, <2>1 DEF NewUses
    <3>2. OldUses(id, next_id) = {k \in DOMAIN old.edges : old.edges[k].dependency = id
                                                           /\ old.edges[k].node \in keep}
      BY <1>1, <1>3, OldIs DEF OldUses
    <3>3. Cardinality(NewUses(id)) = Cardinality(OldUses(id, next_id))
      BY <1>1 DEF Declared
    <3>4. count_consumers(old, keep)[id] =
            Cardinality({k \in DOMAIN old.edges : old.edges[k].dependency = id
                                                  /\ old.edges[k].node \in keep})
      BY <1>2 DEF count_consumers
    <3> QED
      BY <3>1, <3>2, <3>3, <3>4
  <2> QED
    BY <2>2, <2>3, <2>4, <2>5
<1> QED
  BY <1>1, <1>2, <1>4, <1>5 DEF PrunedFaithfully

(* Whatever graph is built and whatever sinks are asked for, pruning keeps *)
(* exactly what the sinks need, builds, and the new graph is the old one   *)
(* cut to the kept nodes: inputs in order, stamps, and consumer counts.    *)
THEOREM PruningFaithful == PassesSpec => []PrunedFaithfully
<1>1. PassesInit => PassInv
  BY InitPassInv
<1>2. PassInv /\ [PassesNext]_passes_vars => PassInv'
  BY NextPassInv
<1>3. PassInv => PrunedFaithfully
  BY PassInvImplies
<1> QED
  BY <1>1, <1>2, <1>3, PTL DEF PassesSpec
=============================================================================
