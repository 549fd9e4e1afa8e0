------------------------- MODULE IntrusivePtrProofs -------------------------
(***************************************************************************)
(* For any finite number of pointers and every interleaving of their        *)
(* operations, the two counts are exact, and the object is reclaimed once,  *)
(* by whoever refers to it last, and not before.                            *)
(***************************************************************************)
EXTENDS IntrusivePtr, FiniteSetTheorems, TLAPS

(* The object keeps a weak count until somebody is to delete it. *)
Pinned == ~Dying => weak > 0

(* A pointer that saw kUniqueRef stays alone: nobody is left to change it. *)
SoleStaysSole == \A h \in Handle : role[h] = "sole" => strong = 1 /\ weak = 1

(* A lock() in progress holds a weak pointer and saw a living object. *)
LockHoldsWeak ==
  \A g \in Handle : role[g] = "locking" => role[from[g]] = "weak" /\ seen[g].strong > 0

(* One pointer, the last strong one, takes the object through its release. *)
Last(h) == role[h] \in {"releasing", "unpinning"}
OneReleaser ==
  \A h \in Handle : Last(h) => /\ strong = 0
                               /\ \A g \in Handle : Last(g) => g = h

ReleaseProgress ==
  /\ strong > 0 => releases = 0
  /\ \A h \in Handle : role[h] = "releasing" => releases = 0
  /\ \A h \in Handle : role[h] = "unpinning" => releases = 1

PtrInv ==
  /\ TypeOK /\ CountsExact /\ Pinned /\ DeleterIsLast /\ SoleStaysSole
  /\ LockHoldsWeak /\ OneReleaser /\ ReleaseProgress
  /\ ReclaimedOnce /\ ExpiredIsReleased
---------------------------------------------------------------------------
(* Counting owners *)

(* 1 for a role that owns one of the counted references, else 0. *)
One(r, R) == IF r \in R THEN 1 ELSE 0

LEMMA OwnersFinite ==
  /\ IsFiniteSet(StrongOwners) /\ Cardinality(StrongOwners) \in Nat
  /\ IsFiniteSet(WeakOwners) /\ Cardinality(WeakOwners) \in Nat
<1>1. StrongOwners \in SUBSET Handle /\ WeakOwners \in SUBSET Handle
  BY DEF StrongOwners, WeakOwners
<1>2. IsFiniteSet(StrongOwners) /\ IsFiniteSet(WeakOwners)
  BY <1>1, HandleAssumption, FS_Subset DEF HandleAssumption
<1> QED BY <1>2, FS_CardinalityType

(* A member makes a count positive, and is the only one of a count of one. *)
LEMMA Counted ==
  ASSUME NEW S, IsFiniteSet(S)
  PROVE  /\ \A x \in S : Cardinality(S) > 0
         /\ \A x, y \in S : Cardinality(S) = 1 => x = y
<1>1. Cardinality(S) \in Nat
  BY FS_CardinalityType
<1>2. \A x \in S : Cardinality(S) > 0
  BY <1>1, FS_EmptySet
<1>3. \A x, y \in S : Cardinality(S) = 1 => x = y
  BY FS_Singleton
<1> QED BY <1>2, <1>3

(* One pointer changes its role: the counts of owners follow. *)
LEMMA OwnersFollow ==
  ASSUME TypeOK, NEW h \in Handle, NEW r \in Role, Become(h, r)
  PROVE  /\ role' \in [Handle -> Role]
         /\ role'[h] = r
         /\ \A g \in Handle : g # h => role'[g] = role[g]
         /\ Cardinality(StrongOwners')
              = Cardinality(StrongOwners) - One(role[h], StrongRole) + One(r, StrongRole)
         /\ Cardinality(WeakOwners')
              = Cardinality(WeakOwners) - One(role[h], WeakRole) + One(r, WeakRole)
<1>1. role \in [Handle -> Role]
  BY DEF TypeOK
<1>2. /\ role' \in [Handle -> Role] /\ role'[h] = r
      /\ \A g \in Handle : g # h => role'[g] = role[g]
  BY <1>1 DEF Become
<1>3. ASSUME NEW R, NEW S, NEW T,
             S = {g \in Handle : role[g] \in R}, T = {g \in Handle : role'[g] \in R},
             IsFiniteSet(S)
      PROVE  Cardinality(T) = Cardinality(S) - One(role[h], R) + One(r, R)
  <2>0. Cardinality(S) \in Nat
    BY <1>3, FS_CardinalityType
  <2>1. CASE r \in R
    <3>1. T = S \cup {h}
      BY <1>2, <1>3, <2>1
    <3>2. Cardinality(T) = IF h \in S THEN Cardinality(S) ELSE Cardinality(S) + 1
      BY <1>3, <3>1, FS_AddElement
    <3>3. h \in S <=> role[h] \in R
      BY <1>3
    <3> QED BY <2>0, <2>1, <3>2, <3>3 DEF One
  <2>2. CASE r \notin R
    <3>1. T = S \ {h}
      BY <1>2, <1>3, <2>2
    <3>2. Cardinality(T) = IF h \in S THEN Cardinality(S) - 1 ELSE Cardinality(S)
      BY <1>3, <3>1, FS_RemoveElement
    <3>3. h \in S <=> role[h] \in R
      BY <1>3
    <3> QED BY <2>0, <2>2, <3>2, <3>3 DEF One
  <2> QED BY <2>1, <2>2
<1>4. /\ StrongOwners = {g \in Handle : role[g] \in StrongRole}
      /\ StrongOwners' = {g \in Handle : role'[g] \in StrongRole}
      /\ WeakOwners = {g \in Handle : role[g] \in WeakRole}
      /\ WeakOwners' = {g \in Handle : role'[g] \in WeakRole}
  BY DEF StrongOwners, WeakOwners, StrongRole, WeakRole
<1>5. Cardinality(StrongOwners')
        = Cardinality(StrongOwners) - One(role[h], StrongRole) + One(r, StrongRole)
  BY <1>3, <1>4, OwnersFinite
<1>6. Cardinality(WeakOwners')
        = Cardinality(WeakOwners) - One(role[h], WeakRole) + One(r, WeakRole)
  BY <1>3, <1>4, OwnersFinite
<1> QED BY <1>2, <1>5, <1>6

(* What a pointer that is neither null nor deleting knows of the object. *)
LEMMA Owned ==
  ASSUME PtrInv, NEW h \in Handle, role[h] # "null", role[h] # "deleting"
  PROVE  /\ ~Dying /\ deletes = 0 /\ \A g \in Handle : role[g] # "deleting"
         /\ strong = Cardinality(StrongOwners)
         /\ weak = Cardinality(WeakOwners) + StrongPin
         /\ weak > 0
<1>1. ~Dying
  BY DEF PtrInv, DeleterIsLast, Dying, AllNull
<1> QED BY <1>1 DEF PtrInv, CountsExact, Pinned, Dying, TypeOK

(* What the counts say of the pointers. *)
LEMMA CountsTell ==
  ASSUME PtrInv
  PROVE  /\ \A h \in Handle : role[h] \in StrongRole => strong > 0
         /\ \A h, g \in Handle :
              role[h] \in StrongRole /\ role[g] \in StrongRole /\ strong = 1 => g = h
         /\ ~Dying /\ weak = StrongPin => \A h \in Handle : role[h] \notin WeakRole
         /\ \A h, g \in Handle :
              role[h] \in WeakRole /\ role[g] \in WeakRole /\ ~Dying /\ weak = 1 + StrongPin
                => g = h
<1>1. /\ strong = Cardinality(StrongOwners) /\ strong \in Nat /\ weak \in Nat
      /\ ~Dying => weak = Cardinality(WeakOwners) + StrongPin
  BY DEF PtrInv, CountsExact, TypeOK
<1>2. StrongPin \in Nat
  BY DEF StrongPin
<1>3. /\ \A h \in Handle : role[h] \in StrongRole <=> h \in StrongOwners
      /\ \A h \in Handle : role[h] \in WeakRole <=> h \in WeakOwners
  BY DEF StrongOwners, WeakOwners
<1>4. /\ \A h \in StrongOwners : strong > 0
      /\ \A h, g \in StrongOwners : strong = 1 => g = h
  BY <1>1, OwnersFinite, Counted
<1>5. /\ ~Dying /\ weak = StrongPin => Cardinality(WeakOwners) = 0
      /\ ~Dying /\ weak = 1 + StrongPin => Cardinality(WeakOwners) = 1
  BY <1>1, <1>2, OwnersFinite
<1>6. /\ Cardinality(WeakOwners) = 0 => WeakOwners = {}
      /\ \A h, g \in WeakOwners : Cardinality(WeakOwners) = 1 => g = h
  BY OwnersFinite, Counted, FS_EmptySet
<1> QED BY <1>3, <1>4, <1>5, <1>6

(* A pointer that saw kUniqueRef is the only one. *)
LEMMA SoleIsAlone ==
  ASSUME PtrInv, NEW h \in Handle, role[h] = "sole"
  PROVE  \A g \in Handle : g # h => role[g] = "null"
<1> SUFFICES ASSUME NEW g \in Handle, g # h PROVE role[g] = "null"
  OBVIOUS
<1>1. strong = 1 /\ weak = 1 /\ StrongPin = 1
  BY DEF PtrInv, SoleStaysSole, StrongPin
<1>2. ~Dying /\ \A x \in Handle : role[x] # "deleting"
  BY Owned
<1>3. \A x \in Handle : role[x] \notin WeakRole
  BY <1>1, <1>2, CountsTell
<1>4. role[g] \notin StrongRole
  BY <1>1, CountsTell DEF StrongRole
<1>5. role[g] # "locking"
  BY <1>3 DEF PtrInv, TypeOK, LockHoldsWeak, WeakRole
<1>6. role[g] \in Role
  BY DEF PtrInv, TypeOK
<1> QED BY <1>2, <1>3, <1>4, <1>5, <1>6 DEF Role, StrongRole, WeakRole

---------------------------------------------------------------------------
(* Each action keeps the invariant *)

LEMMA RetainKeeps ==
  ASSUME PtrInv, NEW h \in Handle, NEW g \in Handle, Retain(h, g)
  PROVE  PtrInv'
<1>1. /\ role[h] = "strong" /\ role[g] = "null" /\ g # h
      /\ strong' = strong + 1 /\ weak' = weak /\ Become(g, "strong")
      /\ from' = from /\ seen' = seen /\ releases' = releases /\ deletes' = deletes
  BY DEF Retain, LockUnchanged, ObjectUnchanged
<1>2. /\ TypeOK /\ "strong" \in Role
  BY DEF PtrInv, Role
<1>3. /\ role' \in [Handle -> Role] /\ role'[g] = "strong"
      /\ \A x \in Handle : x # g => role'[x] = role[x]
      /\ Cardinality(StrongOwners') = Cardinality(StrongOwners) + 1
      /\ Cardinality(WeakOwners') = Cardinality(WeakOwners)
  BY <1>1, <1>2, OwnersFollow, OwnersFinite DEF One, StrongRole, WeakRole
<1>4. /\ ~Dying /\ deletes = 0 /\ \A x \in Handle : role[x] # "deleting"
      /\ strong = Cardinality(StrongOwners)
      /\ weak = Cardinality(WeakOwners) + StrongPin /\ weak > 0
  BY <1>1, Owned
<1>5. strong > 0 /\ (\A x \in Handle : role[x] # "sole")
  BY <1>1, CountsTell, SoleIsAlone DEF StrongRole
<1>6. TypeOK'
  BY <1>1, <1>2, <1>3 DEF TypeOK
<1>7. ~Dying'
  BY <1>1, <1>3, <1>4 DEF Dying
<1>8. CountsExact'
  BY <1>1, <1>2, <1>3, <1>4, <1>5 DEF CountsExact, StrongPin, TypeOK
<1>9. Pinned' /\ DeleterIsLast'
  BY <1>1, <1>3, <1>4, <1>7 DEF Pinned, DeleterIsLast, Dying
<1>10. SoleStaysSole'
  BY <1>1, <1>3, <1>5 DEF SoleStaysSole
<1>11. LockHoldsWeak'
  BY <1>1, <1>2, <1>3 DEF PtrInv, LockHoldsWeak, TypeOK
<1>12. OneReleaser' /\ ReleaseProgress'
  BY <1>1, <1>3, <1>5 DEF PtrInv, OneReleaser, ReleaseProgress, Last
<1>13. ReclaimedOnce' /\ ExpiredIsReleased'
  BY <1>1, <1>2, <1>5 DEF PtrInv, ReclaimedOnce, ExpiredIsReleased, TypeOK
<1> QED BY <1>6, <1>8, <1>9, <1>10, <1>11, <1>12, <1>13 DEF PtrInv

LEMMA RetainWeakKeeps ==
  ASSUME PtrInv, NEW h \in Handle, NEW g \in Handle, RetainWeak(h, g)
  PROVE  PtrInv'
<1>1. /\ role[h] \in {"strong", "weak"} /\ role[g] = "null" /\ g # h
      /\ strong' = strong /\ weak' = weak + 1 /\ Become(g, "weak")
      /\ from' = from /\ seen' = seen /\ releases' = releases /\ deletes' = deletes
  BY DEF RetainWeak, LockUnchanged, ObjectUnchanged
<1>2. /\ TypeOK /\ "weak" \in Role
  BY DEF PtrInv, Role
<1>3. /\ role' \in [Handle -> Role] /\ role'[g] = "weak"
      /\ \A x \in Handle : x # g => role'[x] = role[x]
      /\ Cardinality(StrongOwners') = Cardinality(StrongOwners)
      /\ Cardinality(WeakOwners') = Cardinality(WeakOwners) + 1
  BY <1>1, <1>2, OwnersFollow, OwnersFinite DEF One, StrongRole, WeakRole
<1>4. /\ ~Dying /\ deletes = 0 /\ \A x \in Handle : role[x] # "deleting"
      /\ strong = Cardinality(StrongOwners)
      /\ weak = Cardinality(WeakOwners) + StrongPin /\ weak > 0
  BY <1>1, Owned
<1>5. \A x \in Handle : role[x] # "sole"
  BY <1>1, SoleIsAlone
<1>6. TypeOK'
  BY <1>1, <1>2, <1>3 DEF TypeOK
<1>7. ~Dying'
  BY <1>1, <1>3, <1>4 DEF Dying
<1>8. CountsExact'
  BY <1>1, <1>2, <1>3, <1>4, OwnersFinite DEF CountsExact, StrongPin, TypeOK
<1>9. Pinned' /\ DeleterIsLast'
  BY <1>1, <1>2, <1>3, <1>4, <1>7 DEF Pinned, DeleterIsLast, Dying, TypeOK
<1>10. SoleStaysSole'
  BY <1>1, <1>3, <1>5 DEF SoleStaysSole
<1>11. LockHoldsWeak'
  BY <1>1, <1>2, <1>3 DEF PtrInv, LockHoldsWeak, TypeOK
<1>12. OneReleaser' /\ ReleaseProgress'
  BY <1>1, <1>3 DEF PtrInv, OneReleaser, ReleaseProgress, Last
<1>13. ReclaimedOnce' /\ ExpiredIsReleased'
  BY <1>1, <1>3, <1>4 DEF PtrInv, ReclaimedOnce, ExpiredIsReleased
<1> QED BY <1>6, <1>8, <1>9, <1>10, <1>11, <1>12, <1>13 DEF PtrInv

LEMMA MoveKeeps ==
  ASSUME PtrInv, NEW h \in Handle, NEW g \in Handle, Move(h, g)
  PROVE  PtrInv'
<1>1. /\ role[h] \in {"strong", "weak"} /\ role[g] = "null" /\ g # h /\ Unread(h)
      /\ strong' = strong /\ weak' = weak
      /\ from' = from /\ seen' = seen /\ releases' = releases /\ deletes' = deletes
  BY DEF Move, CountsUnchanged, LockUnchanged, ObjectUnchanged
<1>2. TypeOK /\ role' = [role EXCEPT ![h] = "null", ![g] = role[h]]
  BY DEF PtrInv, Move
<1>3. /\ role' \in [Handle -> Role] /\ role'[g] = role[h] /\ role'[h] = "null"
      /\ \A x \in Handle : x # g /\ x # h => role'[x] = role[x]
  BY <1>1, <1>2 DEF TypeOK, Role
<1>4. /\ ~Dying /\ deletes = 0 /\ \A x \in Handle : role[x] # "deleting"
      /\ strong = Cardinality(StrongOwners)
      /\ weak = Cardinality(WeakOwners) + StrongPin /\ weak > 0
  BY <1>1, Owned
<1>5. \A x \in Handle : role[x] # "sole"
  BY <1>1, SoleIsAlone
<1>6. TypeOK'
  BY <1>1, <1>2, <1>3 DEF TypeOK
<1>7. ~Dying'
  BY <1>1, <1>3, <1>4 DEF Dying
<1>8. CountsExact'
  <2>1. ASSUME NEW S, NEW T, NEW R, IsFiniteSet(S), "null" \notin R,
               S = {x \in Handle : role[x] \in R}, T = {x \in Handle : role'[x] \in R}
        PROVE  Cardinality(T) = Cardinality(S)
    <3>1. CASE role[h] \in R
      <4>1. h \in S /\ g \notin S \ {h}
        BY <1>1, <2>1, <3>1
      <4>2. T = (S \ {h}) \cup {g}
        BY <1>1, <1>3, <2>1, <3>1
      <4>3. IsFiniteSet(S \ {h}) /\ Cardinality(S \ {h}) = Cardinality(S) - 1
        BY <2>1, <4>1, FS_RemoveElement
      <4>4. Cardinality(T) = Cardinality(S \ {h}) + 1
        BY <4>1, <4>2, <4>3, FS_AddElement
      <4> QED BY <2>1, <4>3, <4>4, FS_CardinalityType
    <3>2. CASE role[h] \notin R
      <4>1. T = S
        BY <1>1, <1>3, <2>1, <3>2
      <4> QED BY <4>1
    <3> QED BY <3>1, <3>2
  <2>2. /\ StrongOwners = {x \in Handle : role[x] \in StrongRole}
        /\ StrongOwners' = {x \in Handle : role'[x] \in StrongRole}
        /\ WeakOwners = {x \in Handle : role[x] \in WeakRole}
        /\ WeakOwners' = {x \in Handle : role'[x] \in WeakRole}
        /\ "null" \notin StrongRole /\ "null" \notin WeakRole
    BY DEF StrongOwners, WeakOwners, StrongRole, WeakRole
  <2>3. Cardinality(StrongOwners') = Cardinality(StrongOwners)
    BY <2>1, <2>2, OwnersFinite
  <2>4. Cardinality(WeakOwners') = Cardinality(WeakOwners)
    BY <2>1, <2>2, OwnersFinite
  <2> QED BY <1>1, <1>4, <2>3, <2>4 DEF CountsExact, StrongPin
<1>9. Pinned' /\ DeleterIsLast'
  BY <1>1, <1>3, <1>4, <1>7 DEF Pinned, DeleterIsLast, Dying
<1>10. SoleStaysSole'
  BY <1>1, <1>3, <1>5 DEF SoleStaysSole
<1>11. LockHoldsWeak'
  BY <1>1, <1>2, <1>3 DEF PtrInv, LockHoldsWeak, TypeOK, Unread
<1>12. OneReleaser' /\ ReleaseProgress'
  BY <1>1, <1>3 DEF PtrInv, OneReleaser, ReleaseProgress, Last
<1>13. ReclaimedOnce' /\ ExpiredIsReleased'
  BY <1>1, <1>3, <1>4 DEF PtrInv, ReclaimedOnce, ExpiredIsReleased
<1> QED BY <1>6, <1>8, <1>9, <1>10, <1>11, <1>12, <1>13 DEF PtrInv

LEMMA LoadForResetKeeps ==
  ASSUME PtrInv, NEW h \in Handle, LoadForReset(h)
  PROVE  PtrInv'
<1> DEFINE r == IF Unique THEN "sole" ELSE "dropping"
<1>1. /\ role[h] = "strong" /\ Become(h, r) /\ strong' = strong /\ weak' = weak
      /\ from' = from /\ seen' = seen /\ releases' = releases /\ deletes' = deletes
  BY DEF LoadForReset, CountsUnchanged, LockUnchanged, ObjectUnchanged
<1>2. /\ TypeOK /\ r \in Role /\ r \in {"sole", "dropping"}
      /\ r = "sole" => strong = 1 /\ weak = 1
  BY DEF PtrInv, Role, Unique
<1> HIDE DEF r
<1>3. /\ role' \in [Handle -> Role] /\ role'[h] = r
      /\ \A x \in Handle : x # h => role'[x] = role[x]
      /\ Cardinality(StrongOwners') = Cardinality(StrongOwners)
      /\ Cardinality(WeakOwners') = Cardinality(WeakOwners)
  BY <1>1, <1>2, OwnersFollow, OwnersFinite DEF One, StrongRole, WeakRole
<1>4. /\ ~Dying /\ deletes = 0 /\ \A x \in Handle : role[x] # "deleting"
      /\ strong = Cardinality(StrongOwners)
      /\ weak = Cardinality(WeakOwners) + StrongPin /\ weak > 0
  BY <1>1, Owned
<1>5. \A x \in Handle : role[x] # "sole"
  BY <1>1, SoleIsAlone
<1>6. TypeOK'
  BY <1>1, <1>2, <1>3 DEF TypeOK
<1>7. ~Dying'
  BY <1>1, <1>2, <1>3, <1>4 DEF Dying
<1>8. CountsExact'
  BY <1>1, <1>3, <1>4 DEF CountsExact, StrongPin
<1>9. Pinned' /\ DeleterIsLast'
  BY <1>1, <1>2, <1>3, <1>4, <1>7 DEF Pinned, DeleterIsLast, Dying
<1>10. SoleStaysSole'
  BY <1>1, <1>2, <1>3, <1>5 DEF SoleStaysSole
<1>11. LockHoldsWeak'
  BY <1>1, <1>2, <1>3 DEF PtrInv, LockHoldsWeak, TypeOK
<1>12. OneReleaser' /\ ReleaseProgress'
  BY <1>1, <1>2, <1>3 DEF PtrInv, OneReleaser, ReleaseProgress, Last
<1>13. ReclaimedOnce' /\ ExpiredIsReleased'
  BY <1>1, <1>3, <1>4 DEF PtrInv, ReclaimedOnce, ExpiredIsReleased
<1> QED BY <1>6, <1>8, <1>9, <1>10, <1>11, <1>12, <1>13 DEF PtrInv

LEMMA StoreZeroKeeps ==
  ASSUME PtrInv, NEW h \in Handle, StoreZero(h)
  PROVE  PtrInv'
<1>1. /\ role[h] = "sole" /\ Become(h, "deleting") /\ strong' = 0 /\ weak' = 0
      /\ from' = from /\ seen' = seen /\ releases' = releases /\ deletes' = deletes
  BY DEF StoreZero, LockUnchanged, ObjectUnchanged
<1>2. /\ TypeOK /\ "deleting" \in Role
  BY DEF PtrInv, Role
<1>3. /\ role' \in [Handle -> Role] /\ role'[h] = "deleting"
      /\ \A x \in Handle : x # h => role'[x] = role[x]
      /\ Cardinality(StrongOwners') = Cardinality(StrongOwners) - 1
  BY <1>1, <1>2, OwnersFollow, OwnersFinite DEF One, StrongRole
<1>4. /\ deletes = 0 /\ strong = Cardinality(StrongOwners) /\ strong = 1
  BY <1>1, Owned DEF PtrInv, SoleStaysSole
<1>5. \A x \in Handle : x # h => role'[x] = "null"
  BY <1>1, <1>3, SoleIsAlone
<1>6. TypeOK'
  BY <1>1, <1>2, <1>3 DEF TypeOK
<1>7. Dying'
  BY <1>3 DEF Dying
<1>8. CountsExact' /\ Pinned'
  BY <1>1, <1>3, <1>4, <1>7 DEF CountsExact, Pinned
<1>9. DeleterIsLast'
  BY <1>1, <1>3, <1>4, <1>5 DEF DeleterIsLast
<1>10. SoleStaysSole' /\ LockHoldsWeak' /\ OneReleaser'
  BY <1>3, <1>5 DEF SoleStaysSole, LockHoldsWeak, OneReleaser, Last
<1>11. ReleaseProgress' /\ ReclaimedOnce' /\ ExpiredIsReleased'
  BY <1>1, <1>3, <1>5, <1>7
     DEF PtrInv, ReleaseProgress, ReclaimedOnce, ExpiredIsReleased
<1> QED BY <1>6, <1>8, <1>9, <1>10, <1>11 DEF PtrInv

LEMMA DecrementKeeps ==
  ASSUME PtrInv, NEW h \in Handle, Decrement(h)
  PROVE  PtrInv'
<1> DEFINE r == AfterDecrement(strong - 1, weak)
<1>1. /\ role[h] = "dropping" /\ Become(h, r) /\ strong' = strong - 1 /\ weak' = weak
      /\ from' = from /\ seen' = seen /\ releases' = releases /\ deletes' = deletes
  BY DEF Decrement, LockUnchanged, ObjectUnchanged
<1>2. /\ TypeOK /\ r \in Role /\ r \in {"null", "deleting", "releasing"}
      /\ r = "null" <=> strong # 1
      /\ r = "deleting" => weak = 1
      /\ r = "releasing" => weak # 1
  BY DEF PtrInv, TypeOK, Role, AfterDecrement
<1> HIDE DEF r
<1>3. /\ role' \in [Handle -> Role] /\ role'[h] = r
      /\ \A x \in Handle : x # h => role'[x] = role[x]
      /\ Cardinality(StrongOwners') = Cardinality(StrongOwners) - 1
      /\ Cardinality(WeakOwners') = Cardinality(WeakOwners) + One(r, WeakRole)
      /\ One(r, WeakRole) = IF r = "releasing" THEN 1 ELSE 0
  BY <1>1, <1>2, OwnersFollow, OwnersFinite DEF One, StrongRole, WeakRole
<1>4. /\ ~Dying /\ deletes = 0 /\ \A x \in Handle : role[x] # "deleting"
      /\ strong = Cardinality(StrongOwners)
      /\ weak = Cardinality(WeakOwners) + 1 /\ weak > 0 /\ strong > 0
      /\ StrongPin = 1 /\ releases = 0
  <2>1. strong > 0
    BY <1>1, CountsTell DEF StrongRole
  <2> QED BY <1>1, <2>1, Owned DEF StrongPin, PtrInv, ReleaseProgress
<1>5. \A x \in Handle : role[x] \notin {"sole", "releasing", "unpinning"}
  BY <1>1, <1>4, SoleIsAlone DEF PtrInv, OneReleaser, Last
(* The decrement that leaves no count at all leaves no other pointer. *)
<1>6. r = "deleting" => \A x \in Handle : x # h => role[x] = "null"
  <2> SUFFICES ASSUME r = "deleting", NEW x \in Handle, x # h PROVE role[x] = "null"
    OBVIOUS
  <2>1. strong = 1 /\ weak = StrongPin
    BY <1>2, <1>4
  <2>2. \A y \in Handle : role[y] \notin WeakRole
    BY <1>4, <2>1, CountsTell
  <2>3. role[x] \notin StrongRole
    BY <1>1, <2>1, CountsTell DEF StrongRole
  <2>4. role[x] # "locking"
    BY <2>2 DEF PtrInv, TypeOK, LockHoldsWeak, WeakRole
  <2> QED BY <1>2, <1>4, <2>2, <2>3, <2>4 DEF TypeOK, Role, StrongRole, WeakRole
<1>7. TypeOK'
  BY <1>1, <1>2, <1>3, <1>4 DEF TypeOK
<1>8. Dying' <=> r = "deleting"
  BY <1>1, <1>3, <1>4 DEF Dying
<1>9. CountsExact'
  <2>1. StrongPin' = IF strong = 1 THEN 0 ELSE 1
    BY <1>1, <1>2, <1>4 DEF StrongPin, TypeOK
  <2>2. r # "deleting" => weak' = Cardinality(WeakOwners') + StrongPin'
    BY <1>1, <1>2, <1>3, <1>4, <2>1, OwnersFinite
  <2> QED BY <1>1, <1>3, <1>4, <1>8, <2>2 DEF CountsExact
<1>10. Pinned' /\ DeleterIsLast'
  BY <1>1, <1>2, <1>3, <1>4, <1>6, <1>8 DEF Pinned, DeleterIsLast
<1>11. SoleStaysSole'
  BY <1>2, <1>3, <1>5 DEF SoleStaysSole
<1>12. LockHoldsWeak'
  BY <1>1, <1>2, <1>3, <1>6 DEF PtrInv, LockHoldsWeak, TypeOK
<1>13. OneReleaser' /\ ReleaseProgress'
  BY <1>1, <1>2, <1>3, <1>4, <1>5 DEF OneReleaser, ReleaseProgress, Last, TypeOK
<1>14. ReclaimedOnce' /\ ExpiredIsReleased'
  BY <1>1, <1>2, <1>3, <1>4, <1>8 DEF PtrInv, ReclaimedOnce, ExpiredIsReleased, TypeOK
<1> QED BY <1>7, <1>9, <1>10, <1>11, <1>12, <1>13, <1>14 DEF PtrInv

LEMMA ReleaseResourcesKeeps ==
  ASSUME PtrInv, NEW h \in Handle, ReleaseResources(h)
  PROVE  PtrInv'
<1>1. /\ role[h] = "releasing" /\ Become(h, "unpinning") /\ strong' = strong /\ weak' = weak
      /\ from' = from /\ seen' = seen /\ releases' = releases + 1 /\ deletes' = deletes
  BY DEF ReleaseResources, CountsUnchanged, LockUnchanged
<1>2. /\ TypeOK /\ "unpinning" \in Role
  BY DEF PtrInv, Role
<1>3. /\ role' \in [Handle -> Role] /\ role'[h] = "unpinning"
      /\ \A x \in Handle : x # h => role'[x] = role[x]
      /\ Cardinality(StrongOwners') = Cardinality(StrongOwners)
      /\ Cardinality(WeakOwners') = Cardinality(WeakOwners)
  BY <1>1, <1>2, OwnersFollow, OwnersFinite DEF One, StrongRole, WeakRole
<1>4. /\ ~Dying /\ deletes = 0 /\ \A x \in Handle : role[x] # "deleting"
      /\ strong = Cardinality(StrongOwners)
      /\ weak = Cardinality(WeakOwners) + StrongPin /\ weak > 0
  BY <1>1, Owned
<1>5. /\ releases = 0 /\ strong = 0
      /\ \A x \in Handle : x # h => role[x] \notin {"sole", "releasing", "unpinning"}
  BY <1>1, SoleIsAlone DEF PtrInv, OneReleaser, ReleaseProgress, Last
<1>6. TypeOK'
  BY <1>1, <1>2, <1>3 DEF TypeOK
<1>7. ~Dying'
  BY <1>1, <1>3, <1>4 DEF Dying
<1>8. CountsExact'
  BY <1>1, <1>3, <1>4 DEF CountsExact, StrongPin
<1>9. Pinned' /\ DeleterIsLast'
  BY <1>1, <1>3, <1>4, <1>7 DEF Pinned, DeleterIsLast, Dying
<1>10. SoleStaysSole'
  BY <1>3, <1>5 DEF SoleStaysSole
<1>11. LockHoldsWeak'
  BY <1>1, <1>2, <1>3 DEF PtrInv, LockHoldsWeak, TypeOK
<1>12. OneReleaser' /\ ReleaseProgress'
  BY <1>1, <1>3, <1>5 DEF OneReleaser, ReleaseProgress, Last
<1>13. ReclaimedOnce' /\ ExpiredIsReleased'
  BY <1>1, <1>4, <1>5 DEF ReclaimedOnce, ExpiredIsReleased
<1> QED BY <1>6, <1>8, <1>9, <1>10, <1>11, <1>12, <1>13 DEF PtrInv

(* The last step of the last strong pointer and the end of a weak one are the *)
(* same decrement.                                                            *)
LEMMA WeakDecrementKeeps ==
  ASSUME PtrInv, NEW h \in Handle, Unpin(h) \/ ResetWeak(h)
  PROVE  PtrInv'
<1> DEFINE r == AfterWeakDecrement(weak - 1)
<1>1. /\ role[h] \in {"unpinning", "weak"} /\ Become(h, r)
      /\ role[h] = "weak" => Unread(h)
      /\ strong' = strong /\ weak' = weak - 1
      /\ from' = from /\ seen' = seen /\ releases' = releases /\ deletes' = deletes
  BY DEF Unpin, ResetWeak, LockUnchanged, ObjectUnchanged
<1>2. /\ TypeOK /\ r \in Role /\ r \in {"null", "deleting"}
      /\ r = "deleting" <=> weak = 1
  BY DEF PtrInv, TypeOK, Role, AfterWeakDecrement
<1> HIDE DEF r
<1>3. /\ role' \in [Handle -> Role] /\ role'[h] = r
      /\ \A x \in Handle : x # h => role'[x] = role[x]
      /\ Cardinality(StrongOwners') = Cardinality(StrongOwners)
      /\ Cardinality(WeakOwners') = Cardinality(WeakOwners) - 1
  BY <1>1, <1>2, OwnersFollow, OwnersFinite DEF One, StrongRole, WeakRole
<1>4. /\ ~Dying /\ deletes = 0 /\ \A x \in Handle : role[x] # "deleting"
      /\ strong = Cardinality(StrongOwners)
      /\ weak = Cardinality(WeakOwners) + StrongPin /\ weak > 0
  BY <1>1, Owned
<1>5. \A x \in Handle : role[x] # "sole"
  BY <1>1, SoleIsAlone
<1>6. r = "deleting" => strong = 0 /\ \A x \in Handle : x # h => role[x] = "null"
  <2> SUFFICES ASSUME r = "deleting"
               PROVE  strong = 0 /\ \A x \in Handle : x # h => role[x] = "null"
    OBVIOUS
  <2>1. weak = 1 /\ StrongPin \in {0, 1} /\ weak # StrongPin
    BY <1>1, <1>2, <1>4, CountsTell DEF StrongPin, WeakRole
  <2>2. StrongPin = 0 /\ strong = 0
    BY <1>2, <2>1 DEF StrongPin, TypeOK
  <2>3. \A x \in Handle : role[x] \in WeakRole => x = h
    BY <1>1, <1>4, <2>1, <2>2, CountsTell DEF WeakRole
  <2>4. \A x \in Handle : role[x] \notin StrongRole
    BY <2>2, CountsTell
  <2>5. \A x \in Handle : role[x] # "locking"
    BY <1>1, <2>3 DEF PtrInv, TypeOK, LockHoldsWeak, WeakRole, Unread
  <2> QED BY <1>2, <1>4, <2>2, <2>3, <2>4, <2>5 DEF TypeOK, Role, StrongRole, WeakRole
<1>7. TypeOK'
  BY <1>1, <1>2, <1>3, <1>4 DEF TypeOK
<1>8. Dying' <=> r = "deleting"
  BY <1>1, <1>3, <1>4 DEF Dying
<1>9. CountsExact'
  BY <1>1, <1>2, <1>3, <1>4, <1>8, OwnersFinite DEF CountsExact, StrongPin, TypeOK
<1>10. Pinned' /\ DeleterIsLast'
  BY <1>1, <1>2, <1>3, <1>4, <1>6, <1>8 DEF Pinned, DeleterIsLast, TypeOK
<1>11. SoleStaysSole'
  BY <1>2, <1>3, <1>5 DEF SoleStaysSole
<1>12. LockHoldsWeak'
  BY <1>1, <1>2, <1>3 DEF PtrInv, LockHoldsWeak, TypeOK, Unread
<1>13. OneReleaser' /\ ReleaseProgress'
  BY <1>1, <1>2, <1>3 DEF PtrInv, OneReleaser, ReleaseProgress, Last
<1>14. ReclaimedOnce' /\ ExpiredIsReleased'
  BY <1>1, <1>2, <1>3, <1>4, <1>8 DEF PtrInv, ReclaimedOnce, ReleaseProgress, ExpiredIsReleased
<1> QED BY <1>7, <1>9, <1>10, <1>11, <1>12, <1>13, <1>14 DEF PtrInv

LEMMA DeleteKeeps ==
  ASSUME PtrInv, NEW h \in Handle, Delete(h)
  PROVE  PtrInv'
<1>1. /\ role[h] = "deleting" /\ Become(h, "null") /\ strong' = strong /\ weak' = weak
      /\ from' = from /\ seen' = seen /\ releases' = releases /\ deletes' = deletes + 1
  BY DEF Delete, CountsUnchanged, LockUnchanged
<1>2. /\ TypeOK /\ "null" \in Role
  BY DEF PtrInv, Role
<1>3. /\ role' \in [Handle -> Role] /\ role'[h] = "null"
      /\ \A x \in Handle : x # h => role'[x] = role[x]
      /\ Cardinality(StrongOwners') = Cardinality(StrongOwners)
  BY <1>1, <1>2, OwnersFollow, OwnersFinite DEF One, StrongRole
<1>4. Dying /\ strong = 0 /\ weak <= 1 /\ deletes = 0
  BY <1>1, <1>2 DEF PtrInv, DeleterIsLast, Dying, AllNull, TypeOK
<1>5. \A x \in Handle : role'[x] = "null"
  BY <1>1, <1>3 DEF PtrInv, DeleterIsLast
<1>6. TypeOK'
  BY <1>1, <1>2, <1>3 DEF TypeOK
<1>7. Dying'
  BY <1>1, <1>4 DEF Dying
<1>8. CountsExact' /\ Pinned'
  BY <1>1, <1>3, <1>7 DEF PtrInv, CountsExact, Pinned
<1>9. DeleterIsLast'
  BY <1>1, <1>4, <1>5 DEF DeleterIsLast, AllNull
<1>10. SoleStaysSole' /\ LockHoldsWeak' /\ OneReleaser'
  BY <1>5 DEF SoleStaysSole, LockHoldsWeak, OneReleaser, Last
<1>11. ReleaseProgress' /\ ReclaimedOnce' /\ ExpiredIsReleased'
  BY <1>1, <1>4, <1>5, <1>7 DEF PtrInv, ReleaseProgress, ReclaimedOnce, ExpiredIsReleased
<1> QED BY <1>6, <1>8, <1>9, <1>10, <1>11 DEF PtrInv

LEMMA LockLoadKeeps ==
  ASSUME PtrInv, NEW h \in Handle, NEW g \in Handle, LockLoad(h, g)
  PROVE  PtrInv'
<1>1. /\ role[h] = "weak" /\ role[g] = "null" /\ g # h /\ strong # 0
      /\ strong' = strong /\ weak' = weak /\ Become(g, "locking")
      /\ releases' = releases /\ deletes' = deletes
  BY DEF LockLoad, Alive, CountsUnchanged, ObjectUnchanged
<1>2. /\ TypeOK /\ "locking" \in Role
      /\ from' = [from EXCEPT ![g] = h] /\ seen' = [seen EXCEPT ![g] = Now]
  BY DEF PtrInv, Role, LockLoad
<1>3. /\ role' \in [Handle -> Role] /\ role'[g] = "locking"
      /\ \A x \in Handle : x # g => role'[x] = role[x]
      /\ Cardinality(StrongOwners') = Cardinality(StrongOwners)
      /\ Cardinality(WeakOwners') = Cardinality(WeakOwners)
  BY <1>1, <1>2, OwnersFollow, OwnersFinite DEF One, StrongRole, WeakRole
<1>4. /\ ~Dying /\ deletes = 0 /\ \A x \in Handle : role[x] # "deleting"
      /\ strong = Cardinality(StrongOwners)
      /\ weak = Cardinality(WeakOwners) + StrongPin /\ weak > 0
  BY <1>1, Owned
<1>5. \A x \in Handle : role[x] # "sole"
  BY <1>1, SoleIsAlone
<1>6. /\ Now \in Word /\ Now.strong > 0
      /\ from' \in [Handle -> Handle] /\ from'[g] = h
      /\ seen' \in [Handle -> Word] /\ seen'[g] = Now
      /\ \A x \in Handle : x # g => from'[x] = from[x] /\ seen'[x] = seen[x]
  BY <1>1, <1>2 DEF TypeOK, Now, Word
<1>7. TypeOK'
  BY <1>1, <1>2, <1>3, <1>6 DEF TypeOK
<1>8. ~Dying'
  BY <1>1, <1>3, <1>4 DEF Dying
<1>9. CountsExact'
  BY <1>1, <1>3, <1>4 DEF CountsExact, StrongPin
<1>10. Pinned' /\ DeleterIsLast'
  BY <1>1, <1>3, <1>4, <1>8 DEF Pinned, DeleterIsLast, Dying
<1>11. SoleStaysSole'
  BY <1>1, <1>3, <1>5 DEF SoleStaysSole
<1>12. LockHoldsWeak'
  BY <1>1, <1>2, <1>3, <1>6 DEF PtrInv, LockHoldsWeak, TypeOK
<1>13. OneReleaser' /\ ReleaseProgress'
  BY <1>1, <1>3 DEF PtrInv, OneReleaser, ReleaseProgress, Last
<1>14. ReclaimedOnce' /\ ExpiredIsReleased'
  BY <1>1, <1>3, <1>4 DEF PtrInv, ReclaimedOnce, ExpiredIsReleased
<1> QED BY <1>7, <1>9, <1>10, <1>11, <1>12, <1>13, <1>14 DEF PtrInv

(* The exchange finds the word that was read, in which the object lived. *)
LEMMA LockExchangeKeeps ==
  ASSUME PtrInv, NEW g \in Handle, LockExchange(g)
  PROVE  PtrInv'
<1>1. /\ role[g] = "locking" /\ seen[g] = Now
      /\ strong' = strong + 1 /\ weak' = weak /\ Become(g, "strong")
      /\ releases' = releases /\ deletes' = deletes
  BY DEF LockExchange, Unmoved, ObjectUnchanged
<1>2. /\ TypeOK /\ "strong" \in Role
      /\ from' = [from EXCEPT ![g] = g] /\ seen' = [seen EXCEPT ![g] = NoWord]
  BY DEF PtrInv, Role, LockExchange
<1>3. /\ role' \in [Handle -> Role] /\ role'[g] = "strong"
      /\ \A x \in Handle : x # g => role'[x] = role[x]
      /\ Cardinality(StrongOwners') = Cardinality(StrongOwners) + 1
      /\ Cardinality(WeakOwners') = Cardinality(WeakOwners)
  BY <1>1, <1>2, OwnersFollow, OwnersFinite DEF One, StrongRole, WeakRole
<1>4. /\ ~Dying /\ deletes = 0 /\ \A x \in Handle : role[x] # "deleting"
      /\ strong = Cardinality(StrongOwners)
      /\ weak = Cardinality(WeakOwners) + StrongPin /\ weak > 0
  BY <1>1, Owned
<1>5. strong > 0 /\ \A x \in Handle : role[x] # "sole"
  <2>1. Now.strong > 0
    BY <1>1 DEF PtrInv, LockHoldsWeak
  <2> QED BY <1>1, <2>1, SoleIsAlone DEF Now
<1>6. /\ NoWord \in Word
      /\ from' \in [Handle -> Handle] /\ seen' \in [Handle -> Word]
      /\ \A x \in Handle : x # g => from'[x] = from[x] /\ seen'[x] = seen[x]
  BY <1>1, <1>2 DEF TypeOK, NoWord, Word
<1>7. TypeOK'
  BY <1>1, <1>2, <1>3, <1>6 DEF TypeOK
<1>8. ~Dying'
  BY <1>1, <1>3, <1>4 DEF Dying
<1>9. CountsExact'
  BY <1>1, <1>2, <1>3, <1>4, <1>5 DEF CountsExact, StrongPin, TypeOK
<1>10. Pinned' /\ DeleterIsLast'
  BY <1>1, <1>3, <1>4, <1>8 DEF Pinned, DeleterIsLast, Dying
<1>11. SoleStaysSole'
  BY <1>1, <1>3, <1>5 DEF SoleStaysSole
<1>12. LockHoldsWeak'
  BY <1>1, <1>2, <1>3, <1>6 DEF PtrInv, LockHoldsWeak, TypeOK
<1>13. OneReleaser' /\ ReleaseProgress'
  BY <1>1, <1>3, <1>5 DEF PtrInv, OneReleaser, ReleaseProgress, Last
<1>14. ReclaimedOnce' /\ ExpiredIsReleased'
  BY <1>1, <1>2, <1>5 DEF PtrInv, ReclaimedOnce, ExpiredIsReleased, TypeOK
<1> QED BY <1>7, <1>9, <1>10, <1>11, <1>12, <1>13, <1>14 DEF PtrInv

LEMMA LockRetryKeeps ==
  ASSUME PtrInv, NEW g \in Handle, LockRetry(g)
  PROVE  PtrInv'
<1>1. /\ strong # 0 /\ strong' = strong /\ weak' = weak /\ role' = role /\ from' = from
      /\ releases' = releases /\ deletes' = deletes
  BY DEF LockRetry, Alive, CountsUnchanged, ObjectUnchanged
<1>2. TypeOK /\ seen' = [seen EXCEPT ![g] = Now]
  BY DEF PtrInv, LockRetry
<1>3. /\ Now.strong > 0 /\ seen' \in [Handle -> Word] /\ seen'[g] = Now
      /\ \A x \in Handle : x # g => seen'[x] = seen[x]
  BY <1>1, <1>2 DEF TypeOK, Now, Word
<1>4. TypeOK'
  BY <1>1, <1>2, <1>3 DEF TypeOK
<1>5. LockHoldsWeak'
  BY <1>1, <1>3 DEF PtrInv, LockHoldsWeak
<1>6. StrongOwners' = StrongOwners /\ WeakOwners' = WeakOwners /\ (Dying' <=> Dying)
      /\ StrongPin' = StrongPin
  BY <1>1 DEF StrongOwners, WeakOwners, Dying, StrongPin
<1>7. CountsExact' /\ Pinned' /\ DeleterIsLast'
  BY <1>1, <1>6 DEF PtrInv, CountsExact, Pinned, DeleterIsLast, AllNull
<1>8. SoleStaysSole' /\ OneReleaser' /\ ReleaseProgress' /\ ReclaimedOnce' /\ ExpiredIsReleased'
  BY <1>1, <1>6 DEF PtrInv, SoleStaysSole, OneReleaser, Last, ReleaseProgress,
                    ReclaimedOnce, ExpiredIsReleased
<1> QED BY <1>4, <1>5, <1>7, <1>8 DEF PtrInv

LEMMA LockExpiredKeeps ==
  ASSUME PtrInv, NEW g \in Handle, LockExpired(g)
  PROVE  PtrInv'
<1>1. /\ role[g] = "locking" /\ Become(g, "null")
      /\ strong' = strong /\ weak' = weak /\ releases' = releases /\ deletes' = deletes
  BY DEF LockExpired, CountsUnchanged, ObjectUnchanged
<1>2. /\ TypeOK /\ "null" \in Role
      /\ from' = [from EXCEPT ![g] = g] /\ seen' = [seen EXCEPT ![g] = NoWord]
  BY DEF PtrInv, Role, LockExpired
<1>3. /\ role' \in [Handle -> Role] /\ role'[g] = "null"
      /\ \A x \in Handle : x # g => role'[x] = role[x]
      /\ Cardinality(StrongOwners') = Cardinality(StrongOwners)
      /\ Cardinality(WeakOwners') = Cardinality(WeakOwners)
  BY <1>1, <1>2, OwnersFollow, OwnersFinite DEF One, StrongRole, WeakRole
<1>4. /\ ~Dying /\ deletes = 0 /\ \A x \in Handle : role[x] # "deleting"
      /\ strong = Cardinality(StrongOwners)
      /\ weak = Cardinality(WeakOwners) + StrongPin /\ weak > 0
  BY <1>1, Owned
<1>5. \A x \in Handle : role[x] # "sole"
  BY <1>1, SoleIsAlone
<1>6. /\ NoWord \in Word
      /\ from' \in [Handle -> Handle] /\ seen' \in [Handle -> Word]
      /\ \A x \in Handle : x # g => from'[x] = from[x] /\ seen'[x] = seen[x]
  BY <1>1, <1>2 DEF TypeOK, NoWord, Word
<1>7. TypeOK'
  BY <1>1, <1>2, <1>3, <1>6 DEF TypeOK
<1>8. ~Dying'
  BY <1>1, <1>3, <1>4 DEF Dying
<1>9. CountsExact'
  BY <1>1, <1>3, <1>4 DEF CountsExact, StrongPin
<1>10. Pinned' /\ DeleterIsLast'
  BY <1>1, <1>3, <1>4, <1>8 DEF Pinned, DeleterIsLast, Dying
<1>11. SoleStaysSole'
  BY <1>1, <1>3, <1>5 DEF SoleStaysSole
<1>12. LockHoldsWeak'
  BY <1>1, <1>2, <1>3, <1>6 DEF PtrInv, LockHoldsWeak, TypeOK
<1>13. OneReleaser' /\ ReleaseProgress'
  BY <1>1, <1>3 DEF PtrInv, OneReleaser, ReleaseProgress, Last
<1>14. ReclaimedOnce' /\ ExpiredIsReleased'
  BY <1>1, <1>3, <1>4 DEF PtrInv, ReclaimedOnce, ExpiredIsReleased
<1> QED BY <1>7, <1>9, <1>10, <1>11, <1>12, <1>13, <1>14 DEF PtrInv

---------------------------------------------------------------------------
(* The invariant and what follows from it *)

LEMMA InitKeeps == Init => PtrInv
<1> SUFFICES ASSUME Init PROVE PtrInv
  OBVIOUS
<1>1. PICK h \in Handle :
        /\ strong = 1 /\ weak = 1
        /\ role = [g \in Handle |-> IF g = h THEN "strong" ELSE "null"]
        /\ from = [g \in Handle |-> g] /\ seen = [g \in Handle |-> NoWord]
        /\ releases = 0 /\ deletes = 0
  BY DEF Init
<1>2. TypeOK
  BY <1>1 DEF TypeOK, Role, Word, NoWord
<1>3. StrongOwners = {h} /\ WeakOwners = {} /\ StrongPin = 1
  BY <1>1 DEF StrongOwners, WeakOwners, StrongRole, WeakRole, StrongPin
<1>4. CountsExact
  BY <1>1, <1>3, FS_EmptySet, FS_Singleton DEF CountsExact
<1>5. \A g \in Handle : role[g] \in {"strong", "null"}
  BY <1>1
<1>6. ~Dying
  BY <1>1, <1>5 DEF Dying
<1> QED BY <1>1, <1>2, <1>4, <1>5, <1>6
        DEF PtrInv, Pinned, DeleterIsLast, SoleStaysSole, LockHoldsWeak, OneReleaser, Last,
            ReleaseProgress, ReclaimedOnce, ExpiredIsReleased

LEMMA StutterKeeps == PtrInv /\ UNCHANGED vars => PtrInv'
<1> SUFFICES ASSUME PtrInv, UNCHANGED vars PROVE PtrInv'
  OBVIOUS
<1>1. /\ strong' = strong /\ weak' = weak /\ role' = role /\ from' = from /\ seen' = seen
      /\ releases' = releases /\ deletes' = deletes
  BY DEF vars
<1> QED BY <1>1 DEF PtrInv, TypeOK, CountsExact, Pinned, DeleterIsLast, SoleStaysSole,
                    LockHoldsWeak, OneReleaser, Last, ReleaseProgress, ReclaimedOnce,
                    ExpiredIsReleased, StrongOwners, WeakOwners, Dying, StrongPin, AllNull

LEMMA NextKeeps == PtrInv /\ [Next]_vars => PtrInv'
<1> SUFFICES ASSUME PtrInv, [Next]_vars PROVE PtrInv'
  OBVIOUS
<1>1. ASSUME NEW h \in Handle, NEW g \in Handle,
             Retain(h, g) \/ RetainWeak(h, g) \/ Move(h, g) \/ LockLoad(h, g)
      PROVE  PtrInv'
  BY <1>1, RetainKeeps, RetainWeakKeeps, MoveKeeps, LockLoadKeeps
<1>2. ASSUME NEW h \in Handle,
             \/ LoadForReset(h) \/ StoreZero(h) \/ Decrement(h) \/ ReleaseResources(h)
             \/ Unpin(h) \/ ResetWeak(h) \/ Delete(h)
      PROVE  PtrInv'
  BY <1>2, LoadForResetKeeps, StoreZeroKeeps, DecrementKeeps, ReleaseResourcesKeeps,
     WeakDecrementKeeps, DeleteKeeps
<1>3. ASSUME NEW h \in Handle, LockExchange(h) \/ LockRetry(h) \/ LockExpired(h)
      PROVE  PtrInv'
  BY <1>3, LockExchangeKeeps, LockRetryKeeps, LockExpiredKeeps
<1>4. CASE UNCHANGED vars
  BY <1>4, StutterKeeps
<1> QED BY <1>1, <1>2, <1>3, <1>4 DEF Next, Forgotten

(* Every state of every interleaving satisfies the invariant. *)
THEOREM PtrInvariance == Spec => []PtrInv
BY InitKeeps, NextKeeps, PTL DEF Spec

(* No half of combined_refcount_ ever goes below zero. *)
THEOREM PtrTypeCorrect == Spec => []TypeOK
<1>1. PtrInv => TypeOK
  BY DEF PtrInv
<1> QED BY <1>1, PtrInvariance, PTL

(* The counts are those of the comment in intrusive_ptr.h:161-163. *)
THEOREM CountsAlwaysExact == Spec => []CountsExact
<1>1. PtrInv => CountsExact
  BY DEF PtrInv
<1> QED BY <1>1, PtrInvariance, PTL

(* While a strong pointer is at rest, what it refers to is whole. *)
THEOREM StrongAlwaysKeepsAlive == Spec => []StrongKeepsAlive
<1>1. PtrInv => StrongKeepsAlive
  <2> SUFFICES ASSUME PtrInv, NEW h \in Handle, role[h] = "strong"
               PROVE  releases = 0 /\ ~Dying
    BY DEF StrongKeepsAlive
  <2>1. strong > 0
    BY CountsTell DEF StrongRole
  <2> QED BY <2>1, Owned DEF PtrInv, ReleaseProgress
<1> QED BY <1>1, PtrInvariance, PTL

(* The object is deleted by the last to refer to it, with the counts that the *)
(* destructor asserts.                                                        *)
THEOREM DeleterAlwaysLast == Spec => []DeleterIsLast
<1>1. PtrInv => DeleterIsLast
  BY DEF PtrInv
<1> QED BY <1>1, PtrInvariance, PTL

(* Resources and memory are given back at most once, ... *)
THEOREM AlwaysReclaimedOnce == Spec => []ReclaimedOnce
<1>1. PtrInv => ReclaimedOnce
  BY DEF PtrInv
<1> QED BY <1>1, PtrInvariance, PTL

(* ... the resources as soon as weak pointers outlive the strong ones, ... *)
THEOREM AlwaysExpiredIsReleased == Spec => []ExpiredIsReleased
<1>1. PtrInv => ExpiredIsReleased
  BY DEF PtrInv
<1> QED BY <1>1, PtrInvariance, PTL

(* ... and the memory once no pointer is left. *)
THEOREM NeverLeaks == Spec => []NoLeak
<1>1. PtrInv => NoLeak
  <2> SUFFICES ASSUME PtrInv, AllNull PROVE deletes = 1
    BY DEF NoLeak
  <2>1. StrongOwners = {} /\ WeakOwners = {}
    BY DEF AllNull, StrongOwners, WeakOwners, StrongRole, WeakRole
  <2>2. strong = 0 /\ (~Dying => weak = 0)
    BY <2>1, FS_EmptySet DEF PtrInv, CountsExact, StrongPin
  <2>3. Dying
    BY <2>2 DEF PtrInv, Pinned
  <2> QED BY <2>3 DEF PtrInv, TypeOK, Dying, AllNull, ReclaimedOnce
<1> QED BY <1>1, PtrInvariance, PTL

(* lock() never brings an object back: a strong count of zero stays zero. *)
THEOREM DeadAlwaysStaysDead == Spec => DeadStaysDead
<1>1. PtrInv /\ [Next]_vars => [strong = 0 => strong' = 0]_vars
  <2> SUFFICES ASSUME PtrInv, Next, strong = 0 PROVE strong' = 0
    OBVIOUS
  <2>1. \A h \in Handle : role[h] \notin StrongRole
    BY CountsTell
  <2>2. \A g \in Handle : ~LockExchange(g)
    BY DEF PtrInv, LockHoldsWeak, LockExchange, Unmoved, Now
  <2>3. \A h, g \in Handle : ~Retain(h, g)
    BY <2>1 DEF Retain, StrongRole
  <2>4. \A h \in Handle : ~Decrement(h)
    BY <2>1 DEF Decrement, StrongRole
  <2> QED BY <2>2, <2>3, <2>4
          DEF Next, RetainWeak, Move, LockLoad, LoadForReset, StoreZero, ReleaseResources, Unpin,
              ResetWeak, Delete, LockRetry, LockExpired, Forgotten, CountsUnchanged, vars
<1> QED BY <1>1, PtrInvariance, PTL DEF Spec, DeadStaysDead
=============================================================================
