---------------------------- MODULE IntrusivePtr ----------------------------
(***************************************************************************)
(* One object of a class derived from intrusive_ptr_target and the pointers *)
(* to it (Core/common/intrusive_ptr.h).  The only shared data are the two   *)
(* halves of combined_refcount_, which one atomic instruction reads or      *)
(* updates together.  Pointers are used concurrently, each by one thread at *)
(* a time, so a pointer carries the program counter of the operation that   *)
(* is running on it.  An action is one atomic access.                       *)
(*                                                                         *)
(* A raw pointer that owns a reference (the result of release(), of         *)
(* raw::incref or of raw::make_weak) is one more pointer.  Fewer than 2^32  *)
(* pointers exist at a time, so that no half carries into the other.        *)
(***************************************************************************)
EXTENDS Integers, FiniteSets

CONSTANT Handle     \* the intrusive_ptr and weak_intrusive_ptr objects

ASSUME HandleAssumption == IsFiniteSet(Handle)

VARIABLES
  strong,      \* low half of combined_refcount_
  weak,        \* high half of combined_refcount_
  role,        \* what each pointer is, or the step its operation is at
  from,        \* the weak pointer lock() was called on
  seen,        \* the word lock() last read
  releases,    \* how often release_resources() was called
  deletes      \* how often the object was deleted

vars == <<strong, weak, role, from, seen, releases, deletes>>

(* "null", "strong" and "weak" are pointers at rest.  The others are in the *)
(* destructor of a strong pointer ("sole": saw kUniqueRef, "dropping": about *)
(* to decrement, "releasing": in release_resources, "unpinning": about to   *)
(* give up the weak count of the strong ones), at a delete, or in lock().   *)
Role == {"null", "strong", "weak",
         "sole", "dropping", "releasing", "unpinning", "deleting", "locking"}

Word == [strong : Nat, weak : Nat]
Now == [strong |-> strong, weak |-> weak]
NoWord == [strong |-> 0, weak |-> 0]

Become(h, r) == role' = [role EXCEPT ![h] = r]
CountsUnchanged == UNCHANGED <<strong, weak>>
LockUnchanged == UNCHANGED <<from, seen>>
ObjectUnchanged == UNCHANGED <<releases, deletes>>

(* make_intrusive: kUniqueRef is stored before anybody else knows the object. *)
Init ==
  \E h \in Handle :
    /\ strong = 1 /\ weak = 1
    /\ role = [g \in Handle |-> IF g = h THEN "strong" ELSE "null"]
    /\ from = [g \in Handle |-> g]
    /\ seen = [g \in Handle |-> NoWord]
    /\ releases = 0 /\ deletes = 0

---------------------------------------------------------------------------
(* Copies and moves *)

(* A pointer that lock() is reading may not be moved from or reset. *)
Unread(h) == \A g \in Handle : role[g] = "locking" => from[g] # h

Retain(h, g) ==
  /\ role[h] = "strong" /\ role[g] = "null"
  /\ strong' = strong + 1 /\ Become(g, "strong")
  /\ UNCHANGED weak /\ LockUnchanged /\ ObjectUnchanged

(* A weak pointer from a strong one or from another weak one. *)
RetainWeak(h, g) ==
  /\ role[h] \in {"strong", "weak"} /\ role[g] = "null"
  /\ weak' = weak + 1 /\ Become(g, "weak")
  /\ UNCHANGED strong /\ LockUnchanged /\ ObjectUnchanged

(* Move construction, swap with a null pointer, release() and reclaim(). *)
Move(h, g) ==
  /\ role[h] \in {"strong", "weak"} /\ role[g] = "null" /\ Unread(h)
  /\ role' = [role EXCEPT ![h] = "null", ![g] = role[h]]
  /\ CountsUnchanged /\ LockUnchanged /\ ObjectUnchanged

---------------------------------------------------------------------------
(* Dropping a strong pointer *)

(* The strong count alone is looked at before the non-atomic path. *)
Unique_StrongOnly == strong = 1

(* reset_() looks for kUniqueRef before it pays for an atomic decrement. *)
Unique == strong = 1 /\ weak = 1

LoadForReset(h) ==
  /\ role[h] = "strong"
  /\ Become(h, IF Unique THEN "sole" ELSE "dropping")
  /\ CountsUnchanged /\ LockUnchanged /\ ObjectUnchanged

StoreZero(h) ==
  /\ role[h] = "sole"
  /\ strong' = 0 /\ weak' = 0 /\ Become(h, "deleting")
  /\ LockUnchanged /\ ObjectUnchanged

(* The weak count of the strong pointers is never given up. *)
AfterDecrement_Pinned(s, w) == IF s # 0 \/ w > 1 THEN "null" ELSE "deleting"

(* What is left to do once the strong count is s and the weak count w. *)
AfterDecrement(s, w) ==
  IF s # 0 THEN "null" ELSE IF w = 1 THEN "deleting" ELSE "releasing"

(* The weak count of the strong pointers is given up with the last of them. *)
Decrement_Both(h) ==
  /\ role[h] = "dropping"
  /\ strong' = strong - 1
  /\ weak' = IF strong = 1 THEN weak - 1 ELSE weak
  /\ Become(h, AfterDecrement(strong - 1, weak))
  /\ LockUnchanged /\ ObjectUnchanged

Decrement(h) ==
  /\ role[h] = "dropping"
  /\ strong' = strong - 1 /\ Become(h, AfterDecrement(strong - 1, weak))
  /\ UNCHANGED weak /\ LockUnchanged /\ ObjectUnchanged

ReleaseResources(h) ==
  /\ role[h] = "releasing"
  /\ releases' = releases + 1 /\ Become(h, "unpinning")
  /\ CountsUnchanged /\ LockUnchanged /\ UNCHANGED deletes

---------------------------------------------------------------------------
(* Dropping a weak count *)

AfterWeakDecrement(w) == IF w = 0 THEN "deleting" ELSE "null"

(* The weak count that stood for the strong pointers. *)
Unpin(h) ==
  /\ role[h] = "unpinning"
  /\ weak' = weak - 1 /\ Become(h, AfterWeakDecrement(weak - 1))
  /\ UNCHANGED strong /\ LockUnchanged /\ ObjectUnchanged

ResetWeak(h) ==
  /\ role[h] = "weak" /\ Unread(h)
  /\ weak' = weak - 1 /\ Become(h, AfterWeakDecrement(weak - 1))
  /\ UNCHANGED strong /\ LockUnchanged /\ ObjectUnchanged

Delete(h) ==
  /\ role[h] = "deleting"
  /\ deletes' = deletes + 1 /\ Become(h, "null")
  /\ CountsUnchanged /\ LockUnchanged /\ UNCHANGED releases

---------------------------------------------------------------------------
(* weak_intrusive_ptr::lock() on h, the result in g.  The result stays null *)
(* if the first load finds no strong pointer: nothing changes.              *)

Alive == strong # 0

LockLoad(h, g) ==
  /\ role[h] = "weak" /\ role[g] = "null" /\ Alive
  /\ Become(g, "locking")
  /\ from' = [from EXCEPT ![g] = h]
  /\ seen' = [seen EXCEPT ![g] = Now]
  /\ CountsUnchanged /\ ObjectUnchanged

(* The check of the word is forgotten: fetch_add after the load. *)
Unmoved_Blind(g) == TRUE

Unmoved(g) == seen[g] = Now

LockExchange(g) ==
  /\ role[g] = "locking" /\ Unmoved(g)
  /\ strong' = strong + 1 /\ Become(g, "strong")
  /\ from' = [from EXCEPT ![g] = g]
  /\ seen' = [seen EXCEPT ![g] = NoWord]
  /\ UNCHANGED weak /\ ObjectUnchanged

(* compare_exchange_weak may also fail without a reason; it leaves the word *)
(* it found, and the loop gives up when that has no strong pointer.         *)
LockRetry(g) ==
  /\ role[g] = "locking" /\ Alive
  /\ seen' = [seen EXCEPT ![g] = Now]
  /\ UNCHANGED <<role, from>> /\ CountsUnchanged /\ ObjectUnchanged

LockExpired(g) ==
  /\ role[g] = "locking" /\ ~Alive
  /\ Become(g, "null")
  /\ from' = [from EXCEPT ![g] = g]
  /\ seen' = [seen EXCEPT ![g] = NoWord]
  /\ CountsUnchanged /\ ObjectUnchanged

---------------------------------------------------------------------------

AllNull == \A h \in Handle : role[h] = "null"

(* Nobody refers to the object any more. *)
Forgotten == AllNull /\ UNCHANGED vars

Next ==
  \/ \E h, g \in Handle :
       Retain(h, g) \/ RetainWeak(h, g) \/ Move(h, g) \/ LockLoad(h, g)
  \/ \E h \in Handle :
       \/ LoadForReset(h) \/ StoreZero(h) \/ Decrement(h) \/ ReleaseResources(h)
       \/ Unpin(h) \/ ResetWeak(h) \/ Delete(h)
       \/ LockExchange(h) \/ LockRetry(h) \/ LockExpired(h)
  \/ Forgotten

Spec == Init /\ [][Next]_vars

---------------------------------------------------------------------------
(* Properties *)

StrongRole == {"strong", "sole", "dropping"}
WeakRole == {"weak", "releasing", "unpinning"}
StrongOwners == {h \in Handle : role[h] \in StrongRole}
WeakOwners == {h \in Handle : role[h] \in WeakRole}
Dying == deletes > 0 \/ \E h \in Handle : role[h] = "deleting"
StrongPin == IF strong > 0 THEN 1 ELSE 0

(* Counts are natural numbers: no half of combined_refcount_ borrows. *)
TypeOK ==
  /\ strong \in Nat /\ weak \in Nat
  /\ role \in [Handle -> Role]
  /\ from \in [Handle -> Handle]
  /\ seen \in [Handle -> Word]
  /\ releases \in Nat /\ deletes \in Nat

(* The scheme of intrusive_ptr.h:161-163: refcount is the number of strong  *)
(* pointers, weakcount that of weak ones plus one while refcount > 0 (and    *)
(* until whoever dropped the last strong pointer has given that one up).    *)
CountsExact ==
  /\ strong = Cardinality(StrongOwners)
  /\ ~Dying => weak = Cardinality(WeakOwners) + StrongPin

(* What a strong pointer refers to has neither released its resources nor   *)
(* been deleted, however many weak pointers are dropped or locked meanwhile. *)
StrongKeepsAlive ==
  \A h \in Handle : role[h] = "strong" => releases = 0 /\ ~Dying

(* Whoever deletes the object is the last to hold it: no other pointer, and *)
(* no operation that will touch its counts; and the counts are those that   *)
(* the destructor asserts (intrusive_ptr.h:211-233).                        *)
DeleterIsLast ==
  /\ \A h, g \in Handle : role[h] = "deleting" /\ g # h => role[g] = "null"
  /\ deletes > 0 => AllNull
  /\ Dying => strong = 0 /\ weak <= 1

(* release_resources() and the destructor run at most once. *)
ReclaimedOnce == releases <= 1 /\ deletes <= 1

(* Weak pointers that outlive the strong ones hold only the counts: the     *)
(* resources have been released, or the last strong pointer is doing so.    *)
ExpiredIsReleased ==
  strong = 0 /\ ~Dying => releases = 1 \/ \E h \in Handle : role[h] = "releasing"

(* Once nothing refers to the object, it has been deleted. *)
NoLeak == AllNull => deletes = 1

(* "Once refcount == 0, it can never again be > 0" (intrusive_ptr.h:171). *)
DeadStaysDead == [][strong = 0 => strong' = 0]_vars

=============================================================================
