------------------------------ MODULE FlatHash ------------------------------
(***************************************************************************)
(* flat_hash_map: one array probed linearly from the slot a key's hash     *)
(* names.  Every slot holds its element's distance from that slot, -1 when *)
(* empty; an insertion puts the new element before the first one that is   *)
(* nearer home (Robin Hood) and carries the displaced one on.  No element  *)
(* may be max_lookups slots from home: the table grows instead.  The last  *)
(* slot is a sentinel of distance 0 with no element.                       *)
(*                                                                         *)
(* The table is one record; an operation that may re-enter emplace while   *)
(* it rehashes is a recursive operator on such records.  A word has HashWord   *)
(* bits, so that the Fibonacci policy's product wraps.                     *)
(*                                                                         *)
(* A definition whose name ends in an underscore and a word is a plausible *)
(* mistake in the definition that follows it; none is part of the model.   *)
(***************************************************************************)
EXTENDS Integers, Sequences, FiniteSets, FiniteSetsExt, SequencesExt

CONSTANTS HashKey,      \* keys
          Value,        \* mapped values; 0 is V()
          Kind,         \* the table types to try: a hash function and a hash policy
          HashWord,         \* bits of a hash value
          Multiplier,   \* of the Fibonacci policy; odd
          Load,         \* max_load_factor values to try, as <<num, den>>
          Buckets,      \* arguments of rehash() and reserve()
          MaxLoop       \* bound: elements of a table that is looped over

ASSUME FlatHashAssumption ==
  /\ 0 \in Value /\ HashWord \in Nat /\ Multiplier % 2 = 1 /\ Buckets \subseteq Nat
  /\ \A d \in Kind : /\ d.policy \in {"prime", "power_of_two", "fibonacci"}
                    /\ d.hash \in [HashKey -> 0 .. 2^HashWord - 1]
  /\ \A l \in Load : l[1] > 0 /\ l[2] > 0

VARIABLES
  kind,      \* the hash function and the policy of the table's type
  table,     \* the object
  dict,      \* ghost: the map the client has built
  cursor,    \* of the client's erase-while-iterating loop; -1 outside it
  passed     \* ghost: the keys that loop has met

hashVars == <<kind, table, dict, cursor, passed>>

min_lookups == 4
Empty == [dist |-> -1]
special_end == [dist |-> 0]
Filled(d, e) == [dist |-> d, elem |-> e]

HasValue(s) == s.dist >= 0
IsAtDesired(s) == s.dist <= 0

log2(n) == CHOOSE b \in 0 .. HashWord : 2^b <= n /\ n < 2^(b + 1)
next_power_of_two(n) == IF n = 0 THEN 0 ELSE Min({2^b : b \in 0 .. HashWord} \ 0 .. n - 1)

---------------------------------------------------------------------------
(* Hash policies: the function commit() installs is "mod".                 *)

prime_list == <<2, 3, 5, 7, 11, 13, 17, 23, 29, 37, 47, 59, 73>>   \* bound: its first thirteen

\* A mod function is named by its divisor; mod0 maps every hash to slot 0.
mod_functions == <<0>> \o prime_list
mod(divisor, h) == IF divisor = 0 THEN 0 ELSE h % divisor

\* The function that reset() installs: mod0, or shift = 63.
policy_reset == IF kind.policy = "fibonacci" THEN HashWord - 1 ELSE 0

next_size_over(n) ==
  CASE kind.policy = "prime" ->
         LET found == Min({i \in DOMAIN prime_list : prime_list[i] >= n})
         IN  [size |-> prime_list[found], mod |-> mod_functions[1 + found]]
    [] kind.policy = "power_of_two" -> [size |-> next_power_of_two(n), mod |-> 0]
    [] kind.policy = "fibonacci" ->
         LET p == Max({2, next_power_of_two(n)}) IN [size |-> p, mod |-> HashWord - log2(p)]

\* The hash of a key, or of the key of a pair.
hash_object(k) == kind.hash[k]
compares_equal(k, e) == e.key = k

index_for_hash(t, k) ==
  LET h == hash_object(k) IN
  CASE kind.policy = "prime"        -> mod(t.mod, h)
    [] kind.policy = "power_of_two" -> h % (t.minus1 + 1)
    [] kind.policy = "fibonacci"    -> ((Multiplier * h) % 2^HashWord) \div 2^t.mod

---------------------------------------------------------------------------
(* The table                                                               *)

Slots(n) == [i \in 0 .. n - 1 |-> IF i = n - 1 THEN special_end ELSE Empty]

empty_default_table(load) ==
  [entries |-> Slots(min_lookups), minus1 |-> 0, lookups |-> min_lookups - 1,
   mod |-> policy_reset, size |-> 0, load |-> load]

bucket_count(t) == IF t.minus1 = 0 THEN 0 ELSE t.minus1 + 1
end(t) == t.minus1 + t.lookups
Ceil(a, b) == (a + b - 1) \div b

\* The elements in slot order, as an iterator meets them.
Held(t) == {i \in 0 .. end(t) - 1 : HasValue(t.entries[i])}
Elements(t) ==
  LET at(n) == CHOOSE i \in Held(t) : Cardinality(Held(t) \cap 0 .. i) = n
  IN  [n \in 1 .. Cardinality(Held(t)) |-> t.entries[at(n)].elem]
\* ++ on an iterator: the next slot that has a value, the sentinel at the latest.
NextValue(t, i) == Min({j \in i .. end(t) : HasValue(t.entries[j])})

compute_max_lookups(n) == Max({min_lookups, log2(n)})

\* The distance at which a probe for k stops: its element, or one nearer home.
Stop(t, k) ==
  LET i == index_for_hash(t, k) IN
  Min({d \in 0 .. Min({t.lookups, end(t) - i}) :
         \/ t.entries[i + d].dist < d
         \/ "elem" \in DOMAIN t.entries[i + d] /\ compares_equal(k, t.entries[i + d].elem)})

find(t, k) ==
  LET p == index_for_hash(t, k) + Stop(t, k)
  IN  IF t.entries[p].dist >= Stop(t, k) THEN p ELSE end(t)

count_of(t, k) == IF find(t, k) = end(t) THEN 0 ELSE 1

OverLoad(t) == (t.size + 1) * t.load[2] > (t.minus1 + 1) * t.load[1]

Put(t, p, d, e) == [t EXCEPT !.entries[p] = Filled(d, e), !.size = @ + 1]

num_buckets_for_reserve(t, n) ==
  IF t.load[1] * 2 < t.load[2] THEN Ceil(n * t.load[2], t.load[1]) ELSE 2 * n

RECURSIVE emplace(_, _), emplace_new_key(_, _, _, _), Displace(_, _, _, _, _), rehash(_, _)

emplace(t, e) ==
  LET d == Stop(t, e.key)
      p == index_for_hash(t, e.key) + d
  IN  IF t.entries[p].dist >= d THEN [table |-> t, at |-> p, inserted |-> FALSE]
      ELSE emplace_new_key(t, d, p, e)

grow(t) == rehash(t, Max({4, 2 * bucket_count(t)}))

emplace_new_key(t, d, p, e) ==
  IF t.minus1 = 0 \/ d = t.lookups \/ OverLoad(t) THEN emplace(grow(t), e)
  ELSE IF t.entries[p].dist < 0 THEN [table |-> Put(t, p, d, e), at |-> p, inserted |-> TRUE]
  ELSE Displace([t EXCEPT !.entries[p] = Filled(d, e)], p + 1,
                t.entries[p].dist + 1, t.entries[p].elem, p)

\* Carry e, now d from home, on from slot q; the new element is in slot p.  An
\* element that would be max_lookups from home takes the new one's slot until the
\* table has grown, and the new one is put in again.
Overflow_drop(t, e, p) == emplace(grow(t), t.entries[p].elem)
Overflow(t, e, p) == emplace(grow([t EXCEPT !.entries[p].elem = e]), t.entries[p].elem)

Displace(t, q, d, e, p) ==
  LET s == t.entries[q] IN
  IF s.dist < 0 THEN [table |-> Put(t, q, d, e), at |-> p, inserted |-> TRUE]
  ELSE IF s.dist < d THEN Displace([t EXCEPT !.entries[q] = Filled(d, e)], q + 1,
                                   s.dist + 1, s.elem, p)
  ELSE IF d + 1 = t.lookups THEN Overflow(t, e, p)
  ELSE Displace(t, q + 1, d + 1, e, p)

rehash(t, n) ==
  LET m == Max({n, Ceil(t.size * t.load[2], t.load[1])})
      b == next_size_over(m)
      l == compute_max_lookups(b.size)
      fresh == [t EXCEPT !.entries = Slots(b.size + l), !.minus1 = b.size - 1,
                         !.lookups = l, !.mod = b.mod, !.size = 0]
  IN  IF m = 0 THEN empty_default_table(t.load)
      ELSE IF b.size = bucket_count(t) THEN t
      ELSE FoldLeft(LAMBDA acc, e : emplace(acc, e).table, fresh, Elements(t))

reserve(t, n) ==
  IF num_buckets_for_reserve(t, n) > bucket_count(t)
  THEN rehash(t, num_buckets_for_reserve(t, n)) ELSE t

\* Slot p is emptied and the run after it moves one slot back.
erase(t, p) ==
  LET stop == Min({q \in p + 1 .. end(t) : IsAtDesired(t.entries[q])}) IN
  [t EXCEPT !.size = @ - 1,
            !.entries = [i \in DOMAIN t.entries |->
              IF i \in p .. stop - 2
              THEN Filled(t.entries[i + 1].dist - 1, t.entries[i + 1].elem)
              ELSE IF i = stop - 1 THEN Empty ELSE t.entries[i]]]

\* What erase() returns, made an iterator: the slot, or the next one with a value.
AfterErase_next(t, p) == NextValue(t, p + 1)
AfterErase(t, p) == NextValue(t, p)

\* erase(begin, end): the run that starts at "end" moves back, each element by at
\* most the gap, at most to its home, and never further than the one before it.
RECURSIVE MoveBack(_, _, _)
MoveBack(t, q, move) ==
  IF IsAtDesired(t.entries[q]) THEN t
  ELSE LET s == t.entries[q]
           u == [t EXCEPT !.entries[q] = Empty,
                          !.entries[q - move] = Filled(s.dist - move, s.elem)]
       IN  MoveBack(u, q + 1, Min({t.entries[q + 1].dist, move}))

erase_range(t, a, b) ==
  LET gone == Held(t) \cap a .. b - 1
      cut == [t EXCEPT !.size = @ - Cardinality(gone),
                       !.entries = [i \in DOMAIN t.entries |->
                                      IF i \in gone THEN Empty ELSE t.entries[i]]]
  IN  IF b = end(t) THEN cut ELSE MoveBack(cut, b, Min({t.entries[b].dist, b - a}))

clear(t) ==
  [t EXCEPT !.size = 0,
            !.entries = [i \in DOMAIN t.entries |-> IF i < end(t) THEN Empty ELSE t.entries[i]]]

rehash_for_other_container(t, other) ==
  rehash(t, Min({num_buckets_for_reserve(t, other.size), bucket_count(other)}))

insert_all(t, s) == FoldLeft(LAMBDA acc, e : emplace(acc, e).table, t, s)

\* The constructors that are given a number of buckets and elements; those that
\* are given a list alone reserve as many buckets as it has elements.
construct(n, s, list) ==
  LET t == rehash(empty_default_table(<<1, 2>>), n)
  IN  insert_all(IF list /\ n = 0 THEN rehash(t, Len(s)) ELSE t, s)

\* The copy constructor.
copy(t) == insert_all(rehash_for_other_container(empty_default_table(t.load), t), Elements(t))

\* Copy assignment of "other" to t.
copy_assign(t, other) ==
  insert_all(rehash_for_other_container([clear(t) EXCEPT !.load = other.load], other),
             Elements(other))

\* Move construction and move assignment swap the two tables' contents; what is
\* moved from is left with what the target held: nothing, its array given back.
swap_pointers(t, other) == [to |-> other, from |-> t]
reset_to_empty_state(t) == empty_default_table(t.load)
move_assign(t, other) == swap_pointers(reset_to_empty_state(clear(t)), other)

\* operator==
Equals(a, b) ==
  /\ a.size = b.size
  /\ \A e \in ToSet(Elements(a)) : count_of(b, e.key) = 1 /\ b.entries[find(b, e.key)].elem = e

---------------------------------------------------------------------------
(* What a client does                                                      *)

HashInit ==
  /\ kind \in Kind
  /\ table = empty_default_table(<<1, 2>>)
  /\ dict = <<>> /\ cursor = -1 /\ passed = {}

Frozen == UNCHANGED <<kind, cursor, passed>>
Idle == cursor = -1

\* emplace(), insert() and operator[], which inserts V().
Emplace(k, v) ==
  /\ Idle
  /\ table' = emplace(table, [key |-> k, value |-> v]).table
  /\ dict' = IF k \in DOMAIN dict THEN dict ELSE dict @@ (k :> v)
  /\ Frozen

insert_or_assign(k, v) ==
  LET r == emplace(table, [key |-> k, value |-> v]) IN
  /\ Idle
  /\ table' = [r.table EXCEPT !.entries[r.at].elem.value = v]
  /\ dict' = (k :> v) @@ dict
  /\ Frozen

Without(ks) == [k \in DOMAIN dict \ ks |-> dict[k]]

EraseKey(k) ==
  /\ Idle
  /\ table' = IF find(table, k) = end(table) THEN table ELSE erase(table, find(table, k))
  /\ dict' = Without({k})
  /\ Frozen

EraseRange(a, b) ==
  /\ Idle /\ a < b
  /\ table' = erase_range(table, a, b)
  /\ dict' = Without({table.entries[i].elem.key : i \in Held(table) \cap a .. b - 1})
  /\ Frozen

Clear == Idle /\ table' = clear(table) /\ dict' = <<>> /\ Frozen

\* rehash(), reserve(), shrink_to_fit(), a copy, and max_load_factor(): the map
\* is the same before and after.
Reshape ==
  /\ Idle
  /\ \/ \E n \in Buckets : table' = rehash(table, n)
     \/ \E n \in Buckets : table' = reserve(table, n)
     \/ table' = rehash_for_other_container(table, table)
     \/ table' = copy(table)
     \/ \E n \in Buckets : table' = copy_assign(rehash(table, n), table)
     \/ \E l \in Load :              \* bound: set before the first insertion
          table.size = 0 /\ table' = [table EXCEPT !.load = l]
  /\ UNCHANGED dict /\ Frozen

\* The client goes on with a table it has moved from.
MovedFrom ==
  /\ Idle
  /\ \/ table' = swap_pointers(empty_default_table(<<1, 2>>), table).from
     \/ table' = move_assign(table, table).from      \* to a table like it
  /\ dict' = <<>> /\ Frozen

\* The table is destroyed and another is built, from a range or from a list, in
\* which a key may come twice: the first one stays.
Construct(n, s, list) ==
  /\ Idle
  /\ table' = construct(n, s, list)
  /\ dict' = [k \in {s[i].key : i \in DOMAIN s} |->
                s[Min({i \in DOMAIN s : s[i].key = k})].value]
  /\ Frozen

\* for (it = begin(); it != end();) it = keep ? std::next(it) : erase(it);
LoopBegin ==
  /\ Idle /\ table.size \in 1 .. MaxLoop
  /\ cursor' = NextValue(table, 0)
  /\ UNCHANGED <<kind, table, dict, passed>>

LoopStep(keep) ==
  LET k == table.entries[cursor].elem.key IN
  /\ ~Idle /\ cursor # end(table)
  /\ passed' = passed \cup {k}
  /\ IF keep
     THEN cursor' = NextValue(table, cursor + 1) /\ UNCHANGED <<table, dict>>
     ELSE /\ table' = erase(table, cursor)
          /\ cursor' = AfterErase(table', cursor)
          /\ dict' = Without({k})
  /\ UNCHANGED kind

LoopEnd ==
  /\ cursor = end(table)
  /\ cursor' = -1 /\ passed' = {}
  /\ UNCHANGED <<kind, table, dict>>

Positions == Held(table) \cup {end(table)}
ValuesOf(k) == IF k = Min(HashKey) THEN Value ELSE {0}    \* bound: values of one key differ

Listed ==                        \* bound: one pair of keys, and a key given twice
  {<<[key |-> a, value |-> v], [key |-> b, value |-> 0]>> :
     a \in {Min(HashKey)}, b \in {Min(HashKey), Max(HashKey)}, v \in Value}

HashNext ==
  \/ \E k \in HashKey : \/ \E v \in ValuesOf(k) : Emplace(k, v) \/ insert_or_assign(k, v)
                    \/ EraseKey(k)
  \/ \E a, b \in Positions : EraseRange(a, b)
  \/ Clear \/ Reshape \/ MovedFrom
  \/ \E n \in Buckets, s \in Listed, list \in BOOLEAN : Construct(n, s, list)
  \/ LoopBegin \/ (\E keep \in BOOLEAN : LoopStep(keep)) \/ LoopEnd

---------------------------------------------------------------------------
(* Correctness                                                             *)

(* The table is the map its client built: find() meets every key of it    *)
(* with its value and no other key, iteration meets each once, size()     *)
(* counts them, and a copy compares equal.                                 *)
AgreesWithMap ==
  /\ \A k \in HashKey : IF k \in DOMAIN dict
                    THEN /\ find(table, k) # end(table)
                         /\ table.entries[find(table, k)].elem = [key |-> k, value |-> dict[k]]
                    ELSE find(table, k) = end(table)
  /\ table.size = Cardinality(DOMAIN dict) /\ Len(Elements(table)) = table.size
  /\ Equals(copy(table), table)

(* A loop that erases as it goes meets every element once: what erase()    *)
(* moves into the erased slot is met next, nothing is met again.           *)
LoopMeetsEachOnce ==
  ~Idle => LET ahead == {table.entries[i].elem.key : i \in Held(table) \cap cursor .. end(table)}
           IN  /\ ahead \cap passed = {}
               /\ DOMAIN dict \subseteq ahead \cup passed
               /\ cursor \in Positions

=============================================================================
