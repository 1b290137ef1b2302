-------------------------- MODULE SrpServices_proofs --------------------------
(***************************************************************************)
(* Proofs about SrpServices, for any pool and any names.                   *)
(***************************************************************************)
EXTENDS SrpServices, SequenceTheorems, FiniteSetTheorems, TLAPS

\* init_srp() overwrites the host name's buffer before it asks the client to take
\* it, so a refused name is at least the one the next run compares with.
HostInv ==
    /\ failures \in {0, 1}
    /\ failures = 1 => host_name = ble_name

\* A run of init_srp() that fails leaves the name that lets the next one through.
LEMMA InitSrpKeeps ==
    ASSUME HostInv, init_srp
    PROVE  HostInv'
<1> USE DEF HostInv, init_srp, identity
<1>1. CASE host_name # ble_name /\ host_known
  BY <1>1
<1>2. CASE ~(host_name # ble_name /\ host_known)
  BY <1>2
<1> QED BY <1>1, <1>2

LEMMA HostStep == HostInv /\ [Next]_vars => HostInv'
<1> SUFFICES ASSUME HostInv, [Next]_vars PROVE HostInv'
  OBVIOUS
<1>1. CASE BootSrp
  BY <1>1, InitSrpKeeps DEF BootSrp
<1>2. CASE BootCoap
  BY <1>2 DEF BootCoap, HostInv, host, identity
<1>3. CASE BootDcc
  BY <1>3 DEF BootDcc, register_dcc_service, HostInv, host, identity
<1>4. CASE on_thread_address_changed
  BY <1>4, InitSrpKeeps DEF on_thread_address_changed
<1>5. CASE HandleJoinerCallback
  BY <1>5, InitSrpKeeps DEF HandleJoinerCallback
<1>6. CASE HostRegistered
  BY <1>6 DEF HostRegistered, HostInv, identity
<1>12. CASE RemovalConfirmed
  BY <1>12 DEF RemovalConfirmed, HostInv, host, identity
<1>7. ASSUME NEW new \in ShortNames, modify_short_name(new) PROVE HostInv'
  BY <1>7 DEF modify_short_name, HostInv
<1>8. ASSUME NEW new \in LongNames, modify_full_name(new) PROVE HostInv'
  BY <1>8 DEF modify_full_name, HostInv, host
<1>9. ASSUME NEW new \in Addresses, apply_dcc_address(new) PROVE HostInv'
  BY <1>9 DEF apply_dcc_address, HostInv, host
<1>10. CASE DccSaved
  BY <1>10 DEF DccSaved, register_dcc_service, HostInv, host, identity
<1>11. CASE UNCHANGED vars
  BY <1>11 DEF vars, HostInv, host, identity
<1> QED BY <1>1, <1>2, <1>3, <1>4, <1>5, <1>6, <1>7, <1>8, <1>9, <1>10, <1>11, <1>12 DEF Next

\* No frozen host name stops the SRP client for longer than one run of init_srp()
\* (NoSecondFailure), whatever renamings, joins and address changes interleave.
THEOREM ClientRestarts == Spec => []NoSecondFailure
<1>1. Init => HostInv
  BY DEF Init, HostInv
<1>2. HostInv => NoSecondFailure
  BY DEF HostInv, NoSecondFailure
<1> QED BY <1>1, HostStep, <1>2, PTL DEF Spec

-----------------------------------------------------------------------------
(* The pool's slots.  A pool is owned when its free list names no slot      *)
(* twice and every registration's slot is its own; each operation of        *)
(* register_service() and re_register_service() keeps it so.                *)

InSeq(s, x) == \E i \in DOMAIN s : s[i] = x
Once(s) == \A i, j \in DOMAIN s : s[i] = s[j] => i = j

PoolType == [handle : [Kinds -> Slots \cup {NoSlot}], free : Seq(Slots),
             text : [Slots -> Texts], services : SUBSET Slots, removing : SUBSET Slots]

Owned(p) ==
    /\ p \in PoolType /\ p.removing \subseteq p.services
    /\ Once(p.free)
    /\ \A k \in Kinds : p.handle[k] # NoSlot =>
          /\ ~InSeq(p.free, p.handle[k])
          /\ \A l \in Kinds : p.handle[l] = p.handle[k] => l = k

\* Putting a slot that is not there in front.
LEMMA PushOnce ==
    ASSUME NEW s \in Seq(Slots), NEW x \in Slots, Once(s), ~InSeq(s, x)
    PROVE  /\ <<x>> \o s \in Seq(Slots) /\ Once(<<x>> \o s)
           /\ \A y : InSeq(<<x>> \o s, y) <=> y = x \/ InSeq(s, y)
<1> DEFINE r == <<x>> \o s
<1>1. /\ r \in Seq(Slots) /\ Len(r) = Len(s) + 1 /\ Len(s) \in Nat
      /\ \A i \in 1 .. Len(s) + 1 : r[i] = IF i <= 1 THEN x ELSE s[i - 1]
  BY ConcatProperties
<1> HIDE DEF r
<1>2. DOMAIN r = 1 .. Len(s) + 1 /\ DOMAIN s = 1 .. Len(s)
  BY <1>1
<1>3. r[1] = x /\ \A i \in DOMAIN s : i + 1 \in DOMAIN r /\ r[i + 1] = s[i]
  BY <1>1, <1>2
<1>4. \A i \in DOMAIN r : i = 1 \/ (i - 1 \in DOMAIN s /\ r[i] = s[i - 1])
  BY <1>1, <1>2
<1>5. Once(r)
  BY <1>1, <1>2, <1>3, <1>4 DEF Once, InSeq
<1>6. \A y : InSeq(r, y) <=> y = x \/ InSeq(s, y)
  BY <1>1, <1>2, <1>3, <1>4 DEF InSeq
<1> QED BY <1>1, <1>5, <1>6 DEF r

\* Taking the front slot.
LEMMA PopOnce ==
    ASSUME NEW s \in Seq(Slots), s # <<>>, Once(s)
    PROVE  /\ Tail(s) \in Seq(Slots) /\ Once(Tail(s)) /\ Head(s) \in Slots
           /\ ~InSeq(Tail(s), Head(s))
           /\ InSeq(s, Head(s))
           /\ \A y : InSeq(Tail(s), y) => InSeq(s, y)
<1> DEFINE r == Tail(s)
<1>1. /\ r \in Seq(Slots) /\ Len(r) = Len(s) - 1 /\ Len(s) \in Nat /\ Len(s) > 0
      /\ \A i \in 1 .. Len(s) - 1 : r[i] = s[i + 1]
      /\ Head(s) = s[1] /\ Head(s) \in Slots
  OBVIOUS
<1> HIDE DEF r
<1>2. DOMAIN r = 1 .. Len(s) - 1 /\ DOMAIN s = 1 .. Len(s)
  BY <1>1
<1>3. \A i \in DOMAIN r : i + 1 \in DOMAIN s /\ i + 1 # 1 /\ r[i] = s[i + 1]
  BY <1>1, <1>2
<1>4. Once(r)
  BY <1>1, <1>2, <1>3 DEF Once
<1>5. 1 \in DOMAIN s
  BY <1>1, <1>2
<1>6. ~InSeq(r, Head(s)) /\ InSeq(s, Head(s)) /\ \A y : InSeq(r, y) => InSeq(s, y)
  BY <1>1, <1>3, <1>5 DEF Once, InSeq
<1> QED BY <1>1, <1>4, <1>6 DEF r

\* What an owned pool is made of, and how one is put together.
LEMMA PoolParts ==
    ASSUME NEW h \in [Kinds -> Slots \cup {NoSlot}], NEW f \in Seq(Slots),
           NEW t \in [Slots -> Texts], NEW s \in SUBSET Slots, NEW r \in SUBSET Slots
    PROVE  LET q == PoolOf(h, f, t, s, r)
           IN  /\ q.handle = h /\ q.free = f /\ q.text = t
               /\ q.services = s /\ q.removing = r
               /\ q \in PoolType
  BY DEF PoolOf, PoolType

LEMMA OwnedParts ==
    ASSUME NEW p, Owned(p)
    PROVE  /\ p.handle \in [Kinds -> Slots \cup {NoSlot}] /\ p.free \in Seq(Slots)
           /\ p.text \in [Slots -> Texts] /\ p.services \in SUBSET Slots
           /\ p.removing \in SUBSET Slots /\ p.removing \subseteq p.services
           /\ Once(p.free)
  BY DEF Owned, PoolType

LEMMA FreedOwned ==
    ASSUME NEW p, Owned(p), NEW k \in Kinds, p.handle[k] # NoSlot
    PROVE  Owned(Freed(p, k)) /\ Freed(p, k).handle[k] = NoSlot
<1> DEFINE h == [p.handle EXCEPT ![k] = NoSlot]
           f == <<p.handle[k]>> \o p.free
           q == Freed(p, k)
<1>1. /\ p.handle \in [Kinds -> Slots \cup {NoSlot}] /\ p.free \in Seq(Slots)
      /\ p.handle[k] \in Slots
  BY OwnedParts
<1>2. f \in Seq(Slots) /\ Once(f) /\ \A y : InSeq(f, y) <=> y = p.handle[k] \/ InSeq(p.free, y)
  BY <1>1, PushOnce DEF Owned
<1>3. /\ h \in [Kinds -> Slots \cup {NoSlot}]
      /\ \A l \in Kinds : h[l] = IF l = k THEN NoSlot ELSE p.handle[l]
  BY <1>1
<1>4. q = PoolOf(h, f, p.text, p.services, p.removing)
  BY DEF Freed
<1> HIDE DEF h, f, q
<1>5. /\ q.handle = h /\ q.free = f /\ q \in PoolType
      /\ q.services = p.services /\ q.removing = p.removing
  BY <1>2, <1>3, <1>4, OwnedParts, PoolParts
<1>6. Owned(q)
  BY <1>2, <1>3, <1>5 DEF Owned
<1> QED BY <1>3, <1>5, <1>6 DEF q

LEMMA RemovedOwned ==
    ASSUME NEW p, Owned(p), NEW k \in Kinds
    PROVE  Owned(Removed(p, k)) /\ Removed(p, k).handle = p.handle
<1> DEFINE r == p.removing \cup ({p.handle[k]} \cap p.services)
           q == Removed(p, k)
<1>1. r \in SUBSET Slots /\ r \subseteq p.services
  BY OwnedParts
<1>2. q = PoolOf(p.handle, p.free, p.text, p.services, r)
  BY DEF Removed
<1> HIDE DEF r, q
<1>3. /\ q.handle = p.handle /\ q.free = p.free /\ q \in PoolType
      /\ q.services = p.services /\ q.removing = r
  BY <1>1, <1>2, OwnedParts, PoolParts
<1>4. Owned(q)
  BY <1>1, <1>3 DEF Owned
<1> QED BY <1>3, <1>4 DEF q

\* What makes a pool owned, part by part.
LEMMA OwnedWith ==
    ASSUME NEW h \in [Kinds -> Slots \cup {NoSlot}], NEW f \in Seq(Slots),
           NEW t \in [Slots -> Texts], NEW s \in SUBSET Slots, NEW r \in SUBSET s,
           Once(f),
           \A k \in Kinds : h[k] # NoSlot =>
              ~InSeq(f, h[k]) /\ \A l \in Kinds : h[l] = h[k] => l = k
    PROVE  Owned(PoolOf(h, f, t, s, r))
<1> DEFINE q == PoolOf(h, f, t, s, r)
<1>1. q.handle = h /\ q.free = f /\ q.services = s /\ q.removing = r /\ q \in PoolType
  BY PoolParts
<1> HIDE DEF q
<1>2. Owned(q)
  BY <1>1 DEF Owned
<1> QED BY <1>2 DEF q

\* A slot taken from the free list is one registration's, or nobody's.
LEMMA TakenOwned ==
    ASSUME NEW p, Owned(p), NEW k \in Kinds, p.free # <<>>,
           NEW t \in [Slots -> Texts], NEW s \in SUBSET Slots, NEW r \in SUBSET s
    PROVE  /\ Owned(PoolOf(p.handle, Tail(p.free), t, s, r))
           /\ Owned(PoolOf([p.handle EXCEPT ![k] = Head(p.free)], Tail(p.free), t, s, r))
<1> DEFINE slot == Head(p.free)
           rest == Tail(p.free)
           h == [p.handle EXCEPT ![k] = slot]
<1>1. /\ p.handle \in [Kinds -> Slots \cup {NoSlot}] /\ p.free \in Seq(Slots) /\ Once(p.free)
      /\ \A l \in Kinds : p.handle[l] # NoSlot =>
            /\ ~InSeq(p.free, p.handle[l])
            /\ \A m \in Kinds : p.handle[m] = p.handle[l] => m = l
  BY OwnedParts DEF Owned
<1>2. /\ rest \in Seq(Slots) /\ Once(rest) /\ slot \in Slots
      /\ ~InSeq(rest, slot) /\ InSeq(p.free, slot)
      /\ \A y : InSeq(rest, y) => InSeq(p.free, y)
  BY <1>1, PopOnce
<1>3. /\ h \in [Kinds -> Slots \cup {NoSlot}]
      /\ \A l \in Kinds : h[l] = IF l = k THEN slot ELSE p.handle[l]
  BY <1>1, <1>2
<1> HIDE DEF slot, rest, h
<1>4. \A l \in Kinds : p.handle[l] # NoSlot => ~InSeq(rest, p.handle[l])
  BY <1>1, <1>2
<1>5. \A l \in Kinds : p.handle[l] # NoSlot => p.handle[l] # slot
  BY <1>1, <1>2
<1>6. Owned(PoolOf(p.handle, rest, t, s, r))
  BY <1>1, <1>2, <1>4, OwnedWith
<1>7. \A l \in Kinds : h[l] # NoSlot =>
         ~InSeq(rest, h[l]) /\ \A m \in Kinds : h[m] = h[l] => m = l
  <2> SUFFICES ASSUME NEW l \in Kinds, h[l] # NoSlot
               PROVE  ~InSeq(rest, h[l]) /\ \A m \in Kinds : h[m] = h[l] => m = l
    OBVIOUS
  <2>1. CASE l = k
    BY <2>1, <1>1, <1>2, <1>3, <1>5, RegistrationAssumption
  <2>2. CASE l # k
    BY <2>2, <1>1, <1>3, <1>4, <1>5
  <2> QED BY <2>1, <2>2
<1>8. Owned(PoolOf(h, rest, t, s, r))
  BY <1>2, <1>3, <1>7, OwnedWith
<1> QED BY <1>6, <1>8 DEF slot, rest, h

\* register_service() writes the buffers of the slot it takes, and no others.
LEMMA FilledTyped ==
    ASSUME NEW p, Owned(p), p.free # <<>>, NEW k \in Kinds, NEW instance \in Instances
    PROVE  /\ [p.text EXCEPT ![Head(p.free)] = [kind |-> k, instance |-> instance]]
                 \in [Slots -> Texts]
           /\ p.services \cup {Head(p.free)} \in SUBSET Slots
           /\ p.services \in SUBSET Slots /\ p.removing \in SUBSET p.services
           /\ p.removing \in SUBSET (p.services \cup {Head(p.free)})
  BY OwnedParts, PopOnce DEF Texts

\* A new registration has a slot of its own, or none.
LEMMA RegisteredOwned ==
    ASSUME NEW p, Owned(p), NEW k \in Kinds, NEW instance \in Instances
    PROVE  Owned(Registered(p, k, instance))
<1>1. CASE p.free = <<>>
  BY <1>1 DEF Registered
<1>2. CASE p.free # <<>>
  <2> DEFINE t == [p.text EXCEPT ![Head(p.free)] = [kind |-> k, instance |-> instance]]
             h == [p.handle EXCEPT ![k] = Head(p.free)]
  <2>1. /\ t \in [Slots -> Texts] /\ p.services \in SUBSET Slots
        /\ p.services \cup {Head(p.free)} \in SUBSET Slots
        /\ p.removing \in SUBSET p.services
        /\ p.removing \in SUBSET (p.services \cup {Head(p.free)})
    BY <1>2, FilledTyped
  <2>2. \/ Registered(p, k, instance) = PoolOf(p.handle, Tail(p.free), t, p.services, p.removing)
        \/ Registered(p, k, instance) =
              PoolOf(h, Tail(p.free), t, p.services \cup {Head(p.free)}, p.removing)
    BY <1>2 DEF Registered
  <2> HIDE DEF t
  <2>3. /\ Owned(PoolOf(p.handle, Tail(p.free), t, p.services, p.removing))
        /\ Owned(PoolOf(h, Tail(p.free), t, p.services \cup {Head(p.free)}, p.removing))
    BY <1>2, <2>1, TakenOwned
  <2> QED BY <2>2, <2>3
<1> QED BY <1>1, <1>2

\* A renewed registration keeps the slot it took, even one the client refused.
LEMMA ReRegisteredOwned ==
    ASSUME NEW p, Owned(p), NEW k \in Kinds, NEW instance \in Instances
    PROVE  Owned(ReRegistered(p, k, instance))
<1> DEFINE e == IF p.handle[k] = NoSlot THEN p ELSE Freed(Removed(p, k), k)
           added == Registered(e, k, instance)
<1>1. Owned(e)
  BY RemovedOwned, FreedOwned
<1>2. CASE p.handle[k] # NoSlot /\ p.handle[k] \notin p.services
  BY <1>2 DEF ReRegistered
<1>3. CASE ~(p.handle[k] # NoSlot /\ p.handle[k] \notin p.services) /\ e.free = <<>>
  BY <1>1, <1>3 DEF ReRegistered
<1>4. CASE ~(p.handle[k] # NoSlot /\ p.handle[k] \notin p.services) /\ e.free # <<>>
  <2> DEFINE slot == Head(e.free)
             t == [e.text EXCEPT ![slot] = [kind |-> k, instance |-> instance]]
             h == [e.handle EXCEPT ![k] = slot]
             s == e.services \cup {slot}
  <2>1. ReRegistered(p, k, instance) =
           PoolOf([added.handle EXCEPT ![k] = slot], added.free, added.text,
                  added.services, added.removing)
    BY <1>4 DEF ReRegistered
  <2>2. /\ \/ added.handle = e.handle /\ added.services = e.services
           \/ added.handle = h /\ added.services = s
        /\ added.free = Tail(e.free) /\ added.text = t /\ added.removing = e.removing
    <3> HIDE DEF e
    <3> QED BY <1>4 DEF Registered, PoolOf
  <2> HIDE DEF e, added
  <2>3. /\ t \in [Slots -> Texts] /\ e.services \in SUBSET Slots /\ s \in SUBSET Slots
        /\ e.removing \in SUBSET e.services /\ e.removing \in SUBSET s
    BY <1>1, <1>4, FilledTyped
  <2>4. e.handle \in [Kinds -> Slots \cup {NoSlot}] /\ slot \in Slots
        /\ Tail(e.free) \in Seq(Slots)
    BY <1>1, <1>4, OwnedParts, PopOnce
  <2>5. h \in [Kinds -> Slots \cup {NoSlot}] /\ [h EXCEPT ![k] = slot] = h
    BY <2>4
  <2>6. /\ added.handle = e.handle \/ added.handle = h
        /\ added.free = Tail(e.free) /\ added.text = t /\ added.services \in SUBSET Slots
        /\ added.removing \in SUBSET added.services
    <3> HIDE DEF slot, t, h, s
    <3> QED BY <2>2, <2>3
  <2>7. [added.handle EXCEPT ![k] = slot] = h
    <3>1. h = [e.handle EXCEPT ![k] = slot]
      OBVIOUS
    <3> HIDE DEF h, slot
    <3> QED BY <2>5, <2>6, <3>1
  <2>8. ReRegistered(p, k, instance) =
           PoolOf(h, Tail(e.free), t, added.services, added.removing)
    <3> HIDE DEF h, slot, t
    <3> QED BY <2>1, <2>6, <2>7
  <2>9. Owned(PoolOf(h, Tail(e.free), t, added.services, added.removing))
    <3> HIDE DEF t
    <3> QED BY <1>1, <1>4, <2>3, <2>6, TakenOwned
  <2> QED BY <2>8, <2>9
<1> QED BY <1>2, <1>3, <1>4

LEMMA ShortRegisteredOwned ==
    ASSUME NEW p, Owned(p), ble_name \in ShortNames
    PROVE  Owned(ShortRegistered(p))
<1>1. "short" \in Kinds /\ ble_name \in Instances
  BY DEF Kinds, Instances
<1>2. Owned(Registered(p, "short", ble_name))
  BY <1>1, RegisteredOwned
<1>3. ASSUME p.handle["short"] # NoSlot
      PROVE  Owned(Registered(Freed(Removed(p, "short"), "short"), "short", ble_name))
  BY <1>1, <1>3, RemovedOwned, FreedOwned, RegisteredOwned
<1> QED BY <1>2, <1>3 DEF ShortRegistered

-----------------------------------------------------------------------------
SlotInv ==
    /\ Owned(Pool)
    /\ ble_name \in ShortNames /\ full_name \in LongNames /\ dcc_address \in Addresses

LEMMA PoolKept ==
    ASSUME NEW p, Owned(p), PoolBecomes(p)
    PROVE  Owned(Pool)'
<1>1. p = PoolOf(p.handle, p.free, p.text, p.services, p.removing)
  BY DEF Owned, PoolType, PoolOf
<1>2. Pool' = PoolOf(p.handle, p.free, p.text, p.services, p.removing)
  BY DEF PoolBecomes, Pool, PoolOf
<1>3. Pool' = p
  BY <1>1, <1>2
<1> QED BY <1>3

LEMMA PoolFields ==
    /\ Pool.handle = handle /\ Pool.free = free /\ Pool.text = text
    /\ Pool.services = services /\ Pool.removing = removing
    /\ Pool = PoolOf(handle, free, text, services, removing)
  BY DEF Pool, PoolOf

\* A confirmed removal is one slot fewer that the client refers to.
LEMMA ConfirmedOwned ==
    ASSUME Owned(Pool), NEW s, services' = services \ {s}, removing' = removing \ {s},
           UNCHANGED <<handle, free, text>>
    PROVE  Owned(Pool)'
<1>1. /\ handle \in [Kinds -> Slots \cup {NoSlot}] /\ free \in Seq(Slots)
      /\ text \in [Slots -> Texts] /\ services \in SUBSET Slots
      /\ removing \subseteq services /\ Once(free)
  BY OwnedParts, PoolFields
<1>2. \A k \in Kinds : handle[k] # NoSlot =>
         ~InSeq(free, handle[k]) /\ \A l \in Kinds : handle[l] = handle[k] => l = k
  BY PoolFields DEF Owned
<1>3. Pool' = PoolOf(handle, free, text, services \ {s}, removing \ {s})
  BY DEF Pool
<1>4. services \ {s} \in SUBSET Slots /\ removing \ {s} \in SUBSET (services \ {s})
  BY <1>1
<1>5. Owned(PoolOf(handle, free, text, services \ {s}, removing \ {s}))
  BY <1>1, <1>2, <1>4, OwnedWith
<1> QED BY <1>3, <1>5

LEMMA SlotStart == Init => SlotInv
<1> SUFFICES ASSUME Init PROVE SlotInv
  OBVIOUS
<1>1. handle = [k \in Kinds |-> NoSlot] /\ services \in SUBSET Slots /\ removing \in SUBSET services
  BY DEF Init
<1>2. text \in [Slots -> Texts]
  BY DEF Init, Texts, Instances, Kinds
<1>3. Cardinality(Slots) \in Nat
  BY FS_CardinalityType, RegistrationAssumption
<1>4. free \in Seq(Slots)
  BY <1>3 DEF Init
<1>5. Once(free)
  BY DEF Init, Once
<1>6. Owned(Pool)
  BY <1>1, <1>2, <1>4, <1>5, OwnedWith DEF Pool
<1> QED BY <1>6 DEF Init, SlotInv

LEMMA InitSrpSlots ==
    ASSUME SlotInv, init_srp
    PROVE  SlotInv'
<1>1. ble_name' = ble_name /\ full_name' = full_name /\ dcc_address' = dcc_address
  BY DEF init_srp, identity
<1>2. CASE UNCHANGED pool
  BY <1>1, <1>2 DEF SlotInv, pool, Pool
<1>3. CASE PoolBecomes(ShortRegistered(Pool))
  BY <1>1, <1>3, ShortRegisteredOwned, PoolKept DEF SlotInv
<1> QED BY <1>2, <1>3 DEF init_srp

LEMMA DccSlots ==
    ASSUME SlotInv, register_dcc_service
    PROVE  SlotInv'
<1> DEFINE e == IF handle["dcc"] # NoSlot THEN Freed(Pool, "dcc") ELSE Pool
           added == IF dcc_address = NoAddress THEN e ELSE Registered(e, "dcc", dcc_address)
<1>1. ble_name' = ble_name /\ full_name' = full_name /\ dcc_address' = dcc_address
  BY DEF register_dcc_service, identity
<1>2. Pool.handle = handle
  BY DEF Pool, PoolOf
<1>3. "dcc" \in Kinds /\ (dcc_address \in Addresses => dcc_address \in Instances)
  BY DEF Kinds, Instances
<1>4. Owned(e)
  BY <1>2, <1>3, FreedOwned DEF SlotInv
<1>5. Owned(added)
  <2> HIDE DEF e
  <2> QED BY <1>3, <1>4, RegisteredOwned DEF SlotInv
<1>6. PoolBecomes(added)
  BY DEF register_dcc_service
<1> HIDE DEF added
<1> QED BY <1>1, <1>5, <1>6, PoolKept DEF SlotInv

LEMMA SlotStep == SlotInv /\ [Next]_vars => SlotInv'
<1> SUFFICES ASSUME SlotInv, [Next]_vars PROVE SlotInv'
  OBVIOUS
<1>1. CASE BootSrp
  BY <1>1, InitSrpSlots DEF BootSrp
<1>2. CASE BootCoap
  <2> DEFINE e == IF handle["long"] # NoSlot THEN Freed(Pool, "long") ELSE Pool
  <2>1. Pool.handle = handle /\ "long" \in Kinds
    BY DEF Pool, PoolOf, Kinds
  <2>2. Owned(e)
    BY <2>1, FreedOwned DEF SlotInv
  <2>3. full_name \in Instances
    BY DEF SlotInv, Instances
  <2>4. PoolBecomes(Registered(e, "long", full_name)) \/ UNCHANGED pool
    BY <1>2 DEF BootCoap
  <2> HIDE DEF e
  <2>5. Owned(Registered(e, "long", full_name))
    BY <2>1, <2>2, <2>3, RegisteredOwned
  <2>6. Owned(Pool)'
    BY <2>4, <2>5, PoolKept DEF SlotInv, pool, Pool
  <2> QED BY <1>2, <2>6 DEF BootCoap, SlotInv, identity
<1>3. CASE BootDcc
  BY <1>3, DccSlots DEF BootDcc
<1>4. CASE on_thread_address_changed
  BY <1>4, InitSrpSlots DEF on_thread_address_changed
<1>5. CASE HandleJoinerCallback
  BY <1>5, InitSrpSlots DEF HandleJoinerCallback
<1>6. CASE HostRegistered
  BY <1>6 DEF HostRegistered, SlotInv, identity, pool, Pool
<1>12. CASE RemovalConfirmed
  <2>1. PICK s \in removing : services' = services \ {s} /\ removing' = removing \ {s}
    BY <1>12 DEF RemovalConfirmed
  <2>2. UNCHANGED <<identity, handle, free, text>>
    BY <1>12 DEF RemovalConfirmed
  <2>3. Owned(Pool)'
    BY <2>1, <2>2, ConfirmedOwned DEF SlotInv
  <2> QED BY <2>2, <2>3 DEF SlotInv, identity
<1>7. ASSUME NEW new \in ShortNames, modify_short_name(new) PROVE SlotInv'
  <2>1. new \in Instances /\ "short" \in Kinds
    BY DEF Instances, Kinds
  <2>2. Owned(ReRegistered(Pool, "short", new))
    BY <2>1, ReRegisteredOwned DEF SlotInv
  <2>3. CASE Unchanged(new, ble_name)
    BY <1>7, <2>3 DEF modify_short_name, SlotInv, pool, Pool
  <2>4. CASE ~Unchanged(new, ble_name)
    BY <1>7, <2>2, <2>4, PoolKept DEF modify_short_name, SlotInv
  <2> QED BY <2>3, <2>4
<1>8. ASSUME NEW new \in LongNames, modify_full_name(new) PROVE SlotInv'
  <2>1. new \in Instances /\ "long" \in Kinds
    BY DEF Instances, Kinds
  <2>2. Owned(ReRegistered(Pool, "long", new))
    BY <2>1, ReRegisteredOwned DEF SlotInv
  <2> QED BY <1>8, <2>2, PoolKept DEF modify_full_name, SlotInv
<1>9. ASSUME NEW new \in Addresses, apply_dcc_address(new) PROVE SlotInv'
  BY <1>9 DEF apply_dcc_address, SlotInv, pool, Pool
<1>10. CASE DccSaved
  BY <1>10, DccSlots DEF DccSaved
<1>11. CASE UNCHANGED vars
  BY <1>11 DEF vars, SlotInv, identity, pool, Pool
<1> QED BY <1>1, <1>2, <1>3, <1>4, <1>5, <1>6, <1>7, <1>8, <1>9, <1>10, <1>11, <1>12 DEF Next

\* No two registrations share a slot of the pool, and none that is live is on the
\* free list (NoSlotShared): renamings, address changes, the boot and the joiner never
\* give back a slot that is another's, for a pool of any size.
THEOREM SlotsAreOwn == Spec => []NoSlotShared
<1>1. SlotInv => NoSlotShared
  <2>1. Pool.handle = handle /\ Pool.free = free
    BY DEF Pool, PoolOf
  <2> QED BY <2>1 DEF SlotInv, Owned, InSeq, NoSlotShared
<1> QED BY SlotStart, SlotStep, <1>1, PTL DEF Spec

-----------------------------------------------------------------------------
(* The registrations and the client's list.  A pool is neat when the client *)
(* refers to registered slots only, each slot's buffers are of the kind of  *)
(* its registration, and no slot is lost.                                   *)

Neat(p) ==
    /\ Owned(p)
    /\ \A s \in Slots : InSeq(p.free, s) \/ \E k \in Kinds : p.handle[k] = s
    /\ \A s \in p.services : \E k \in Kinds : p.handle[k] = s
    /\ \A k \in Kinds : p.handle[k] # NoSlot => p.text[p.handle[k]].kind = k

\* q has what p has of the kinds other than k.
OthersKept(p, q, k) ==
    \A l \in Kinds \ {k} :
        /\ q.handle[l] = p.handle[l]
        /\ p.handle[l] # NoSlot =>
              /\ q.text[p.handle[l]] = p.text[p.handle[l]]
              /\ p.handle[l] \in q.services <=> p.handle[l] \in p.services
              /\ p.handle[l] \in q.removing <=> p.handle[l] \in p.removing

\* The buffers of k's slot say the instance.
Says(q, k, instance) == q.text[q.handle[k]] = [kind |-> k, instance |-> instance]

\* The client has the registration, not marked for removal.
Live(q, k) == q.handle[k] \in q.services \ q.removing

\* Two slots may be taken by the other kinds; a third is free.
LEMMA SlotLeft ==
    ASSUME Cardinality(Slots) >= 3, NEW p, Neat(p), NEW k \in Kinds, p.handle[k] = NoSlot
    PROVE  p.free # <<>>
<1> SUFFICES ASSUME p.free = <<>> PROVE FALSE
  OBVIOUS
<1>1. PICK a \in Kinds, b \in Kinds : Kinds = {k, a, b}
  BY DEF Kinds
<1>2. \A s : ~InSeq(p.free, s)
  BY DEF InSeq
<1>3. Slots \subseteq {p.handle[a], p.handle[b]}
  BY <1>1, <1>2, RegistrationAssumption DEF Neat
<1> DEFINE x == p.handle[a]
           y == p.handle[b]
<1> HIDE DEF x, y
<1>4. IsFiniteSet({x}) /\ Cardinality({x}) = 1
  BY FS_Singleton
<1>5. IsFiniteSet({x} \cup {y}) /\ Cardinality({x} \cup {y}) \in {1, 2}
  BY <1>4, FS_AddElement
<1>6. Slots \in SUBSET ({x} \cup {y})
  BY <1>3 DEF x, y
<1>7. Cardinality(Slots) <= Cardinality({x} \cup {y}) /\ Cardinality(Slots) \in Nat
  BY <1>5, <1>6, FS_Subset, FS_CardinalityType, RegistrationAssumption
<1> QED BY <1>5, <1>7

\* What init_srp() takes away once the client has let go of it, it takes away whole.
LEMMA EmptiedNeat ==
    ASSUME NEW p, Neat(p), NEW k \in Kinds, p.handle[k] # NoSlot, p.handle[k] \notin p.services
    PROVE  LET q == Freed(Removed(p, k), k)
           IN  Neat(q) /\ q.handle[k] = NoSlot /\ OthersKept(p, q, k)
<1> DEFINE q == Freed(Removed(p, k), k)
           f == <<p.handle[k]>> \o p.free
           h == [p.handle EXCEPT ![k] = NoSlot]
<1>1. /\ p.handle \in [Kinds -> Slots \cup {NoSlot}] /\ p.free \in Seq(Slots)
      /\ p.handle[k] \in Slots /\ Once(p.free) /\ Owned(p) /\ ~InSeq(p.free, p.handle[k])
      /\ \A l \in Kinds : p.handle[l] = p.handle[k] => l = k
  BY OwnedParts DEF Neat, Owned
<1>2. Owned(q) /\ q.handle[k] = NoSlot
  BY <1>1, RemovedOwned, FreedOwned
<1>3. /\ q.handle = h /\ q.free = f /\ q.text = p.text /\ q.services = p.services
      /\ q.removing = p.removing
  BY DEF Freed, Removed, PoolOf
<1>4. \A y : InSeq(f, y) <=> y = p.handle[k] \/ InSeq(p.free, y)
  BY <1>1, PushOnce
<1>5. \A l \in Kinds : h[l] = IF l = k THEN NoSlot ELSE p.handle[l]
  BY <1>1
<1> HIDE DEF q, f, h
<1>6. OthersKept(p, q, k)
  BY <1>3, <1>5 DEF OthersKept
<1>7. \A s \in Slots : InSeq(q.free, s) \/ \E l \in Kinds : q.handle[l] = s
  BY <1>3, <1>4, <1>5 DEF Neat
<1>8. \A s \in q.services : \E l \in Kinds : q.handle[l] = s
  BY <1>1, <1>3, <1>5, RegistrationAssumption DEF Neat
<1>9. \A l \in Kinds : q.handle[l] # NoSlot => q.text[q.handle[l]].kind = l
  BY <1>3, <1>5 DEF Neat
<1>10. Neat(q)
  BY <1>2, <1>7, <1>8, <1>9 DEF Neat
<1> QED BY <1>2, <1>6, <1>10 DEF q

\* The client refuses no new registration, for it refers to no free slot and to no
\* other registration of this kind.
LEMMA RegisteredNeat ==
    ASSUME Cardinality(Slots) >= 3, NEW p, Neat(p), NEW k \in Kinds, p.handle[k] = NoSlot,
           NEW instance \in Instances
    PROVE  LET q == Registered(p, k, instance)
           IN  /\ Neat(q) /\ Says(q, k, instance) /\ Live(q, k) /\ OthersKept(p, q, k)
               /\ q.handle[k] = Head(p.free) /\ q.handle[k] # NoSlot
<1> DEFINE q == Registered(p, k, instance)
           slot == Head(p.free)
           new == [kind |-> k, instance |-> instance]
           t == [p.text EXCEPT ![slot] = new]
           h == [p.handle EXCEPT ![k] = slot]
<1>1. /\ p.handle \in [Kinds -> Slots \cup {NoSlot}] /\ p.free \in Seq(Slots) /\ Once(p.free)
      /\ p.text \in [Slots -> Texts] /\ p.services \in SUBSET Slots /\ Owned(p)
      /\ p.removing \subseteq p.services
  BY OwnedParts DEF Neat
<1>2. p.free # <<>>
  BY SlotLeft
<1>3. /\ slot \in Slots /\ InSeq(p.free, slot)
      /\ \A y : InSeq(p.free, y) => y = slot \/ InSeq(Tail(p.free), y)
  <2>1. /\ slot \in Slots /\ InSeq(p.free, slot)
    BY <1>1, <1>2, PopOnce
  <2>2. /\ Len(p.free) \in Nat /\ DOMAIN p.free = 1 .. Len(p.free) /\ slot = p.free[1]
        /\ DOMAIN Tail(p.free) = 1 .. Len(p.free) - 1
        /\ \A i \in 1 .. Len(p.free) - 1 : Tail(p.free)[i] = p.free[i + 1]
    BY <1>1, <1>2
  <2>3. \A i \in DOMAIN p.free :
           i = 1 \/ (i - 1 \in DOMAIN Tail(p.free) /\ Tail(p.free)[i - 1] = p.free[i])
    BY <2>2
  <2>4. \A y : InSeq(p.free, y) => y = slot \/ InSeq(Tail(p.free), y)
    <3> HIDE DEF slot
    <3> QED BY <2>2, <2>3 DEF InSeq
  <2> QED BY <2>1, <2>4
<1>4. \A l \in Kinds : p.handle[l] # slot
  BY <1>3, RegistrationAssumption DEF Neat, Owned
<1>5. slot \notin p.services
  BY <1>3, <1>4 DEF Neat
<1>17. ~Refuses(p, slot, new)
  <2>2. ASSUME NEW s \in p.services PROVE p.text[s] # new
    <3>1. PICK l \in Kinds : p.handle[l] = s
      BY <1>1 DEF Neat
    <3>2. s # NoSlot /\ l # k
      BY <1>1, <3>1, RegistrationAssumption
    <3>3. p.text[s].kind = l
      BY <3>1, <3>2 DEF Neat
    <3> QED BY <3>2, <3>3
  <2> QED BY <1>5, <2>2 DEF Refuses
<1>6. q = PoolOf(h, Tail(p.free), t, p.services \cup {slot}, p.removing)
  BY <1>2, <1>17 DEF Registered
<1>7. /\ q.handle = h /\ q.free = Tail(p.free) /\ q.text = t
      /\ q.services = p.services \cup {slot} /\ q.removing = p.removing
  BY <1>6 DEF PoolOf
<1>8. /\ \A l \in Kinds : h[l] = IF l = k THEN slot ELSE p.handle[l]
      /\ \A s \in Slots : t[s] = IF s = slot THEN new ELSE p.text[s]
      /\ new.kind = k
  BY <1>1
<1>9. Owned(q)
  BY <1>1, RegisteredOwned
<1> HIDE DEF q, slot, t, h, new
<1>10. Says(q, k, instance) /\ Live(q, k) /\ q.handle[k] # NoSlot
  BY <1>1, <1>3, <1>5, <1>7, <1>8, RegistrationAssumption DEF Says, Live, new
<1>11. OthersKept(p, q, k)
  BY <1>1, <1>4, <1>7, <1>8 DEF OthersKept
<1>12. \A s \in Slots : InSeq(q.free, s) \/ \E l \in Kinds : q.handle[l] = s
  BY <1>1, <1>3, <1>7, <1>8, RegistrationAssumption DEF Neat
<1>13. \A s \in q.services : \E l \in Kinds : q.handle[l] = s
  BY <1>1, <1>3, <1>7, <1>8, RegistrationAssumption DEF Neat
<1>14. \A l \in Kinds : q.handle[l] # NoSlot => q.text[q.handle[l]].kind = l
  BY <1>1, <1>3, <1>4, <1>7, <1>8 DEF Neat
<1>15. Neat(q)
  BY <1>9, <1>12, <1>13, <1>14 DEF Neat
<1>16. q.handle[k] = slot
  BY <1>7, <1>8
<1> QED BY <1>10, <1>11, <1>15, <1>16 DEF q, slot

LEMMA KeptTwice ==
    ASSUME NEW p, NEW e, NEW q, NEW k, OthersKept(p, e, k), OthersKept(e, q, k)
    PROVE  OthersKept(p, q, k)
  BY DEF OthersKept

\* A renaming while the client holds the slot leaves the registration where it is: the
\* slot freed is the one allocated next, and the client refuses it.
LEMMA RewrittenInPlace ==
    ASSUME NEW p, Neat(p), NEW k \in Kinds, NEW instance \in Instances,
           p.handle[k] # NoSlot, p.handle[k] \in p.services
    PROVE  LET q == ReRegistered(p, k, instance)
           IN  /\ Neat(q) /\ q.handle = p.handle /\ q.services = p.services
               /\ Says(q, k, instance) /\ OthersKept(p, q, k)
<1> DEFINE q == ReRegistered(p, k, instance)
           old == p.handle[k]
           r == p.removing \cup {old}
           new == [kind |-> k, instance |-> instance]
           t == [p.text EXCEPT ![old] = new]
           e == Freed(Removed(p, k), k)
           f == <<old>> \o p.free
<1>1. /\ p.handle \in [Kinds -> Slots \cup {NoSlot}] /\ p.free \in Seq(Slots)
      /\ p.text \in [Slots -> Texts] /\ p.services \in SUBSET Slots
      /\ p.removing \in SUBSET p.services /\ Once(p.free) /\ Owned(p)
      /\ old \in Slots /\ \A l \in Kinds : p.handle[l] = old => l = k
  BY OwnedParts DEF Neat, Owned
<1>2. e = PoolOf([p.handle EXCEPT ![k] = NoSlot], f, p.text, p.services, r)
  <2>1. Removed(p, k) = PoolOf(p.handle, p.free, p.text, p.services, r)
    BY DEF Removed
  <2> QED BY <2>1 DEF Freed, PoolOf
<1>3. f # <<>> /\ Head(f) = old /\ Tail(f) = p.free
  BY <1>1
<1>4. /\ e.handle = [p.handle EXCEPT ![k] = NoSlot] /\ e.free = f /\ e.text = p.text
      /\ e.services = p.services /\ e.removing = r
  BY <1>2 DEF PoolOf
<1> HIDE DEF e, f
<1>5. Registered(e, k, instance) = PoolOf(e.handle, p.free, t, p.services, r)
  <2>1. Refuses(e, old, new)
    BY <1>4 DEF Refuses
  <2> QED BY <1>3, <1>4, <2>1 DEF Registered
<1>6. q = PoolOf([Registered(e, k, instance).handle EXCEPT ![k] = old], p.free, t, p.services, r)
  <2>1. q = PoolOf([Registered(e, k, instance).handle EXCEPT ![k] = Head(e.free)],
                   Registered(e, k, instance).free, Registered(e, k, instance).text,
                   Registered(e, k, instance).services, Registered(e, k, instance).removing)
    BY <1>3, <1>4 DEF ReRegistered, e
  <2> HIDE DEF t, r, q
  <2> QED BY <1>3, <1>4, <1>5, <2>1 DEF PoolOf
<1>7. [Registered(e, k, instance).handle EXCEPT ![k] = old] = p.handle
  <2>1. Registered(e, k, instance).handle = [p.handle EXCEPT ![k] = NoSlot]
    BY <1>4, <1>5 DEF PoolOf
  <2> QED BY <1>1, <2>1
<1>8. /\ q.handle = p.handle /\ q.free = p.free /\ q.text = t /\ q.services = p.services
      /\ q.removing = r
  BY <1>6, <1>7 DEF PoolOf
<1>9. Owned(q)
  BY <1>1, ReRegisteredOwned
<1>10. \A s \in Slots : t[s] = IF s = old THEN new ELSE p.text[s]
  BY <1>1
<1> HIDE DEF q, t
<1>11. Says(q, k, instance)
  BY <1>1, <1>8, <1>10 DEF Says
<1>12. OthersKept(p, q, k)
  BY <1>1, <1>8, <1>10 DEF OthersKept
<1>13. \A l \in Kinds : q.handle[l] # NoSlot => q.text[q.handle[l]].kind = l
  BY <1>1, <1>8, <1>10 DEF Neat
<1>14. Neat(q)
  BY <1>8, <1>9, <1>13 DEF Neat
<1> QED BY <1>8, <1>11, <1>12, <1>14 DEF q

\* What a renaming makes of a neat pool: a first registration is live, one the client
\* holds is rewritten in place, and one it has let go of is left as it is.
LEMMA ReRegisteredNeat ==
    ASSUME Cardinality(Slots) >= 3, NEW p, Neat(p), NEW k \in Kinds, NEW instance \in Instances
    PROVE  LET q == ReRegistered(p, k, instance)
           IN  /\ Neat(q) /\ OthersKept(p, q, k) /\ q.handle[k] # NoSlot
               /\ q.handle[k] \in q.services => Says(q, k, instance)
               /\ p.handle[k] = NoSlot => Live(q, k)
<1> DEFINE q == ReRegistered(p, k, instance)
<1>1. CASE p.handle[k] = NoSlot
  <2> DEFINE added == Registered(p, k, instance)
  <2>1. p.free # <<>>
    BY <1>1, SlotLeft
  <2>2. q = PoolOf([added.handle EXCEPT ![k] = Head(p.free)], added.free, added.text,
                   added.services, added.removing)
    BY <1>1, <2>1 DEF ReRegistered
  <2>3. /\ Neat(added) /\ Says(added, k, instance) /\ Live(added, k) /\ OthersKept(p, added, k)
        /\ added.handle[k] = Head(p.free) /\ added.handle[k] # NoSlot
    BY <1>1, RegisteredNeat
  <2> HIDE DEF added
  <2>4. [added.handle EXCEPT ![k] = Head(p.free)] = added.handle
    BY <2>3, OwnedParts DEF Neat
  <2>5. added = PoolOf(added.handle, added.free, added.text, added.services, added.removing)
    BY <2>3 DEF Neat, Owned, PoolType, PoolOf
  <2>6. q = added
    BY <2>2, <2>4, <2>5
  <2> QED BY <2>3, <2>6
<1>2. CASE p.handle[k] # NoSlot /\ p.handle[k] \in p.services
  BY <1>2, RewrittenInPlace
<1>3. CASE p.handle[k] # NoSlot /\ p.handle[k] \notin p.services
  BY <1>3 DEF ReRegistered, OthersKept
<1> QED BY <1>1, <1>2, <1>3

\* What the two properties need to be kept: the pool is neat, what the client holds of
\* the names is the current ones, and BootCoap is the first to register a long name.
Current(k) == IF k = "short" THEN ble_name ELSE full_name
NameInv(k) ==
    /\ handle[k] \in services => Says(Pool, k, Current(k))
    /\ k \notin replaced /\ handle[k] # NoSlot => Live(Pool, k)
NamesInv ==
    /\ SlotInv
    /\ boot \in {"srp", "coap"} => ~coap_started
    /\ "dcc" \notin replaced =>
          /\ Neat(Pool)
          /\ srp_is_enabled => handle["short"] # NoSlot
          /\ NameInv("short") /\ NameInv("long")
          /\ boot \in {"srp", "coap"} => handle["long"] = NoSlot

LEMMA PoolNext ==
    ASSUME NEW p, Owned(p), PoolBecomes(p)
    PROVE  /\ Pool' = p /\ handle' = p.handle /\ text' = p.text
           /\ services' = p.services /\ removing' = p.removing
<1>1. p = PoolOf(p.handle, p.free, p.text, p.services, p.removing)
  BY DEF Owned, PoolType, PoolOf
<1>2. Pool' = PoolOf(p.handle, p.free, p.text, p.services, p.removing) /\ handle' = p.handle
  BY DEF PoolBecomes, Pool, PoolOf
<1> QED BY <1>1, <1>2 DEF PoolBecomes

\* A registration of another kind leaves a name as it was.
LEMMA NameKept ==
    ASSUME NEW p, Neat(p), p = Pool, NEW q, Owned(q), PoolBecomes(q),
           NEW k \in Kinds, NEW l \in {"short", "long"}, l # k, OthersKept(p, q, k),
           NameInv(l), Current(l)' = Current(l), l \in replaced => l \in replaced'
    PROVE  handle'[l] = handle[l] /\ NameInv(l)'
<1>1. /\ Pool' = q /\ handle' = q.handle /\ services' = q.services
      /\ Pool.handle = handle /\ Pool.services = services /\ Pool.removing = removing
  BY PoolNext, PoolFields
<1>2. l \in Kinds /\ NoSlot \notin q.services
  BY OwnedParts, RegistrationAssumption DEF Kinds
<1>3. q.handle[l] = p.handle[l]
  BY <1>2 DEF OthersKept
<1>4. p.handle[l] # NoSlot =>
         /\ q.text[p.handle[l]] = p.text[p.handle[l]]
         /\ p.handle[l] \in q.services <=> p.handle[l] \in p.services
         /\ p.handle[l] \in q.removing <=> p.handle[l] \in p.removing
  BY <1>2 DEF OthersKept
<1>5. handle'[l] \in services' => Says(Pool, l, Current(l))'
  <2> SUFFICES ASSUME handle'[l] \in services' PROVE Says(q, l, Current(l))
    BY <1>1 DEF Says
  <2>1. p.handle[l] # NoSlot /\ handle[l] \in services
    BY <1>1, <1>2, <1>3, <1>4
  <2>2. Says(p, l, Current(l))
    BY <2>1 DEF NameInv
  <2> QED BY <1>3, <1>4, <2>1, <2>2 DEF Says
<1>6. l \notin replaced' /\ handle'[l] # NoSlot => Live(Pool, l)'
  <2> SUFFICES ASSUME l \notin replaced', handle'[l] # NoSlot PROVE Live(q, l)
    BY <1>1 DEF Live
  <2>1. p.handle[l] # NoSlot /\ Live(p, l)
    BY <1>1, <1>3 DEF NameInv
  <2> QED BY <1>3, <1>4, <2>1 DEF Live
<1>7. NameInv(l)'
  BY <1>5, <1>6 DEF NameInv
<1> QED BY <1>1, <1>3, <1>7

\* The pool, the names and the histories unchanged.
LEMMA NameSame ==
    ASSUME NEW l \in {"short", "long"}, NameInv(l), UNCHANGED pool, UNCHANGED replaced,
           Current(l)' = Current(l)
    PROVE  NameInv(l)'
<1>1. Pool' = Pool /\ handle' = handle /\ services' = services
  BY DEF pool, Pool
<1>2. Says(Pool, l, Current(l))' <=> Says(Pool, l, Current(l))
  BY <1>1 DEF Says
<1>3. Live(Pool, l)' <=> Live(Pool, l)
  BY <1>1 DEF Live
<1> QED BY <1>1, <1>2, <1>3 DEF NameInv

LEMMA NamesStart == Init => NamesInv
<1> SUFFICES ASSUME Init PROVE NamesInv
  OBVIOUS
<1>1. /\ handle = [k \in Kinds |-> NoSlot] /\ services = {} /\ ~srp_is_enabled /\ ~coap_started
  BY DEF Init
<1>2. \A k \in Kinds : handle[k] = NoSlot
  BY <1>1
<1>3. \A s \in Slots : InSeq(free, s)
  <2> DEFINE n == Cardinality(Slots)
  <2>1. /\ n \in Nat /\ free \in [1 .. n -> Slots]
        /\ \A i, j \in 1 .. n : free[i] = free[j] => i = j
    BY FS_CardinalityType, RegistrationAssumption DEF Init
  <2> DEFINE R == {free[i] : i \in 1 .. n}
  <2>2. free \in Bijection(1 .. n, R)
    BY <2>1 DEF Bijection, Injection, Surjection, IsInjective
  <2>3. Cardinality(R) = n
    BY <2>1, <2>2, FS_CountingElements DEF ExistsBijection
  <2>4. R \in SUBSET Slots
    BY <2>1
  <2>5. Slots = R
    <3> HIDE DEF R
    <3> QED BY <2>3, <2>4, FS_Subset, RegistrationAssumption
  <2>6. DOMAIN free = 1 .. n
    BY <2>1
  <2> QED BY <2>5, <2>6 DEF InSeq
<1>4. Neat(Pool)
  <2>1. Owned(Pool)
    BY SlotStart DEF SlotInv
  <2> QED BY <1>1, <1>2, <1>3, <2>1, PoolFields, RegistrationAssumption DEF Neat
<1>5. NameInv("short") /\ NameInv("long")
  BY <1>1, <1>2 DEF NameInv, Kinds
<1> QED BY <1>1, <1>2, <1>4, <1>5, SlotStart DEF NamesInv, Kinds

\* init_srp() renews a short name only when the client has let go of the old one.
LEMMA InitSrpNames ==
    ASSUME Cardinality(Slots) >= 3, NamesInv, init_srp, "dcc" \notin replaced,
           UNCHANGED replaced
    PROVE  /\ Neat(Pool)'
           /\ srp_is_enabled' => handle'["short"] # NoSlot
           /\ NameInv("short")' /\ NameInv("long")'
           /\ handle'["long"] = handle["long"]
<1>0. /\ Neat(Pool) /\ NameInv("short") /\ NameInv("long") /\ Owned(Pool)
      /\ srp_is_enabled => handle["short"] # NoSlot
  BY DEF NamesInv, Neat
<1>1. /\ ble_name' = ble_name /\ full_name' = full_name
      /\ Current("short")' = Current("short") /\ Current("long")' = Current("long")
  BY DEF init_srp, identity, Current
<1>2. CASE UNCHANGED pool /\ (srp_is_enabled' => handle["short"] # NoSlot)
  <2>1. Pool' = Pool /\ handle' = handle
    BY <1>2 DEF pool, Pool
  <2>2. NameInv("short")' /\ NameInv("long")'
    BY <1>0, <1>1, <1>2, NameSame
  <2> QED BY <1>0, <1>2, <2>1, <2>2
<1>3. CASE PoolBecomes(ShortRegistered(Pool))
  <2> DEFINE q == ShortRegistered(Pool)
  <2>1. /\ "short" \in Kinds /\ "long" \in Kinds /\ ble_name \in Instances
        /\ ble_name \in ShortNames
    BY DEF Kinds, NamesInv, SlotInv, Instances
  <2>2. Owned(q)
    BY <1>0, <2>1, ShortRegisteredOwned
  <2>3. CASE handle["short"] # NoSlot /\ text[handle["short"]].instance = ble_name
    <3>1. PoolBecomes(Pool)
      BY <1>3, <2>3, PoolFields DEF ShortRegistered
    <3>2. UNCHANGED pool
      BY <3>1, PoolFields DEF PoolBecomes, pool
    <3> QED BY <1>2, <2>3, <3>2
  <2>4. ASSUME NEW e, Neat(e), e.handle["short"] = NoSlot, OthersKept(Pool, e, "short"),
               q = Registered(e, "short", ble_name)
        PROVE  /\ Neat(Pool)' /\ handle'["short"] # NoSlot
               /\ NameInv("short")' /\ NameInv("long")' /\ handle'["long"] = handle["long"]
    <3>1. /\ Neat(q) /\ Says(q, "short", ble_name) /\ Live(q, "short")
          /\ OthersKept(e, q, "short") /\ q.handle["short"] # NoSlot
      BY <2>1, <2>4, RegisteredNeat
    <3>2. OthersKept(Pool, q, "short")
      BY <2>4, <3>1, KeptTwice
    <3> HIDE DEF q
    <3>3. Pool' = q /\ handle' = q.handle
      BY <1>3, <2>2, PoolNext DEF q
    <3>4. NameInv("short")'
      <4>1. Says(Pool, "short", Current("short"))'
        BY <1>1, <3>1, <3>3 DEF Says, Current
      <4>2. Live(Pool, "short")'
        BY <3>1, <3>3 DEF Live
      <4> QED BY <4>1, <4>2 DEF NameInv
    <3>5. NameInv("long")' /\ handle'["long"] = handle["long"]
      BY <1>0, <1>1, <1>3, <2>1, <2>2, <3>2, NameKept DEF q
    <3> QED BY <3>1, <3>3, <3>4, <3>5
  <2>5. CASE handle["short"] = NoSlot
    <3>1. q = Registered(Pool, "short", ble_name)
      BY <2>5, PoolFields DEF ShortRegistered
    <3>2. OthersKept(Pool, Pool, "short")
      BY DEF OthersKept
    <3> HIDE DEF q
    <3> QED BY <1>0, <2>4, <2>5, <3>1, <3>2, PoolFields
  <2>6. CASE handle["short"] # NoSlot /\ text[handle["short"]].instance # ble_name
    <3> DEFINE e == Freed(Removed(Pool, "short"), "short")
    <3>1. q = Registered(e, "short", ble_name)
      BY <2>6, PoolFields DEF ShortRegistered
    <3>2. handle["short"] \notin services
      <4> SUFFICES ASSUME handle["short"] \in services PROVE FALSE
        OBVIOUS
      <4>1. Says(Pool, "short", ble_name)
        BY <1>0 DEF NameInv, Current
      <4> QED BY <2>6, <4>1, PoolFields DEF Says
    <3>3. Neat(e) /\ e.handle["short"] = NoSlot /\ OthersKept(Pool, e, "short")
      BY <1>0, <2>1, <2>6, <3>2, EmptiedNeat, PoolFields
    <3> HIDE DEF e, q
    <3> QED BY <2>4, <3>1, <3>3
  <2> QED BY <2>3, <2>5, <2>6
<1> QED BY <1>0, <1>2, <1>3 DEF init_srp

LEMMA InitSrpInv ==
    ASSUME Cardinality(Slots) >= 3, NamesInv, init_srp, UNCHANGED <<coap_started, replaced>>,
           boot' \in {"srp", "coap"} => boot \in {"srp", "coap"}
    PROVE  NamesInv'
<1>1. SlotInv'
  BY InitSrpSlots DEF NamesInv
<1>2. CASE "dcc" \in replaced
  BY <1>1, <1>2 DEF NamesInv
<1>3. CASE "dcc" \notin replaced
  BY <1>1, <1>3, InitSrpNames DEF NamesInv
<1> QED BY <1>2, <1>3

\* A first registration of its kind: the rest of the invariant is kept.
LEMMA FirstOfKind ==
    ASSUME Cardinality(Slots) >= 3, NamesInv, "dcc" \notin replaced, NEW k \in {"dcc", "long"},
           handle[k] = NoSlot, NEW i \in Instances, PoolBecomes(Registered(Pool, k, i)),
           k = "long" => i = full_name, UNCHANGED <<ble_name, full_name, replaced>>
    PROVE  /\ Neat(Pool)' /\ NameInv("short")' /\ NameInv("long")'
           /\ handle'["short"] = handle["short"]
           /\ k = "dcc" => handle'["long"] = handle["long"]
<1> DEFINE q == Registered(Pool, k, i)
<1>0. /\ Neat(Pool) /\ NameInv("short") /\ NameInv("long")
      /\ k \in Kinds /\ "short" \in Kinds /\ "long" \in Kinds
  BY DEF NamesInv, Kinds
<1>1. Neat(q) /\ Says(q, k, i) /\ Live(q, k) /\ OthersKept(Pool, q, k)
  BY <1>0, PoolFields, RegisteredNeat
<1>2. Current("short")' = Current("short") /\ Current("long")' = Current("long")
  BY DEF Current
<1>3. PoolBecomes(q) /\ Owned(q)
  BY <1>1 DEF Neat
<1> HIDE DEF q
<1>4. Pool' = q /\ handle' = q.handle
  BY <1>3, PoolNext
<1>5. NameInv("short")' /\ handle'["short"] = handle["short"]
  BY <1>0, <1>1, <1>2, <1>3, NameKept
<1>6. CASE k = "dcc"
  <2>1. NameInv("long")' /\ handle'["long"] = handle["long"]
    BY <1>0, <1>1, <1>2, <1>3, <1>6, NameKept
  <2> QED BY <1>1, <1>4, <1>5, <2>1
<1>7. CASE k = "long"
  <2>1. Says(Pool, "long", Current("long"))'
    BY <1>1, <1>2, <1>4, <1>7 DEF Says, Current
  <2>2. Live(Pool, "long")'
    BY <1>1, <1>4, <1>7 DEF Live
  <2>3. NameInv("long")'
    BY <2>1, <2>2 DEF NameInv
  <2> QED BY <1>1, <1>4, <1>5, <1>7, <2>3
<1> QED BY <1>6, <1>7

\* Nothing the invariant is about has changed.
LEMMA UntouchedNames ==
    ASSUME NamesInv, ble_name' = ble_name, full_name' = full_name, dcc_address' \in Addresses,
           UNCHANGED pool, UNCHANGED <<replaced, srp_is_enabled>>,
           boot' \in {"srp", "coap"} => boot \in {"srp", "coap"} /\ ~coap_started'
    PROVE  NamesInv'
<1>1. Pool' = Pool /\ handle' = handle
  BY DEF pool, Pool
<1>2. Current("short")' = Current("short") /\ Current("long")' = Current("long")
  BY DEF Current
<1>3. ASSUME NEW l \in {"short", "long"}, NameInv(l) PROVE NameInv(l)'
  BY <1>2, <1>3, NameSame
<1> QED BY <1>1, <1>3 DEF NamesInv, SlotInv

\* The first DCC registration finds no old one; the others are replacements.
LEMMA DccInv ==
    ASSUME Cardinality(Slots) >= 3, NamesInv, register_dcc_service, UNCHANGED coap_started,
           boot' \in {"srp", "coap"} => boot \in {"srp", "coap"}
    PROVE  NamesInv'
<1>1. SlotInv'
  BY DccSlots DEF NamesInv
<1>2. /\ ble_name' = ble_name /\ full_name' = full_name /\ srp_is_enabled' = srp_is_enabled
      /\ replaced' = IF handle["dcc"] # NoSlot THEN replaced \cup {"dcc"} ELSE replaced
  BY DEF register_dcc_service, identity, host, Replaces
<1>3. CASE "dcc" \in replaced \/ handle["dcc"] # NoSlot
  BY <1>1, <1>2, <1>3 DEF NamesInv
<1>4. CASE "dcc" \notin replaced /\ handle["dcc"] = NoSlot
  <2>1. CASE dcc_address = NoAddress
    <3>1. PoolBecomes(Pool)
      BY <1>4, <2>1 DEF register_dcc_service
    <3>2. UNCHANGED pool
      BY <3>1, PoolFields DEF PoolBecomes, pool
    <3>3. dcc_address' \in Addresses
      BY <1>1 DEF SlotInv
    <3> QED BY <1>2, <1>4, <3>2, <3>3, UntouchedNames DEF NamesInv
  <2>2. CASE dcc_address # NoAddress
    <3>1. PoolBecomes(Registered(Pool, "dcc", dcc_address))
      BY <1>4, <2>2 DEF register_dcc_service
    <3>2. dcc_address \in Instances
      BY DEF NamesInv, SlotInv, Instances
    <3>3. UNCHANGED <<ble_name, full_name, replaced>>
      BY <1>2, <1>4
    <3>4. /\ Neat(Pool)' /\ NameInv("short")' /\ NameInv("long")'
          /\ handle'["short"] = handle["short"] /\ handle'["long"] = handle["long"]
      BY <1>4, <3>1, <3>2, <3>3, FirstOfKind
    <3> QED BY <1>1, <1>2, <1>4, <3>4 DEF NamesInv
  <2> QED BY <2>1, <2>2
<1> QED BY <1>3, <1>4

\* A renaming keeps the invariant when only the names change with it.
LEMMA RenameInv ==
    ASSUME Cardinality(Slots) >= 3, NamesInv, SlotInv', NEW k \in {"short", "long"},
           NEW new \in Instances, PoolBecomes(ReRegistered(Pool, k, new)), Replaces(k),
           UNCHANGED <<coap_started, srp_is_enabled, boot>>,
           IF k = "short" THEN ble_name' = new /\ full_name' = full_name
           ELSE full_name' = new /\ ble_name' = ble_name,
           k = "long" => boot \notin {"srp", "coap"}
    PROVE  NamesInv'
<1>0. replaced' = IF handle[k] # NoSlot THEN replaced \cup {k} ELSE replaced
  BY DEF Replaces
<1>1. CASE "dcc" \in replaced
  BY <1>0, <1>1 DEF NamesInv
<1>2. CASE "dcc" \notin replaced
  <2> DEFINE q == ReRegistered(Pool, k, new)
  <2>1. k \in Kinds /\ "short" \in Kinds /\ "long" \in Kinds /\ Neat(Pool)
        /\ NameInv("short") /\ NameInv("long")
    BY <1>2 DEF Kinds, NamesInv
  <2>2. /\ Neat(q) /\ OthersKept(Pool, q, k) /\ q.handle[k] # NoSlot
        /\ q.handle[k] \in q.services => Says(q, k, new)
        /\ handle[k] = NoSlot => Live(q, k)
    BY <2>1, ReRegisteredNeat, PoolFields
  <2>3. PoolBecomes(q) /\ Owned(q)
    BY <2>2 DEF Neat
  <2> HIDE DEF q
  <2>4. Pool' = q /\ handle' = q.handle /\ services' = q.services
    BY <2>3, PoolNext
  <2>5. ASSUME NEW l \in {"short", "long"}, l # k
        PROVE  handle'[l] = handle[l] /\ NameInv(l)'
    <3>1. Current(l)' = Current(l)
      BY <2>5 DEF Current
    <3> QED BY <1>0, <2>1, <2>2, <2>3, <2>5, <3>1, NameKept
  <2>6. NameInv(k)'
    <3>1. Current(k)' = new
      BY DEF Current
    <3>2. handle'[k] \in services' => Says(Pool, k, Current(k))'
      BY <2>2, <2>4, <3>1 DEF Says
    <3>3. k \notin replaced' => Live(Pool, k)'
      BY <1>0, <2>2, <2>4 DEF Live
    <3> QED BY <3>2, <3>3 DEF NameInv
  <2>7. CASE k = "short"
    BY <1>0, <1>2, <2>2, <2>4, <2>5, <2>6, <2>7 DEF NamesInv
  <2>8. CASE k = "long"
    BY <1>0, <1>2, <2>2, <2>4, <2>5, <2>6, <2>8 DEF NamesInv
  <2> QED BY <2>7, <2>8
<1> QED BY <1>1, <1>2

\* A confirmed removal takes a marked slot from the client, and no live one.
LEMMA ConfirmedInv ==
    ASSUME NamesInv, RemovalConfirmed
    PROVE  NamesInv'
<1>1. SlotInv'
  BY SlotStep DEF NamesInv, Next
<1>2. PICK s \in removing : services' = services \ {s} /\ removing' = removing \ {s}
  BY DEF RemovalConfirmed
<1>3. /\ UNCHANGED <<handle, free, text, srp_is_enabled, coap_started, boot, replaced>>
      /\ Current("short")' = Current("short") /\ Current("long")' = Current("long")
  BY DEF RemovalConfirmed, identity, host, system, Current
<1>4. CASE "dcc" \in replaced
  BY <1>1, <1>3, <1>4 DEF NamesInv
<1>5. CASE "dcc" \notin replaced
  <2>1. Pool'.handle = handle /\ Pool'.free = free /\ Pool'.text = text
        /\ Pool'.services = services \ {s} /\ Pool'.removing = removing \ {s}
    BY <1>2, <1>3 DEF Pool, PoolOf
  <2>2. Neat(Pool)'
    <3>1. Neat(Pool) /\ Owned(Pool')
      BY <1>1, <1>5 DEF NamesInv, SlotInv
    <3>2. Neat(Pool')
      BY <2>1, <3>1, PoolFields DEF Neat
    <3> QED BY <3>2
  <2>3. ASSUME NEW l \in {"short", "long"}, NameInv(l) PROVE NameInv(l)'
    <3>1. handle'[l] \in services' => Says(Pool, l, Current(l))'
      BY <1>2, <1>3, <2>1, <2>3, PoolFields DEF NameInv, Says
    <3>2. l \notin replaced' /\ handle'[l] # NoSlot => Live(Pool, l)'
      BY <1>2, <1>3, <2>1, <2>3, PoolFields DEF NameInv, Live
    <3> QED BY <3>1, <3>2 DEF NameInv
  <2> QED BY <1>1, <1>3, <1>5, <2>2, <2>3 DEF NamesInv
<1> QED BY <1>4, <1>5

LEMMA NamesStep ==
    ASSUME Cardinality(Slots) >= 3, NamesInv, [Next]_vars
    PROVE  NamesInv'
<1>1. CASE BootSrp
  BY <1>1, InitSrpInv DEF BootSrp
<1>2. CASE BootCoap
  <2>1. SlotInv'
    BY <1>2, SlotStep DEF NamesInv, Next
  <2>2. /\ boot = "coap" /\ boot' = "dcc" /\ ble_name' = ble_name /\ full_name' = full_name
        /\ srp_is_enabled' = srp_is_enabled /\ replaced' = replaced
        /\ dcc_address' = dcc_address
    BY <1>2 DEF BootCoap, identity, host
  <2>3. CASE "dcc" \in replaced
    BY <2>1, <2>2, <2>3 DEF NamesInv
  <2>4. CASE UNCHANGED pool
    BY <2>2, <2>4, UntouchedNames DEF NamesInv, SlotInv
  <2>5. CASE "dcc" \notin replaced /\ ~UNCHANGED pool
    <3>1. handle["long"] = NoSlot /\ full_name \in Instances
      BY <2>2, <2>5 DEF NamesInv, SlotInv, Instances
    <3>2. PoolBecomes(Registered(Pool, "long", full_name))
      BY <1>2, <2>5, <3>1 DEF BootCoap
    <3>3. /\ Neat(Pool)' /\ NameInv("short")' /\ NameInv("long")'
          /\ handle'["short"] = handle["short"]
      BY <2>2, <2>5, <3>1, <3>2, FirstOfKind
    <3> QED BY <2>1, <2>2, <2>5, <3>3 DEF NamesInv
  <2> QED BY <2>3, <2>4, <2>5
<1>3. CASE BootDcc
  BY <1>3, DccInv DEF BootDcc
<1>4. CASE on_thread_address_changed
  BY <1>4, InitSrpInv DEF on_thread_address_changed, system
<1>5. CASE HandleJoinerCallback
  BY <1>5, InitSrpInv DEF HandleJoinerCallback
<1>6. CASE HostRegistered
  BY <1>6, UntouchedNames DEF HostRegistered, identity, system, NamesInv, SlotInv
<1>7. CASE RemovalConfirmed
  BY <1>7, ConfirmedInv
<1>8. ASSUME NEW new \in ShortNames, modify_short_name(new) PROVE NamesInv'
  <2>1. CASE Unchanged(new, ble_name)
    BY <1>8, <2>1, UntouchedNames DEF modify_short_name, NamesInv, SlotInv
  <2>2. CASE ~Unchanged(new, ble_name)
    <3>1. SlotInv'
      BY <1>8, SlotStep DEF NamesInv, Next
    <3>2. new \in Instances /\ ble_name' = new /\ full_name' = full_name
      BY <1>8, <2>2 DEF modify_short_name, Instances
    <3>3. /\ PoolBecomes(ReRegistered(Pool, "short", new)) /\ Replaces("short")
          /\ UNCHANGED <<coap_started, srp_is_enabled, boot>>
      BY <1>8, <2>2 DEF modify_short_name
    <3> QED BY <3>1, <3>2, <3>3, RenameInv
  <2> QED BY <2>1, <2>2
<1>9. ASSUME NEW new \in LongNames, modify_full_name(new) PROVE NamesInv'
  <2>1. SlotInv'
    BY <1>9, SlotStep DEF NamesInv, Next
  <2>2. new \in Instances /\ ble_name' = ble_name /\ full_name' = new
    BY <1>9 DEF modify_full_name, Instances
  <2>3. boot \notin {"srp", "coap"}
    BY <1>9 DEF modify_full_name, NamesInv
  <2>4. /\ PoolBecomes(ReRegistered(Pool, "long", new)) /\ Replaces("long")
        /\ UNCHANGED <<coap_started, srp_is_enabled, boot>>
    BY <1>9 DEF modify_full_name, host
  <2> QED BY <2>1, <2>2, <2>3, <2>4, RenameInv
<1>10. ASSUME NEW new \in Addresses, apply_dcc_address(new) PROVE NamesInv'
  BY <1>10, UntouchedNames DEF apply_dcc_address, host, NamesInv
<1>11. CASE DccSaved
  BY <1>11, DccInv DEF DccSaved
<1>12. CASE UNCHANGED vars
  BY <1>12, UntouchedNames DEF vars, identity, system, host, NamesInv, SlotInv
<1> QED BY <1>1, <1>2, <1>3, <1>4, <1>5, <1>6, <1>7, <1>8, <1>9, <1>10, <1>11, <1>12 DEF Next

\* No slot is lost, and the client refers to none that was given back, until a DCC
\* registration is replaced or dropped (SlotsAccounted): for any names, and for every
\* pool with a slot for each of the three kinds; prj.conf gives it four.
THEOREM SlotsStayAccounted ==
    ASSUME Cardinality(Slots) >= 3
    PROVE  Spec => []SlotsAccounted
<1>1. NamesInv /\ [Next]_vars => NamesInv'
  BY NamesStep
<1>2. NamesInv => SlotsAccounted
  <2> SUFFICES ASSUME NamesInv, "dcc" \notin replaced PROVE SlotsAccounted
    BY DEF SlotsAccounted
  <2> QED BY PoolFields DEF NamesInv, Neat, InSeq, SlotsAccounted
<1> QED BY NamesStart, <1>1, <1>2, PTL DEF Spec

\* A name nobody changed stays registered under its current text (NamesRegistered):
\* for any names and every pool with a slot for each of the three kinds.
THEOREM NamesStayRegistered ==
    ASSUME Cardinality(Slots) >= 3
    PROVE  Spec => []NamesRegistered
<1>1. NamesInv /\ [Next]_vars => NamesInv'
  BY NamesStep
<1>2. NamesInv => NamesRegistered
  <2> SUFFICES ASSUME NamesInv, "dcc" \notin replaced PROVE NamesRegistered
    BY DEF NamesRegistered
  <2>1. srp_is_enabled => handle["short"] # NoSlot
    BY DEF NamesInv
  <2>2. ASSUME NEW k \in {"short", "long"} \ replaced, handle[k] # NoSlot
        PROVE  /\ handle[k] \in services \ removing
               /\ text[handle[k]] = [kind |-> k,
                                     instance |-> IF k = "short" THEN ble_name ELSE full_name]
    <3>1. NameInv(k)
      BY DEF NamesInv
    <3>2. handle[k] \in services \ removing
      BY <2>2, <3>1, PoolFields DEF NameInv, Live
    <3>3. Says(Pool, k, Current(k))
      BY <3>1, <3>2 DEF NameInv
    <3> QED BY <3>2, <3>3, PoolFields DEF Says, Current
  <2> QED BY <2>1, <2>2 DEF NamesRegistered
<1> QED BY NamesStart, <1>1, <1>2, PTL DEF Spec

-----------------------------------------------------------------------------
(* Types.                                                                   *)

Flags ==
    {host_known, auto_start, srp_is_enabled, coap_started, udp_bound, joined, saving}

ScalarInv ==
    /\ HostInv /\ SlotInv
    /\ host_name \in ShortNames \cup {Unset}
    /\ Flags \subseteq BOOLEAN
    /\ boot \in BootSteps /\ replaced \in SUBSET Kinds

LEMMA InitSrpTypes ==
    ASSUME ScalarInv, init_srp
    PROVE  /\ HostInv' /\ SlotInv' /\ host_name' \in ShortNames
           /\ {auto_start, srp_is_enabled}' \subseteq BOOLEAN /\ host_known' = host_known
<1>1. HostInv' /\ SlotInv'
  BY InitSrpKeeps, InitSrpSlots DEF ScalarInv
<1>2. host_name' \in ShortNames /\ host_known' = host_known
  BY DEF ScalarInv, SlotInv, init_srp
<1>3. auto_start' \in BOOLEAN /\ srp_is_enabled' \in BOOLEAN
  BY DEF init_srp, ScalarInv, Flags
<1> QED BY <1>1, <1>2, <1>3

\* Every variable stays in its type (TypeOK), for any pool and any names.
THEOREM RegistrationsTyped == Spec => []TypeOK
<1>1. Init => ScalarInv
  <2> SUFFICES ASSUME Init PROVE ScalarInv
    OBVIOUS
  <2>1. \A f \in Flags : f = FALSE
    BY DEF Init, Flags
  <2>2. HostInv /\ host_name = Unset /\ boot \in BootSteps /\ replaced = {}
    BY DEF Init, HostInv, BootSteps
  <2> QED BY <2>1, <2>2, SlotStart DEF ScalarInv
<1>2. ScalarInv /\ [Next]_vars => ScalarInv'
  <2> SUFFICES ASSUME ScalarInv, [Next]_vars PROVE ScalarInv'
    OBVIOUS
  <2>0. HostInv' /\ SlotInv'
    BY HostStep, SlotStep DEF ScalarInv
  <2> USE DEF BootSteps
  <2>12. \A k \in Kinds : Replaces(k) => replaced' \in SUBSET Kinds
    BY DEF Replaces, ScalarInv
  <2>13. "dcc" \in Kinds /\ "short" \in Kinds /\ "long" \in Kinds
    BY DEF Kinds
  <2>14. CASE RemovalConfirmed
    BY <2>0, <2>14 DEF RemovalConfirmed, ScalarInv, Flags, host, system
  <2>1. CASE BootSrp
    BY <2>0, <2>1, InitSrpTypes DEF BootSrp, ScalarInv, Flags
  <2>2. CASE BootCoap
    BY <2>0, <2>2 DEF BootCoap, ScalarInv, Flags, host
  <2>3. CASE BootDcc
    BY <2>0, <2>3, <2>12, <2>13 DEF BootDcc, register_dcc_service, ScalarInv, Flags, host
  <2>4. CASE on_thread_address_changed
    BY <2>0, <2>4, InitSrpTypes DEF on_thread_address_changed, ScalarInv, Flags, system
  <2>5. CASE HandleJoinerCallback
    BY <2>0, <2>5, InitSrpTypes DEF HandleJoinerCallback, ScalarInv, Flags
  <2>6. CASE HostRegistered
    BY <2>0, <2>6 DEF HostRegistered, ScalarInv, Flags, system
  <2>7. ASSUME NEW new \in ShortNames, modify_short_name(new) PROVE ScalarInv'
    BY <2>0, <2>7, <2>12, <2>13 DEF modify_short_name, ScalarInv, Flags
  <2>8. ASSUME NEW new \in LongNames, modify_full_name(new) PROVE ScalarInv'
    BY <2>0, <2>8, <2>12, <2>13 DEF modify_full_name, ScalarInv, Flags, host
  <2>9. ASSUME NEW new \in Addresses, apply_dcc_address(new) PROVE ScalarInv'
    BY <2>0, <2>9 DEF apply_dcc_address, ScalarInv, Flags, host
  <2>10. CASE DccSaved
    BY <2>0, <2>10, <2>12, <2>13 DEF DccSaved, register_dcc_service, ScalarInv, Flags, host
  <2>11. CASE UNCHANGED vars
    BY <2>0, <2>11 DEF vars, ScalarInv, Flags, host, system
  <2> QED BY <2>1, <2>2, <2>3, <2>4, <2>5, <2>6, <2>7, <2>8, <2>9, <2>10, <2>11, <2>14 DEF Next
<1>3. ScalarInv => TypeOK
  <2> SUFFICES ASSUME ScalarInv PROVE TypeOK
    OBVIOUS
  <2>1. /\ handle \in [Kinds -> Slots \cup {NoSlot}] /\ free \in Seq(Slots)
        /\ text \in [Slots -> Texts] /\ services \in SUBSET Slots /\ removing \subseteq services
    BY OwnedParts, PoolFields DEF ScalarInv, SlotInv
  <2>2. failures \in 0 .. MaxFailures
    BY DEF ScalarInv, HostInv, MaxFailures
  <2> QED BY <2>1, <2>2 DEF TypeOK, ScalarInv, SlotInv, Flags
<1> QED BY <1>1, <1>2, <1>3, PTL DEF Spec
=============================================================================
