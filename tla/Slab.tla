-------------------------------- MODULE Slab --------------------------------
(***************************************************************************)
(* The `slab` crate as the duel uses it: a growable table that hands out    *)
(* the lowest never-used key, or the key freed most recently.  The duel     *)
(* keeps two pairs of slabs that must stay in step (Duel.observers with     *)
(* Sender.observers, Duel.uninit_players with Sender.undecided) and relies  *)
(* on both members of a pair handing out the same keys, so the order of the *)
(* free list is kept: `free` holds the keys in the order in which they will *)
(* be handed out.                                                           *)
(***************************************************************************)
EXTENDS Naturals, Sequences

CONSTANTS
  MaxKey,  \* bound: keys are 0..MaxKey (one per client is enough)
  Vacant   \* marks a free entry

Keys == 0..MaxKey

Slabs(S) == [val : [Keys -> S \cup {Vacant}], free : Seq(Keys)]

\* Slab::new: nothing stored, keys are handed out in ascending order.
EmptySlab == [val  |-> [k \in Keys |-> Vacant],
              free |-> [i \in 1..(MaxKey + 1) |-> i - 1]]

\* slab.contains(k) / slab.get(k).is_some()
Contains(slab, k) == slab.val[k] # Vacant

\* slab.vacant_entry().key(): the key the next insert will use.
VacantKey(slab) == Head(slab.free)

HasRoom(slab) == slab.free # <<>>

SlabInsert(slab, x) ==
  [val  |-> [slab.val EXCEPT ![VacantKey(slab)] = x],
   free |-> Tail(slab.free)]

\* slab.remove(k): the freed key is the next one handed out.
SlabRemove(slab, k) ==
  [val  |-> [slab.val EXCEPT ![k] = Vacant],
   free |-> <<k>> \o slab.free]

\* slab.is_empty()
IsEmptySlab(slab) == \A k \in Keys : slab.val[k] = Vacant
=============================================================================
