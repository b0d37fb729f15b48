---------------------------- MODULE Fleet_proofs ----------------------------
(***************************************************************************)
(* The hot cap, the admit lock and the removal of containers, for any      *)
(* number of projects, containers, mishaps and kills.                      *)
(*                                                                         *)
(* The cap is not inductive: between admission and the write of the row    *)
(* the drain has a place that no row shows, and it may have been promised  *)
(* that place by a row read before the lock, which the reconciler has      *)
(* deleted since.  Promised says when the drain has a place in hand, and   *)
(* Funded that the rows with that place stay within the cap.               *)
(***************************************************************************)
EXTENDS Fleet, FiniteSetTheorems, TLAPS

\* The drain has a project in hand.
InHand == drain.pc # "idle" => drain.p \in Projects

Promised == drain.seen # Nothing \/ drain.pc \in {"adopt", "promote", "start", "init", "claim"}

Funded == Promised => Cardinality(Hot \union {drain.p}) <= Cap

Inv == TypeOK /\ InHand

-----------------------------------------------------------------------------
(* Type correctness.                                                       *)

LEMMA TypeInit == Init => Inv
  BY BoundsAssumption DEF Init, Inv, TypeOK, InHand, Idle, Resting, DrainHolds, Drains, Passes

LEMMA WaitsType ==
  ASSUME asks \in [Projects -> {"none", "opens", "follows"}], Waits
  PROVE  asks' \in [Projects -> {"none", "opens", "follows"}]
  BY DEF Waits

\* Starting and initialising a container keep it one.
LEMMA StartedType ==
  ASSUME NEW b \in Boxes
  PROVE  Ready(b) \in Boxes /\ Started(b) \in Boxes /\ Ready(Started(b)) \in Boxes
  BY DEF Ready, Started, Boxes

\* Steps of the drain that touch neither docker nor the tables, the arrival
\* of deliveries and the closing of sessions.
LEMMA TypeLooks ==
  ASSUME Inv,
         \/ Pings \/ Inspects \/ FallsBack
         \/ \E p \in Projects : Arrives(p) \/ Closes(p) \/ Picks(p)
  PROVE  Inv'
<1> USE BoundsAssumption DEF Inv, TypeOK, InHand, Drains, Idle, DrainHolds, To, Under, fleet, bounds, Nothing
<1>1. CASE Pings
  BY <1>1 DEF Pings
<1>2. CASE Inspects
  BY <1>2 DEF Inspects, MayEnter, LockFree
<1>3. CASE FallsBack
  <2>1. box' \in [Projects -> Boxes \union {NoBox}]
    <3>1. ASSUME RowHolds(drain.p),
                 NEW b \in {Started(box[drain.p]), Ready(Started(box[drain.p]))},
                 box' = [box EXCEPT ![drain.p] = b]
          PROVE  box' \in [Projects -> Boxes \union {NoBox}]
      <4>1. drain.p \in Projects /\ box[drain.p] \in Boxes
        BY <1>3, <3>1 DEF FallsBack, RowHolds, Names, Exists
      <4> QED
        BY <3>1, <4>1, StartedType
    <3> QED
      BY <1>3, <3>1 DEF FallsBack
  <2>2. drain' \in Drains /\ faults' \in 0..MaxFaults /\ InHand' /\ packs' = Nobody
    BY <1>3 DEF FallsBack, Fault, NoFault
  <2> QED
    BY <1>3, <2>1, <2>2 DEF FallsBack
<1>4. ASSUME NEW p \in Projects, Arrives(p) PROVE Inv'
  BY <1>4 DEF Arrives
<1>5. ASSUME NEW p \in Projects, Closes(p) PROVE Inv'
  BY <1>5 DEF Closes
<1>6. ASSUME NEW p \in Projects, Picks(p) PROVE Inv'
  BY <1>6 DEF Picks
<1> QED
  BY <1>1, <1>2, <1>3, <1>4, <1>5, <1>6

\* Steps that give a delivery up for now or for good, and the turn.
LEMMA TypeLeaves ==
  ASSUME Inv, Refuses \/ BreaksOff \/ Fetches \/ TurnEnds
  PROVE  Inv'
<1> USE BoundsAssumption DEF Inv, InHand, Idle, fleet, bounds, Nothing
<1>1. CASE Refuses
  BY <1>1, WaitsType DEF Refuses, TypeOK, Drains, DrainHolds
<1>2. CASE BreaksOff
  <2>1. asks' \in [Projects -> {"none", "opens", "follows"}]
    BY <1>2, WaitsType DEF BreaksOff, TypeOK
  <2>2. box' \in [Projects -> Boxes \union {NoBox}]
    <3>1. ASSUME drain.pc = "init", Exists(drain.p),
                 NEW b \in {box[drain.p], Ready(box[drain.p])},
                 box' = [box EXCEPT ![drain.p] = b]
          PROVE  box' \in [Projects -> Boxes \union {NoBox}]
      <4>1. drain.p \in Projects /\ box[drain.p] \in Boxes
        BY <3>1 DEF Exists, TypeOK
      <4> QED
        BY <3>1, <4>1, StartedType DEF TypeOK
    <3> QED
      BY <1>2, <3>1 DEF BreaksOff, TypeOK, Under
  <2>3. faults' \in 0..MaxFaults
    BY <1>2 DEF BreaksOff, TypeOK, Fault, NoFault
  <2>4. drain' \in Drains /\ drain'.pc = "idle" /\ ~DrainHolds'
    BY <1>2 DEF BreaksOff, Drains, DrainHolds
  <2> QED
    BY <1>2, <2>1, <2>2, <2>3, <2>4 DEF BreaksOff, TypeOK
<1>3. CASE Fetches
  <2>1. asks' \in [Projects -> {"none", "opens", "follows"}]
    BY <1>3, WaitsType DEF Fetches, TypeOK
  <2>2. drain' \in Drains /\ ~DrainHolds' /\ InHand'
    <3>1. CASE drain' = Idle
      BY <3>1 DEF Drains, DrainHolds
    <3>2. CASE drain' = [drain EXCEPT !.pc = "works", !.seen = Nothing, !.then = "fetch"]
      BY <1>3, <3>2 DEF Fetches, TypeOK, Drains, DrainHolds
    <3> QED
      BY <1>3, <3>1, <3>2 DEF Fetches
  <2>3. open' \subseteq Projects
    BY <1>3 DEF Fetches, TypeOK, Under
  <2> QED
    BY <1>3, <2>1, <2>2, <2>3 DEF Fetches, TypeOK
<1>4. CASE TurnEnds
  <2>1. asks' \in [Projects -> {"none", "opens", "follows"}]
    BY <1>4, WaitsType DEF TurnEnds, TypeOK
  <2>2. drain' \in Drains /\ drain'.pc = "idle" /\ ~DrainHolds'
    BY <1>4 DEF TurnEnds, Drains, DrainHolds
  <2> QED
    BY <1>4, <2>1, <2>2 DEF TurnEnds, TypeOK
<1> QED
  BY <1>1, <1>2, <1>3, <1>4

\* Steps of the drain on docker and the tables, all under the lock.
LEMMA TypeActs ==
  ASSUME Inv, Adopts \/ Attaches \/ Promotes \/ Creates \/ Initialises \/ Claims
  PROVE  Inv'
<1> USE BoundsAssumption DEF Inv, InHand, Idle, bounds, Nothing, Under
<1>1. CASE Adopts
  BY <1>1 DEF Adopts, Records, To, TypeOK, Drains, DrainHolds
<1>2. CASE Attaches
  BY <1>2 DEF Attaches, Records, To, TypeOK, Drains, DrainHolds
<1>3. CASE Promotes
  <2>1. drain.p \in Projects /\ drain' \in Drains /\ InHand' /\ packs' = Nobody
    BY <1>3 DEF Promotes, To, TypeOK, Drains, DrainHolds
  <2>2. box' \in [Projects -> Boxes \union {NoBox}]
    <3>1. CASE RowHolds(drain.p)
      <4>1. box[drain.p] \in Boxes
        BY <2>1, <3>1 DEF RowHolds, Names, Exists, TypeOK
      <4>2. Ready(Started(box[drain.p])) \in Boxes
        BY <4>1, StartedType
      <4> QED
        BY <1>3, <3>1, <4>2 DEF Promotes, TypeOK
    <3> QED
      BY <1>3, <3>1 DEF Promotes, TypeOK
  <2> QED
    BY <1>3, <2>1, <2>2 DEF Promotes, TypeOK
<1>4. CASE Creates
  <2>1. drain.p \in Projects /\ drain' \in Drains /\ InHand' /\ packs' = Nobody
    BY <1>4 DEF Creates, To, TypeOK, Drains, DrainHolds
  <2>2. made' \in 0..MaxMade /\ made' \in Ids
    BY <1>4 DEF Creates, TypeOK, Ids
  <2>3. box' \in [Projects -> Boxes \union {NoBox}]
    BY <1>4, <2>1, <2>2 DEF Creates, TypeOK, Boxes
  <2> QED
    BY <1>4, <2>1, <2>2, <2>3 DEF Creates, TypeOK
<1>5. CASE Initialises
  <2>1. drain.p \in Projects /\ box[drain.p] \in Boxes
    BY <1>5 DEF Initialises, TypeOK, Drains, Exists
  <2>2. box' \in [Projects -> Boxes \union {NoBox}]
    BY <1>5, <2>1, StartedType DEF Initialises, TypeOK
  <2>3. drain' \in Drains /\ InHand' /\ packs' = Nobody
    BY <1>5, <2>1 DEF Initialises, TypeOK, Drains, DrainHolds, Boxes
  <2> QED
    BY <1>5, <2>1, <2>2, <2>3 DEF Initialises, Records, TypeOK
<1>6. CASE Claims
  <2>1. drain.p \in Projects /\ drain' \in Drains /\ InHand' /\ packs' = Nobody
    BY <1>6 DEF Claims, TypeOK, Drains, DrainHolds
  <2>2. row' \in [Projects -> Ids \union {Nothing}]
    BY <1>6 DEF Claims, TypeOK, Drains
  <2> QED
    BY <1>6, <2>1, <2>2 DEF Claims, TypeOK
<1> QED
  BY <1>1, <1>2, <1>3, <1>4, <1>5, <1>6

\* The reconciler reads and acts.
LEMMA TypePass ==
  ASSUME Inv, Reconciling
  PROVE  Inv'
<1> USE BoundsAssumption DEF Inv, InHand, bounds, fleet, Nothing
<1>1. CASE Lists
  <2>1. \A q \in Projects : Exists(q) => [p |-> q, id |-> box[q].id, old |-> box[q].old] \in Listings
    BY DEF TypeOK, Exists, Boxes, Listings
  <2>2. {[p |-> q, id |-> box[q].id, old |-> box[q].old] : q \in {r \in Projects : Exists(r)}}
          \subseteq Listings
    BY <2>1
  <2>3. pass' \in Passes
    BY <1>1, <2>2 DEF Lists, TypeOK, Passes
  <2> QED
    BY <1>1, <2>3 DEF Lists, TypeOK, DrainHolds
<1>2. CASE ReadsLive
  BY <1>2 DEF ReadsLive, TypeOK, Passes, DrainHolds
<1>3. CASE ReadsOpen
  BY <1>3 DEF ReadsOpen, TypeOK, Passes, DrainHolds
<1>4. CASE ReadsRows
  BY <1>4 DEF ReadsRows, TypeOK, Passes, DrainHolds
<1>5. ASSUME NEW c \in pass.doomed, Removes(c) PROVE Inv'
  <2>1. pass' \in Passes
    BY <1>5 DEF Removes, TypeOK, Passes
  <2>2. box' \in [Projects -> Boxes \union {NoBox}]
    BY <1>5 DEF Removes, TypeOK
  <2> QED
    BY <1>5, <2>1, <2>2 DEF Removes, TypeOK, DrainHolds
<1>6. ASSUME NEW p \in pass.stale, ClearsRow(p) PROVE Inv'
  BY <1>6 DEF ClearsRow, TypeOK, Passes, DrainHolds
<1>7. CASE PassEnds
  BY <1>7 DEF PassEnds, TypeOK, Passes, Resting, DrainHolds
<1> QED
  BY <1>1, <1>2, <1>3, <1>4, <1>5, <1>6, <1>7 DEF Reconciling

\* Garbage collection, time, mishaps and kills.
LEMMA TypeWorld ==
  ASSUME Inv,
         \/ \E p \in Projects : Packs(p) \/ Mishap(p)
         \/ Packed \/ TenMinutes \/ Crash
  PROVE  Inv'
<1> USE BoundsAssumption DEF Inv, InHand, bounds, fleet, Nothing
<1>1. ASSUME NEW p \in Projects, Packs(p) PROVE Inv'
  BY <1>1 DEF Packs, LockFree, TypeOK, DrainHolds
<1>2. ASSUME NEW p \in Projects, Mishap(p) PROVE Inv'
  <2>1. box[p] \in Boxes
    BY <1>2 DEF Mishap, Exists, TypeOK
  <2>2. Mishaps(box[p]) \subseteq Boxes \union {NoBox}
    BY <2>1 DEF Mishaps, Boxes
  <2>4. box' \in [Projects -> Boxes \union {NoBox}]
    BY <1>2, <2>2 DEF Mishap, TypeOK
  <2>3. faults' \in 0..MaxFaults
    BY <1>2 DEF Mishap, Fault, TypeOK
  <2> QED
    BY <1>2, <2>3, <2>4 DEF Mishap, TypeOK, DrainHolds
<1>3. CASE Packed
  BY <1>3 DEF Packed, TypeOK, DrainHolds
<1>4. CASE TenMinutes
  <2>1. box' \in [Projects -> Boxes \union {NoBox}]
    BY <1>4 DEF TenMinutes, TypeOK, Boxes, Exists
  <2> QED
    BY <1>4, <2>1 DEF TenMinutes, TypeOK, DrainHolds
<1>5. CASE Crash
  BY <1>5 DEF Crash, Fault, TypeOK, Idle, Resting, Drains, Passes, DrainHolds
<1> QED
  BY <1>1, <1>2, <1>3, <1>4, <1>5

LEMMA TypeStep == Inv /\ [Next]_vars => Inv'
<1> SUFFICES ASSUME Inv, [Next]_vars PROVE Inv'
  OBVIOUS
<1>1. CASE UNCHANGED vars
  BY <1>1 DEF vars, Inv, TypeOK, InHand, DrainHolds
<1>2. CASE Next
  BY <1>2, TypeLooks, TypeLeaves, TypeActs, TypePass, TypeWorld DEF Next, Draining
<1> QED
  BY <1>1, <1>2

\* Every state is well typed, and the lock has at most one holder.
THEOREM TypeCorrect == Spec => []TypeOK
<1>1. Inv => TypeOK
  BY DEF Inv
<1> QED
  BY <1>1, TypeInit, TypeStep, PTL DEF Spec

-----------------------------------------------------------------------------
(* The hot cap.                                                            *)

LEMMA HotFinite == IsFiniteSet(Hot) /\ Cardinality(Hot) \in Nat
  BY BoundsAssumption, FS_Subset, FS_CardinalityType DEF Hot

\* A set of projects within another has no more of them.
LEMMA WithinCap ==
  ASSUME NEW S \in SUBSET (Projects \union {Nobody}), NEW T \in SUBSET S, Cardinality(S) <= Cap
  PROVE  Cardinality(T) <= Cap
<1>1. IsFiniteSet(Projects \union {Nobody})
  BY BoundsAssumption, FS_AddElement
<1>2. IsFiniteSet(S) /\ IsFiniteSet(T) /\ Cardinality(T) <= Cardinality(S)
  BY <1>1, FS_Subset
<1> QED
  BY <1>2, BoundsAssumption, FS_CardinalityType

CapInv == Inv /\ HotWithinCap /\ Funded

LEMMA CapInit == Init => CapInv
<1> SUFFICES ASSUME Init PROVE CapInv
  OBVIOUS
<1>1. Hot = {} /\ ~Promised
  BY DEF Init, Hot, Promised, Idle
<1> QED
  BY <1>1, TypeInit, FS_EmptySet, BoundsAssumption DEF CapInv, HotWithinCap, Funded

\* Rows stay or go, and no new promise is made.
LEMMA CapKept ==
  ASSUME CapInv, Hot' \subseteq Hot, Promised' => Promised /\ drain'.p = drain.p
  PROVE  HotWithinCap' /\ Funded'
<1>1. Hot \union {drain.p} \subseteq Projects \union {Nobody} /\ Hot \subseteq Projects
  BY DEF CapInv, Inv, TypeOK, Drains, Hot
<1>2. HotWithinCap'
  BY <1>1, WithinCap DEF CapInv, HotWithinCap
<1>3. ASSUME Promised' PROVE Cardinality(Hot' \union {drain'.p}) <= Cap
  BY <1>1, <1>3, WithinCap DEF CapInv, Funded
<1> QED
  BY <1>2, <1>3 DEF Funded

\* The drain reads the row of a project that has one, or of one that has not.
LEMMA CapReads ==
  ASSUME CapInv, Hot' = Hot, drain'.p \in Projects,
         drain'.seen = row[drain'.p] \/ drain'.seen = Nothing,
         drain'.pc \in {"wants", "ping", "fetch"}
  PROVE  HotWithinCap' /\ Funded'
<1>1. HotWithinCap'
  BY DEF CapInv, HotWithinCap
<1>2. ASSUME Promised' PROVE Cardinality(Hot' \union {drain'.p}) <= Cap
  <2>1. drain'.p \in Hot
    BY <1>2 DEF Promised, Hot
  <2>2. Hot' \union {drain'.p} = Hot
    BY <2>1
  <2> QED
    BY <2>2 DEF CapInv, HotWithinCap
<1> QED
  BY <1>1, <1>2 DEF Funded

LEMMA CapStep == CapInv /\ [Next]_vars => CapInv'
<1> SUFFICES ASSUME CapInv, [Next]_vars PROVE HotWithinCap' /\ Funded'
  BY TypeStep DEF CapInv
<1> USE DEF fleet, bounds, To, Under
<1>d. drain \in Drains /\ Inv
  BY DEF CapInv, Inv, TypeOK
<1>1. CASE UNCHANGED vars
  BY <1>1, CapKept DEF vars, Hot, Promised
<1>2. ASSUME NEW p \in Projects, Picks(p) PROVE HotWithinCap' /\ Funded'
  BY <1>2, CapReads DEF Picks, Hot
<1>3. CASE Pings
  <2>1. drain.p \in Projects /\ drain'.p = drain.p /\ Hot' = Hot
    BY <1>3, <1>d DEF Pings, Inv, InHand, Drains, Hot
  <2>2. CASE drain' = [drain EXCEPT !.pc = "fetch", !.then = "fetch"]
    BY <1>3, <1>d, <2>1, <2>2, CapKept DEF Pings, Promised, Drains
  <2>3. CASE drain' = [drain EXCEPT !.pc = "wants", !.then = "fetch", !.seen = row[Under]]
    BY <1>d, <2>1, <2>3, CapReads DEF Drains
  <2> QED
    BY <1>3, <2>2, <2>3 DEF Pings
<1>4. CASE Inspects
  <2>1. Names(drain.p, drain.seen) => drain.seen # Nothing
    BY <1>4, <1>d DEF Inspects, Names, Exists, Inv, InHand, TypeOK, Boxes, Ids, Nothing
  <2>2. drain'.p = drain.p /\ Hot' = Hot /\ drain'.seen = drain.seen
    BY <1>4, <1>d DEF Inspects, Drains, Hot
  <2>3. drain'.pc \in {"adopt", "promote"} => Names(drain.p, drain.seen)
    BY <1>4, <1>d DEF Inspects, Drains
  <2>4. drain'.pc \in {"adopt", "promote", "admit"}
    BY <1>4, <1>d DEF Inspects, Drains
  <2> QED
    BY <2>1, <2>2, <2>3, <2>4, CapKept DEF Promised
<1>5. CASE Creates
  <2>1. drain.p \in Projects /\ drain'.p = drain.p /\ Hot' = Hot
    BY <1>5, <1>d DEF Creates, Inv, InHand, Drains, Hot
  <2>2. CASE drain.seen # Nothing
    BY <2>1, <2>2, CapKept DEF Promised
  <2>3. CASE ~Full
    <3>1. Cardinality(Hot \union {drain.p}) <= Cardinality(Hot) + 1
      <4>1. Cardinality(Hot \union {drain.p}) =
              IF drain.p \in Hot THEN Cardinality(Hot) ELSE Cardinality(Hot) + 1
        BY HotFinite, FS_AddElement
      <4> QED
        BY <4>1, HotFinite
    <3>2. Cap \in Nat /\ Cardinality(Hot) < Cap
      BY <2>3, HotFinite, BoundsAssumption DEF Full
    <3>3. IsFiniteSet(Hot \union {drain.p})
      BY HotFinite, FS_AddElement
    <3>4. Cardinality(Hot \union {drain.p}) <= Cap
      BY <3>1, <3>2, <3>3, HotFinite, FS_CardinalityType
    <3> QED
      BY <2>1, <3>4 DEF CapInv, HotWithinCap, Funded
  <2> QED
    BY <1>5, <2>2, <2>3 DEF Creates, Refused
<1>6. CASE Claims
  <2>1. drain.p \in Projects /\ drain'.p = drain.p /\ ~Promised'
    BY <1>6, <1>d DEF Claims, Inv, InHand, Drains, Promised
  <2>2. Hot' \subseteq Hot \union {drain.p}
    BY <1>6 DEF Claims, Hot
  <2>3. Cardinality(Hot \union {drain.p}) <= Cap
    BY <1>6 DEF CapInv, Funded, Promised, Claims
  <2>4. Hot \union {drain.p} \subseteq Projects \union {Nobody}
    BY <2>1 DEF Hot
  <2> QED
    BY <2>1, <2>2, <2>3, <2>4, WithinCap DEF HotWithinCap, Funded
<1>7. CASE Adopts \/ Attaches \/ Promotes \/ FallsBack \/ Initialises
  <2>1. Hot' = Hot /\ drain'.p = drain.p
    BY <1>7, <1>d DEF Adopts, Attaches, Promotes, FallsBack, Initialises, Hot, Drains
  <2>2. Promised
    BY <1>7 DEF Adopts, Attaches, Promotes, FallsBack, Initialises, Promised
  <2> QED
    BY <2>1, <2>2, CapKept
<1>8. CASE Refuses \/ BreaksOff \/ Fetches \/ TurnEnds
  <2>1. Hot' = Hot
    BY <1>8 DEF Refuses, BreaksOff, Fetches, TurnEnds, Hot
  <2>2. ~Promised'
    <3>1. CASE drain' = Idle
      BY <3>1 DEF Promised, Idle
    <3>2. CASE drain' = [drain EXCEPT !.pc = "works", !.seen = Nothing, !.then = "fetch"]
      BY <3>2, <1>d DEF Promised, Drains
    <3> QED
      BY <1>8, <3>1, <3>2 DEF Refuses, BreaksOff, Fetches, TurnEnds
  <2> QED
    BY <2>1, <2>2, CapKept
<1>9. CASE Reconciling
  <2>1. drain' = drain
    BY <1>9 DEF Reconciling, Lists, ReadsLive, ReadsOpen, ReadsRows, Removes, ClearsRow, PassEnds
  <2>2. ASSUME NEW q \in Hot' PROVE q \in Hot
    <3>1. row' = row \/ \E p \in pass.stale : row' = [row EXCEPT ![p] = Nothing]
      BY <1>9 DEF Reconciling, Lists, ReadsLive, ReadsOpen, ReadsRows, Removes, ClearsRow, PassEnds
    <3> QED
      BY <2>2, <3>1, <1>d DEF Hot, Inv, TypeOK
  <2> QED
    BY <2>1, <2>2, CapKept DEF Promised
<1>10. ASSUME NEW p \in Projects, Arrives(p) \/ Closes(p) \/ Packs(p) \/ Mishap(p)
       PROVE  HotWithinCap' /\ Funded'
  BY <1>10, CapKept DEF Arrives, Closes, Packs, Mishap, Hot, Promised
<1>11. CASE Packed \/ TenMinutes
  BY <1>11, CapKept DEF Packed, TenMinutes, Hot, Promised
<1>12. CASE Crash
  BY <1>12, CapKept DEF Crash, Hot, Promised, Idle
<1> QED
  BY <1>1, <1>2, <1>3, <1>4, <1>5, <1>6, <1>7, <1>8, <1>9, <1>10, <1>11, <1>12 DEF Next, Draining

\* Section 6.6: the rows never exceed the cap, however the reconciler deletes
\* them while the drain trusts one it has read before.
THEOREM CapHolds == Spec => []HotWithinCap
<1>1. CapInv => HotWithinCap
  BY DEF CapInv
<1> QED
  BY <1>1, CapInit, CapStep, PTL DEF Spec

-----------------------------------------------------------------------------
(* The admit lock.                                                         *)

PackInv == Inv /\ PackedAlone

LEMMA PackStep == PackInv /\ [Next]_vars => PackInv'
<1> SUFFICES ASSUME PackInv, [Next]_vars PROVE PackedAlone'
  BY TypeStep DEF PackInv
<1> USE DEF PackInv, PackedAlone, Inv, TypeOK, fleet, bounds
<1>1. CASE UNCHANGED vars
  BY <1>1 DEF vars
<1>2. ASSUME NEW p \in Projects, Packs(p) PROVE PackedAlone'
  BY <1>2 DEF Packs, Unused
<1>3. ASSUME NEW p \in Projects, Arrives(p) \/ Closes(p) \/ Picks(p) \/ Mishap(p)
      PROVE  PackedAlone'
  BY <1>3 DEF Arrives, Closes, Picks, Mishap
<1>4. CASE Adopts \/ Attaches \/ Initialises
  <2>1. packs' = Nobody
    BY <1>4 DEF Adopts, Attaches, Initialises, DrainHolds
  <2> QED
    BY <2>1
<1>5. CASE Pings \/ Inspects \/ Promotes \/ FallsBack \/ Refuses \/ Creates \/ BreaksOff
           \/ Claims \/ Fetches \/ TurnEnds
  BY <1>5 DEF Pings, Inspects, Promotes, FallsBack, Refuses, Creates, BreaksOff, Claims,
              Fetches, TurnEnds
<1>6. CASE Reconciling
  BY <1>6 DEF Reconciling, Lists, ReadsLive, ReadsOpen, ReadsRows, Removes, ClearsRow, PassEnds
<1>7. CASE Packed \/ TenMinutes \/ Crash
  BY <1>7 DEF Packed, TenMinutes, Crash
<1> QED
  BY <1>1, <1>2, <1>3, <1>4, <1>5, <1>6, <1>7 DEF Next, Draining

\* ADR-23: no session works in a clone, and none is attached to it, while git
\* gc packs it.
THEOREM PacksAlone == Spec => []PackedAlone
<1>1. Init => PackInv
  BY TypeInit DEF Init, PackInv, PackedAlone
<1>2. PackInv => PackedAlone
  BY DEF PackInv
<1> QED
  BY <1>1, <1>2, PackStep, PTL DEF Spec

-----------------------------------------------------------------------------
(***************************************************************************)
(* The removal of containers.  A pass dooms a container for what a row     *)
(* said; by the time it is removed the drain may have written that row.    *)
(* That it never names the doomed one rests on ages: what the drain holds  *)
(* and no row names is young, since time stands still for as long as it    *)
(* holds it, and a pass dooms nothing it listed as young.                  *)
(***************************************************************************)

Known == pass.listed \union pass.doomed

Numbered ==
    /\ \A p \in Projects : Exists(p) => box[p].id <= made
    /\ \A c \in Known : c.id <= made

\* What the drain has created and not yet initialised.
NewIsYoung ==
    \A p \in Projects : drain.pc = "init" /\ drain.p = p /\ Exists(p) =>
        /\ ~box[p].old
        /\ \A c \in Known : c.p = p /\ c.id = box[p].id => ~c.old

\* What the drain holds, unless the row names it.
StrayIsYoung ==
    \A p \in Projects :
        drain.p = p /\ Names(p, drain.seen) /\ drain.seen # row[p] => ~box[p].old

\* What was created since the pass listed the containers; if a row it is
\* about to clear names a container, it is one of these.
SuccessorIsYoung ==
    /\ pass.pc \in {"listed", "knowsLive", "knowsOpen"} =>
          \A p \in Projects : Exists(p) =>
             ~box[p].old \/ \E c \in pass.listed : c.p = p /\ c.id = box[p].id
    /\ pass.pc = "sweeps" => \A p \in pass.stale : RowHolds(p) => ~box[p].old

OldIsNamed ==
    pass.pc # "sweeps" => \A c \in pass.listed :
        c.old /\ drain.p = c.p /\ drain.seen = c.id => row[c.p] = c.id

DoomedUnnamed ==
    pass.pc = "sweeps" => \A c \in pass.doomed :
        /\ c.old
        /\ c.p \in pass.live => /\ row[c.p] # c.id
                                /\ drain.p = c.p => drain.seen # c.id

AgeInv == Inv /\ Numbered /\ NewIsYoung /\ StrayIsYoung /\ SuccessorIsYoung /\ OldIsNamed /\ DoomedUnnamed

LEMMA AgeInit == Init => AgeInv
  BY TypeInit DEF Init, AgeInv, Numbered, NewIsYoung, StrayIsYoung, SuccessorIsYoung, OldIsNamed,
     DoomedUnnamed, Known, Idle, Resting, Exists

\* A container is the one that was there, no older, unless it was created
\* now or time went by.
Stays(p) == Exists(p) /\ box'[p].id = box[p].id /\ (box'[p].old => box[p].old)
Born(p) == drain.p = p /\ Creates /\ box'[p].id = made + 1 /\ ~box'[p].old

LEMMA Lineage ==
  ASSUME Inv, [Next]_vars, ~TenMinutes, NEW p \in Projects, Exists(p)'
  PROVE  Stays(p) \/ Born(p)
<1> USE DEF fleet, bounds, Under, Stays
<1>b. box \in [Projects -> Boxes \union {NoBox}] /\ (drain.pc # "idle" => drain.p \in Projects)
  BY DEF Inv, TypeOK, InHand
<1>s. ASSUME Exists(p) PROVE box[p] \in Boxes
  BY <1>b, <1>s DEF Exists
<1>k. ASSUME box' = box PROVE Stays(p)
  BY <1>k DEF Exists
<1>n. ASSUME NEW q \in Projects, box' = [box EXCEPT ![q] = NoBox] PROVE Stays(p)
  BY <1>n, <1>b DEF Exists
<1>r. ASSUME NEW q \in Projects, Exists(q),
             NEW b \in {box[q], Ready(box[q]), Started(box[q]), Ready(Started(box[q]))} \union Mishaps(box[q]),
             box' = [box EXCEPT ![q] = b]
      PROVE  Stays(p)
  <2>1. CASE p # q
    BY <1>r, <1>b, <2>1 DEF Exists
  <2>2. CASE p = q
    <3>1. box'[p] = b /\ b # NoBox /\ box[p] \in Boxes
      BY <1>r, <1>b, <1>s, <2>2 DEF Exists
    <3> QED
      BY <1>r, <2>2, <3>1 DEF Ready, Started, Mishaps, Boxes
  <2> QED
    BY <2>1, <2>2
<1>1. CASE UNCHANGED vars
  BY <1>1, <1>k DEF vars
<1>2. ASSUME NEW q \in Projects, Mishap(q) PROVE Stays(p)
  BY <1>2, <1>r DEF Mishap
<1>3. CASE \/ Pings \/ Inspects \/ Adopts \/ Attaches \/ Refuses \/ Claims \/ Fetches \/ TurnEnds
           \/ Packed \/ Crash
           \/ \E q \in Projects : Arrives(q) \/ Closes(q) \/ Picks(q) \/ Packs(q)
  BY <1>3, <1>k DEF Pings, Inspects, Adopts, Attaches, Refuses, Claims, Fetches, TurnEnds,
     Packed, Crash, Arrives, Closes, Picks, Packs
<1>4. CASE Promotes \/ FallsBack
  BY <1>4, <1>b, <1>k, <1>r DEF Promotes, FallsBack, RowHolds, Names
<1>5. CASE Initialises \/ BreaksOff
  BY <1>5, <1>b, <1>k, <1>n, <1>r DEF Initialises, BreaksOff
<1>6. CASE Creates
  BY <1>6, <1>b DEF Creates, Exists, Born
<1>7. CASE Reconciling
  <2>1. ASSUME NEW c \in pass.doomed, Removes(c) PROVE Stays(p)
    <3>1. c.p \in Projects
      BY <2>1 DEF Inv, TypeOK, Passes, Listings
    <3> QED
      BY <2>1, <3>1, <1>k, <1>n DEF Removes
  <2> QED
    BY <1>7, <2>1, <1>k DEF Reconciling, Lists, ReadsLive, ReadsOpen, ReadsRows, ClearsRow, PassEnds
<1> QED
  BY <1>1, <1>2, <1>3, <1>4, <1>5, <1>6, <1>7 DEF Next, Draining

LEMMA PassMoves ==
  ASSUME Inv, [Next]_vars
  PROVE  \/ pass' = pass
         \/ pass' = Resting /\ box' = box /\ row' = row
         \/ (Lists \/ ReadsLive \/ ReadsOpen \/ ReadsRows)
         \/ \E c \in pass.doomed : Removes(c)
         \/ \E p \in pass.stale : ClearsRow(p)
<1> USE DEF fleet, bounds
<1>1. CASE UNCHANGED vars
  BY <1>1 DEF vars
<1>2. CASE Reconciling
  BY <1>2 DEF Reconciling, PassEnds
<1>3. CASE Draining
  BY <1>3 DEF Draining, Pings, Inspects, Adopts, Attaches, Promotes, FallsBack, Refuses, Creates,
     Initialises, BreaksOff, Claims, Fetches, TurnEnds
<1>4. CASE \/ Packed \/ TenMinutes \/ Crash
           \/ \E p \in Projects : Arrives(p) \/ Closes(p) \/ Picks(p) \/ Packs(p) \/ Mishap(p)
  BY <1>4 DEF Packed, TenMinutes, Crash, Arrives, Closes, Picks, Packs, Mishap
<1> QED
  BY <1>1, <1>2, <1>3, <1>4 DEF Next

\* What the drain holds: nothing new, what the row names, or what it has
\* just initialised.
Holds == row' = row /\ drain'.p = drain.p /\ drain'.seen = drain.seen
LetsGo == row' = row /\ drain'.seen = Nothing
Looks == row' = row /\ drain'.p \in Projects /\ drain'.seen = row[drain'.p]

LEMMA DrainMoves ==
  ASSUME Inv, [Next]_vars
  PROVE  \/ drain'.pc # "init" /\ (Holds \/ LetsGo \/ Looks)
         \/ drain'.pc = "init" /\ drain' = drain /\ row' = row
         \/ Creates \/ Initialises \/ Claims
         \/ \E p \in pass.stale : ClearsRow(p)
<1> USE DEF fleet, bounds, Holds, LetsGo, Looks, To, Under
<1>d. drain \in Drains /\ InHand
  BY DEF Inv, TypeOK
<1>1. CASE drain' = drain /\ row' = row
  BY <1>1
<1>2. CASE UNCHANGED vars
  BY <1>1, <1>2 DEF vars
<1>3. CASE Reconciling
  BY <1>1, <1>3 DEF Reconciling, Lists, ReadsLive, ReadsOpen, ReadsRows, Removes, PassEnds
<1>4. CASE \/ Packed \/ TenMinutes
           \/ \E p \in Projects : Arrives(p) \/ Closes(p) \/ Packs(p) \/ Mishap(p)
  BY <1>1, <1>4 DEF Packed, TenMinutes, Arrives, Closes, Packs, Mishap
<1>5. CASE Crash \/ Refuses \/ BreaksOff \/ TurnEnds
  BY <1>5, <1>d DEF Crash, Refuses, BreaksOff, TurnEnds, Idle
<1>6. ASSUME NEW p \in Projects, Picks(p)
      PROVE  drain'.pc # "init" /\ (Holds \/ LetsGo \/ Looks)
  BY <1>6 DEF Picks
<1>7. CASE Pings
  <2>1. CASE drain' = [drain EXCEPT !.pc = "fetch", !.then = "fetch"]
    BY <1>7, <1>d, <2>1 DEF Pings, Drains
  <2>2. CASE drain' = [drain EXCEPT !.pc = "wants", !.then = "fetch", !.seen = row[Under]]
    BY <1>7, <1>d, <2>2 DEF Pings, Drains, InHand
  <2> QED
    BY <1>7, <2>1, <2>2 DEF Pings
<1>8. CASE Fetches
  <2>1. CASE drain' = Idle
    BY <1>8, <2>1 DEF Fetches, Idle
  <2>2. CASE drain' = [drain EXCEPT !.pc = "works", !.seen = Nothing, !.then = "fetch"]
    BY <1>8, <1>d, <2>2 DEF Fetches, Drains
  <2> QED
    BY <1>8, <2>1, <2>2 DEF Fetches
<1>9. CASE Inspects \/ Adopts \/ Attaches \/ Promotes \/ FallsBack
  BY <1>9, <1>d DEF Inspects, Adopts, Attaches, Promotes, FallsBack, Drains
<1> QED
  BY <1>2, <1>3, <1>4, <1>5, <1>6, <1>7, <1>8, <1>9 DEF Next, Draining

LEMMA MadeGrows == ASSUME Inv, [Next]_vars PROVE made' \in Nat /\ made \in Nat /\ made <= made'
<1> USE DEF fleet, bounds
<1>m. made \in Nat
  BY BoundsAssumption DEF Inv, TypeOK
<1>1. CASE made' = made
  BY <1>1, <1>m
<1>2. CASE Creates
  BY <1>2, <1>m DEF Creates
<1>3. CASE Draining
  BY <1>3, <1>1, <1>2 DEF Draining, Pings, Inspects, Adopts, Attaches, Promotes, FallsBack, Refuses,
     Initialises, BreaksOff, Claims, Fetches, TurnEnds
<1>4. CASE Reconciling
  BY <1>4, <1>1 DEF Reconciling, Lists, ReadsLive, ReadsOpen, ReadsRows, Removes, ClearsRow, PassEnds
<1>5. CASE \/ Packed \/ TenMinutes \/ Crash \/ UNCHANGED vars
           \/ \E p \in Projects : Arrives(p) \/ Closes(p) \/ Picks(p) \/ Packs(p) \/ Mishap(p)
  BY <1>5, <1>1 DEF Packed, TenMinutes, Crash, Arrives, Closes, Picks, Packs, Mishap, vars
<1> QED
  BY <1>3, <1>4, <1>5 DEF Next

LEMMA KnownMoves ==
  ASSUME Inv, [Next]_vars
  PROVE  Known' \subseteq Known \/ Lists
<1>p. pass \in Passes
  BY DEF Inv, TypeOK
<1>1. CASE pass' = pass \/ pass' = Resting
  BY <1>1 DEF Known, Resting
<1>2. CASE ReadsLive \/ ReadsOpen
  <2>1. pass'.doomed = pass.doomed /\ pass'.listed = pass.listed
    BY <1>2, <1>p DEF ReadsLive, ReadsOpen, Passes
  <2> QED
    BY <2>1 DEF Known
<1>3. CASE ReadsRows
  <2>1. pass'.doomed \subseteq pass.listed /\ pass'.listed = {}
    BY <1>3, <1>p DEF ReadsRows, Passes
  <2> QED
    BY <2>1 DEF Known
<1>4. ASSUME NEW c \in pass.doomed, Removes(c) PROVE Known' \subseteq Known
  BY <1>4, <1>p DEF Removes, Known, Passes
<1>5. ASSUME NEW q \in pass.stale, ClearsRow(q) PROVE Known' \subseteq Known
  BY <1>5, <1>p DEF ClearsRow, Known, Passes
<1> QED
  BY <1>1, <1>2, <1>3, <1>4, <1>5, PassMoves

LEMMA NumberedStep == AgeInv /\ [Next]_vars => Numbered'
<1> SUFFICES ASSUME AgeInv, [Next]_vars PROVE Numbered'
  OBVIOUS
<1>m. Inv /\ Inv' /\ made' \in Nat /\ made \in Nat /\ made <= made'
  BY MadeGrows, TypeStep DEF AgeInv
<1>1. ASSUME NEW p \in Projects, Exists(p)' PROVE box'[p].id <= made'
  <2>1. CASE TenMinutes
    <3>1. Exists(p) /\ box'[p].id = box[p].id /\ made' = made
      BY <1>1, <1>m, <2>1 DEF TenMinutes, Exists, Inv, TypeOK, Boxes
    <3> QED
      BY <3>1 DEF AgeInv, Numbered
  <2>2. CASE Stays(p)
    <3>1. box[p].id \in Nat
      BY <1>m, <2>2, BoundsAssumption DEF Stays, Exists, Inv, TypeOK, Boxes, Ids
    <3> QED
      BY <2>2, <3>1, <1>m DEF Stays, AgeInv, Numbered
  <2>3. CASE Born(p)
    BY <2>3, <1>m DEF Born, Creates
  <2> QED
    BY <1>m, <1>1, <2>1, <2>2, <2>3, Lineage
<1>2. ASSUME NEW c \in Known' PROVE c.id <= made'
  <2>1. CASE c \in Known
    <3>1. c.id \in Nat
      BY <1>m, <2>1, BoundsAssumption DEF Known, Inv, TypeOK, Passes, Listings, Ids
    <3> QED
      BY <2>1, <3>1, <1>m DEF AgeInv, Numbered
  <2>2. CASE Lists
    <3>1. pass'.listed = {[p |-> p, id |-> box[p].id, old |-> box[p].old] : p \in {q \in Projects : Exists(q)}}
      BY <2>2, <1>m DEF Lists, Inv, TypeOK, Passes
    <3>2. pass'.doomed = pass.doomed /\ made' = made
      BY <2>2, <1>m DEF Lists, Inv, TypeOK, Passes, fleet
    <3> QED
      BY <2>1, <3>1, <3>2, <1>2 DEF AgeInv, Numbered, Known
  <2> QED
    BY <1>2, <1>m, <2>1, <2>2, KnownMoves
<1> QED
  BY <1>1, <1>2 DEF Numbered

\* A listing is of a container that exists as it says.
LEMMA Listed ==
  ASSUME Inv, Lists, NEW c \in pass'.listed
  PROVE  /\ c.p \in Projects /\ Exists(c.p)
         /\ c.id = box[c.p].id /\ c.old = box[c.p].old
<1>1. pass'.listed = {[p |-> p, id |-> box[p].id, old |-> box[p].old] : p \in {q \in Projects : Exists(q)}}
  BY DEF Lists, Inv, TypeOK, Passes
<1> QED
  BY <1>1

LEMMA NewIsYoungStep == AgeInv /\ [Next]_vars => NewIsYoung'
<1> SUFFICES ASSUME AgeInv, [Next]_vars, NEW p \in Projects,
                    drain'.pc = "init", drain'.p = p, Exists(p)'
             PROVE  /\ ~box'[p].old
                    /\ \A c \in Known' : c.p = p /\ c.id = box'[p].id => ~c.old
  BY DEF NewIsYoung, Exists
<1>i. Inv /\ drain \in Drains /\ pass \in Passes /\ made \in Nat
  BY MadeGrows DEF AgeInv, Inv, TypeOK
<1>1. CASE drain' = drain
  <2>1. ~TenMinutes /\ ~Creates
    BY <1>1, <1>i DEF TenMinutes, DrainActs, Creates, To, Drains
  <2>2. Stays(p)
    BY <2>1, <1>i, Lineage DEF Born
  <2>3. Exists(p) /\ ~box[p].old /\ ~box'[p].old /\ box'[p].id = box[p].id
    BY <1>1, <2>2 DEF Stays, AgeInv, NewIsYoung
  <2>4. ASSUME NEW c \in Known', c.p = p, c.id = box'[p].id PROVE ~c.old
    <3>1. CASE c \in Known
      BY <1>1, <2>3, <2>4, <3>1 DEF AgeInv, NewIsYoung
    <3>2. CASE Lists
      <4>1. pass'.doomed = pass.doomed
        BY <3>2, <1>i DEF Lists, Passes
      <4>2. CASE c \in pass'.listed
        BY <3>2, <4>2, <2>3, <2>4, <1>i, Listed
      <4> QED
        BY <2>4, <4>1, <4>2, <3>1 DEF Known
    <3> QED
      BY <2>4, <3>1, <3>2, <1>i, KnownMoves
  <2> QED
    BY <2>3, <2>4
<1>2. CASE Creates
  <2>1. drain.p = p /\ pass' = pass
    BY <1>2, <1>i DEF Creates, To, Drains
  <2>2. box'[p].id = made + 1 /\ ~box'[p].old
    BY <1>2, <2>1, <1>i DEF Creates, Under, Inv, TypeOK
  <2>3. \A c \in Known' : c.id <= made /\ c.id \in Nat
    BY <2>1, <1>i, BoundsAssumption DEF AgeInv, Numbered, Known, Passes, Listings, Ids
  <2> QED
    BY <2>2, <2>3, <1>i
<1>3. CASE Initialises \/ Claims
  BY <1>3, <1>i DEF Initialises, Claims, Drains
<1>4. ASSUME NEW q \in pass.stale, ClearsRow(q) PROVE drain' = drain
  BY <1>4 DEF ClearsRow
<1> QED
  BY <1>1, <1>2, <1>3, <1>4, <1>i, DrainMoves

LEMMA StrayIsYoungStep == AgeInv /\ [Next]_vars => StrayIsYoung'
<1> SUFFICES ASSUME AgeInv, [Next]_vars, NEW p \in Projects,
                    drain'.p = p, Exists(p)', box'[p].id = drain'.seen, drain'.seen # row'[p]
             PROVE  ~box'[p].old
  BY DEF StrayIsYoung, Names, Exists
<1>i. Inv /\ drain \in Drains /\ pass \in Passes
  BY DEF AgeInv, Inv, TypeOK
<1>n. drain'.seen # Nothing
  <2>1. box'[p] \in Boxes
    BY <1>i, TypeStep DEF Inv, TypeOK, Exists
  <2> QED
    BY <2>1, BoundsAssumption DEF Boxes, Ids, Nothing
<1>1. CASE Holds
  <2>1. ~TenMinutes
    BY <1>1, <1>n DEF TenMinutes, DrainActs, Holds
  <2>2. CASE Stays(p)
    BY <1>1, <2>2 DEF Stays, Holds, AgeInv, StrayIsYoung, Names
  <2> QED
    BY <2>1, <2>2, <1>i, Lineage DEF Born
<1>2. CASE Creates
  BY <1>1, <1>2, <1>i DEF Creates, To, Holds, Drains, fleet
<1>3. CASE Initialises
  <2>1. drain.pc = "init" /\ drain.p = p /\ Exists(p)
    BY <1>3, <1>i DEF Initialises, Drains, Under
  <2>2. ~box[p].old
    BY <2>1 DEF AgeInv, NewIsYoung
  <2>3. box'[p] = Ready(box[p]) /\ box[p] \in Boxes
    BY <1>3, <2>1, <1>i DEF Initialises, Inv, TypeOK, Under, Exists
  <2> QED
    BY <2>2, <2>3 DEF Ready, Boxes
<1>4. CASE Claims
  BY <1>4, <1>n, <1>i DEF Claims, Drains
<1>5. ASSUME NEW q \in pass.stale, ClearsRow(q) PROVE ~box'[p].old
  <2>1. box' = box /\ drain' = drain /\ row' = [row EXCEPT ![q] = Nothing] /\ pass.pc = "sweeps"
    BY <1>5 DEF ClearsRow
  <2>2. Names(p, drain.seen) /\ drain.p = p
    BY <2>1 DEF Names, Exists
  <2>3. CASE drain.seen # row[p]
    BY <2>1, <2>2, <2>3 DEF AgeInv, StrayIsYoung
  <2>4. CASE drain.seen = row[p]
    <3>1. q = p /\ RowHolds(p)
      BY <2>1, <2>2, <2>4, <1>n, <1>i DEF RowHolds, Inv, TypeOK
    <3> QED
      BY <2>1, <3>1 DEF AgeInv, SuccessorIsYoung
  <2> QED
    BY <2>3, <2>4
<1>6. CASE Looks \/ LetsGo
  BY <1>6, <1>n DEF Looks, LetsGo
<1> QED
  BY <1>1, <1>2, <1>3, <1>4, <1>5, <1>6, <1>i, DrainMoves DEF Holds

\* A pass that has read the rows had read them before, or reads them now.
LEMMA PassSweeps ==
  ASSUME Inv, [Next]_vars, pass'.pc = "sweeps"
  PROVE  \/ ReadsRows
         \/ /\ pass.pc = "sweeps" /\ pass'.live = pass.live
            /\ pass'.stale \subseteq pass.stale /\ pass'.doomed \subseteq pass.doomed
<1>p. pass \in Passes
  BY DEF Inv, TypeOK
<1>1. CASE pass' = pass
  BY <1>1
<1>2. CASE pass' = Resting
  BY <1>2 DEF Resting
<1>3. CASE Lists \/ ReadsLive \/ ReadsOpen
  <2>1. pass'.pc \in {"listed", "knowsLive", "knowsOpen"}
    BY <1>3, <1>p DEF Lists, ReadsLive, ReadsOpen, Passes
  <2> QED
    BY <2>1
<1>4. ASSUME NEW c \in pass.doomed, Removes(c)
      PROVE  /\ pass.pc = "sweeps" /\ pass'.live = pass.live
             /\ pass'.stale \subseteq pass.stale /\ pass'.doomed \subseteq pass.doomed
  BY <1>4, <1>p DEF Removes, Passes
<1>5. ASSUME NEW q \in pass.stale, ClearsRow(q)
      PROVE  /\ pass.pc = "sweeps" /\ pass'.live = pass.live
             /\ pass'.stale \subseteq pass.stale /\ pass'.doomed \subseteq pass.doomed
  BY <1>5, <1>p DEF ClearsRow, Passes
<1> QED
  BY <1>1, <1>2, <1>3, <1>4, <1>5, PassMoves

\* A pass that has listed the containers had listed them before, or lists
\* them now.
LEMMA PassReads ==
  ASSUME Inv, [Next]_vars, pass'.pc \in {"listed", "knowsLive", "knowsOpen"}
  PROVE  \/ Lists
         \/ /\ pass.pc \in {"listed", "knowsLive", "knowsOpen"}
            /\ pass'.listed = pass.listed
<1>p. pass \in Passes
  BY DEF Inv, TypeOK
<1>1. CASE pass' = pass
  BY <1>1
<1>2. CASE pass' = Resting
  BY <1>2 DEF Resting
<1>3. CASE ReadsRows
  <2>1. pass'.pc = "sweeps"
    BY <1>3, <1>p DEF ReadsRows, Passes
  <2> QED
    BY <2>1
<1>4. CASE ReadsLive \/ ReadsOpen
  <2>1. pass.pc \in {"listed", "knowsLive"} /\ pass'.listed = pass.listed
    BY <1>4, <1>p DEF ReadsLive, ReadsOpen, Passes
  <2> QED
    BY <2>1
<1>5. ASSUME NEW c \in pass.doomed, Removes(c) PROVE FALSE
  BY <1>5, <1>p DEF Removes, Passes
<1>6. ASSUME NEW q \in pass.stale, ClearsRow(q) PROVE FALSE
  BY <1>6, <1>p DEF ClearsRow, Passes
<1> QED
  BY <1>1, <1>2, <1>3, <1>4, <1>5, <1>6, PassMoves

LEMMA SuccessorIsYoungStep == AgeInv /\ [Next]_vars => SuccessorIsYoung'
<1> SUFFICES ASSUME AgeInv, [Next]_vars PROVE SuccessorIsYoung'
  OBVIOUS
<1>i. Inv /\ drain \in Drains /\ pass \in Passes
  BY DEF AgeInv, Inv, TypeOK
<1>1. ASSUME pass'.pc \in {"listed", "knowsLive", "knowsOpen"}, NEW p \in Projects, Exists(p)'
      PROVE  ~box'[p].old \/ \E c \in pass'.listed : c.p = p /\ c.id = box'[p].id
  <2>1. CASE Lists
    <3>1. pass'.listed = {[p |-> q, id |-> box[q].id, old |-> box[q].old] :
                             q \in {r \in Projects : Exists(r)}}
      BY <2>1, <1>i DEF Lists, Passes
    <3>2. box' = box /\ Exists(p)
      BY <1>1, <2>1 DEF Lists, fleet, Exists
    <3>3. [p |-> p, id |-> box[p].id, old |-> box[p].old] \in pass'.listed
      BY <3>1, <3>2
    <3>4. PICK c \in pass'.listed : c = [p |-> p, id |-> box[p].id, old |-> box[p].old]
      BY <3>3
    <3> QED
      BY <3>2, <3>4
  <2>2. CASE /\ pass.pc \in {"listed", "knowsLive", "knowsOpen"}
             /\ pass'.listed = pass.listed
    <3>1. ~TenMinutes
      BY <2>2 DEF TenMinutes, PassActs
    <3>2. CASE Stays(p)
      BY <2>2, <3>2 DEF Stays, AgeInv, SuccessorIsYoung
    <3> QED
      BY <1>1, <3>1, <3>2, <1>i, Lineage DEF Born
  <2> QED
    BY <1>1, <2>1, <2>2, <1>i, PassReads
<1>2. ASSUME pass'.pc = "sweeps", NEW p \in pass'.stale, p \in Projects, RowHolds(p)'
      PROVE  ~box'[p].old
  <2>r. row'[p] # Nothing /\ Exists(p)' /\ box'[p].id = row'[p]
    BY <1>2 DEF RowHolds, Names
  <2>1. CASE ReadsRows
    <3>1. NotListed(p) /\ box' = box /\ row' = row /\ Exists(p)
      BY <1>2, <2>1, <2>r, <1>i DEF ReadsRows, Passes, Unlisted, fleet, Exists
    <3> QED
      BY <1>2, <2>1, <2>r, <3>1 DEF ReadsRows, NotListed, AgeInv, SuccessorIsYoung
  <2>2. CASE pass.pc = "sweeps" /\ pass'.stale \subseteq pass.stale
    <3>1. p \in pass.stale /\ ~TenMinutes
      BY <1>2, <2>2 DEF TenMinutes, PassActs
    <3>2. CASE Born(p)
      BY <3>2 DEF Born
    <3>3. CASE Stays(p) /\ row'[p] = row[p]
      BY <2>2, <2>r, <3>1, <3>3 DEF Stays, RowHolds, Names, AgeInv, SuccessorIsYoung
    <3>4. CASE Stays(p) /\ Claims
      <4>1. CASE drain.p = p
        <5>1. Names(p, drain.seen)
          BY <2>r, <3>4, <4>1, <1>2, <1>i DEF Claims, Under, Stays, Names, Inv, TypeOK
        <5>2. CASE drain.seen = row[p]
          BY <2>r, <3>3, <3>4, <4>1, <5>2, <1>2, <1>i DEF Claims, Under, Inv, TypeOK
        <5>3. CASE drain.seen # row[p]
          BY <1>2, <3>4, <4>1, <5>1, <5>3 DEF Stays, AgeInv, StrayIsYoung
        <5> QED
          BY <5>2, <5>3
      <4>2. CASE drain.p # p
        BY <3>3, <3>4, <4>2, <1>2, <1>i DEF Claims, Under, Inv, TypeOK
      <4> QED
        BY <4>1, <4>2
    <3>5. ASSUME Stays(p), NEW q \in pass.stale, ClearsRow(q) PROVE ~box'[p].old
      <4>1. row' = [row EXCEPT ![q] = Nothing] /\ row \in [Projects -> Ids \union {Nothing}]
        BY <3>5, <1>i DEF ClearsRow, Inv, TypeOK
      <4> QED
        BY <4>1, <3>3, <3>5, <2>r, <1>2
    <3>6. row' = row \/ Claims \/ \E q \in pass.stale : ClearsRow(q)
      BY <1>i, DrainMoves DEF Holds, LetsGo, Looks, Creates, Initialises, fleet
    <3>7. Stays(p) \/ Born(p)
      BY <1>2, <2>r, <3>1, <1>i, Lineage
    <3> QED
      BY <3>2, <3>3, <3>4, <3>5, <3>6, <3>7
  <2> QED
    BY <1>2, <2>1, <2>2, <1>i, PassSweeps
<1>3. pass'.stale \subseteq Projects
  BY <1>i, TypeStep DEF Inv, TypeOK, Passes
<1> QED
  BY <1>1, <1>2, <1>3 DEF SuccessorIsYoung, Exists

LEMMA OldIsNamedStep == AgeInv /\ [Next]_vars => OldIsNamed'
<1> SUFFICES ASSUME AgeInv, [Next]_vars, pass'.pc # "sweeps", NEW c \in pass'.listed, c.old,
                    drain'.p = c.p, drain'.seen = c.id
             PROVE  row'[c.p] = c.id
  BY DEF OldIsNamed
<1>i. Inv /\ drain \in Drains /\ pass \in Passes
  BY DEF AgeInv, Inv, TypeOK
<1>c. c \in Listings /\ c.p \in Projects /\ c.id # Nothing
  BY <1>i, TypeStep, BoundsAssumption DEF Inv, TypeOK, Passes, Listings, Ids, Nothing
<1>1. CASE Lists
  <2>1. Exists(c.p) /\ c.id = box[c.p].id /\ c.old = box[c.p].old
    BY <1>1, <1>i, Listed
  <2>2. row' = row /\ drain' = drain
    BY <1>1 DEF Lists, fleet
  <2>3. Names(c.p, drain.seen) /\ drain.p = c.p
    BY <2>1, <2>2 DEF Names
  <2> QED
    BY <2>1, <2>2, <2>3, <1>c DEF AgeInv, StrayIsYoung
<1>2. CASE pass.pc # "sweeps" /\ c \in pass.listed
  <2>1. CASE Holds
    BY <1>2, <2>1 DEF Holds, AgeInv, OldIsNamed
  <2>2. CASE LetsGo \/ Looks
    BY <2>2, <1>c DEF LetsGo, Looks
  <2>3. CASE Creates
    BY <2>1, <2>3, <1>i DEF Creates, To, Holds, Drains, fleet
  <2>4. CASE Initialises
    <3>1. drain.pc = "init" /\ drain.p = c.p /\ Exists(c.p) /\ c.id = box[c.p].id
      BY <2>4, <1>i DEF Initialises, Drains, Under
    <3> QED
      BY <1>2, <1>c, <3>1 DEF AgeInv, NewIsYoung, Known
  <2>5. CASE Claims
    BY <2>5, <1>c, <1>i DEF Claims, Drains
  <2>6. ASSUME NEW q \in pass.stale, ClearsRow(q) PROVE FALSE
    BY <1>2, <2>6 DEF ClearsRow
  <2> QED
    BY <2>1, <2>2, <2>3, <2>4, <2>5, <2>6, <1>i, DrainMoves DEF Holds
<1>3. \/ Lists
      \/ pass.pc # "sweeps" /\ c \in pass.listed
  <2>1. CASE pass' = pass
    BY <2>1
  <2>2. CASE ReadsLive \/ ReadsOpen \/ ReadsRows
    BY <2>2, <1>i DEF ReadsLive, ReadsOpen, ReadsRows, Passes
  <2>3. CASE pass' = Resting
    BY <2>3 DEF Resting
  <2>4. ASSUME NEW d \in pass.doomed, Removes(d) PROVE FALSE
    BY <2>4, <1>i DEF Removes, Passes
  <2>5. ASSUME NEW q \in pass.stale, ClearsRow(q) PROVE FALSE
    BY <2>5, <1>i DEF ClearsRow, Passes
  <2> QED
    BY <2>1, <2>2, <2>3, <2>4, <2>5, <1>i, PassMoves
<1> QED
  BY <1>1, <1>2, <1>3

LEMMA DoomedUnnamedStep == AgeInv /\ [Next]_vars => DoomedUnnamed'
<1> SUFFICES ASSUME AgeInv, [Next]_vars, pass'.pc = "sweeps", NEW c \in pass'.doomed
             PROVE  /\ c.old
                    /\ c.p \in pass'.live => /\ row'[c.p] # c.id
                                             /\ drain'.p = c.p => drain'.seen # c.id
  BY DEF DoomedUnnamed
<1>i. Inv /\ drain \in Drains /\ pass \in Passes /\ row \in [Projects -> Ids \union {Nothing}]
  BY DEF AgeInv, Inv, TypeOK
<1>c. c \in Listings /\ c.p \in Projects /\ c.id # Nothing
  BY <1>i, TypeStep, BoundsAssumption DEF Inv, TypeOK, Passes, Listings, Ids, Nothing
<1>1. CASE ReadsRows
  <2>1. c \in pass.listed /\ Doomed(c) /\ pass.pc # "sweeps"
    BY <1>1, <1>i DEF ReadsRows, Passes
  <2>2. row' = row /\ drain' = drain /\ pass'.live = pass.live
    BY <1>1, <1>i DEF ReadsRows, fleet, Passes
  <2> QED
    BY <2>1, <2>2 DEF Doomed, Kept, Spared, AgeInv, OldIsNamed
<1>2. CASE pass.pc = "sweeps" /\ pass'.live = pass.live /\ c \in pass.doomed
  <2>o. /\ c.old
        /\ c.p \in pass.live => /\ row[c.p] # c.id
                                /\ drain.p = c.p => drain.seen # c.id
    BY <1>2 DEF AgeInv, DoomedUnnamed
  <2>1. CASE Holds
    BY <1>2, <2>o, <2>1 DEF Holds
  <2>2. CASE LetsGo \/ Looks
    BY <1>2, <2>o, <2>2, <1>c DEF LetsGo, Looks
  <2>3. CASE Creates
    BY <2>1, <2>3, <1>i DEF Creates, To, Holds, Drains, fleet
  <2>4. CASE Initialises
    <3>1. /\ drain.pc = "init" /\ drain'.p = drain.p /\ row' = row
          /\ Exists(drain.p) /\ drain'.seen = box[drain.p].id
      BY <2>4, <1>i DEF Initialises, Drains, Under
    <3>2. drain.p = c.p => box[c.p].id # c.id
      BY <1>2, <1>c, <2>o, <3>1 DEF AgeInv, NewIsYoung, Known
    <3> QED
      BY <1>2, <2>o, <3>1, <3>2
  <2>5. CASE Claims
    <3>1. drain'.seen = Nothing /\ row' = [row EXCEPT ![drain.p] = drain.seen]
      BY <2>5, <1>i DEF Claims, Drains, Under
    <3> QED
      BY <1>2, <1>c, <1>i, <2>o, <3>1
  <2>6. ASSUME NEW q \in pass.stale, ClearsRow(q)
        PROVE  c.p \in pass'.live => /\ row'[c.p] # c.id
                                     /\ drain'.p = c.p => drain'.seen # c.id
    BY <1>2, <1>c, <1>i, <2>o, <2>6 DEF ClearsRow
  <2> QED
    BY <2>o, <2>1, <2>2, <2>3, <2>4, <2>5, <2>6, <1>i, DrainMoves DEF Holds
<1> QED
  BY <1>1, <1>2, <1>i, PassSweeps

LEMMA AgeStep == AgeInv /\ [Next]_vars => AgeInv'
  BY TypeStep, NumberedStep, NewIsYoungStep, StrayIsYoungStep, SuccessorIsYoungStep,
     OldIsNamedStep, DoomedUnnamedStep DEF AgeInv

\* No pass removes the container of a turn at work in a project it has read
\* as live, whatever was written, created or restarted since it began.
LEMMA RemovalSpares ==
  AgeInv /\ [Next]_vars =>
    \A p \in pass.live :
       (drain.pc = "works" /\ Under = p /\ Serviceable(p, row[p]) /\ pass.doomed' # pass.doomed)
       => Serviceable(p, row[p])'
<1> SUFFICES ASSUME AgeInv, [Next]_vars, NEW p \in pass.live, Serviceable(p, row[p]),
                    pass.doomed' # pass.doomed
             PROVE  Serviceable(p, row[p])'
  OBVIOUS
<1>i. Inv /\ pass \in Passes
  BY DEF AgeInv, Inv, TypeOK
<1>1. ASSUME box'[p] = box[p], row' = row PROVE Serviceable(p, row[p])'
  BY <1>1 DEF Serviceable, Names, Exists
<1>2. ASSUME NEW c \in pass.doomed, Removes(c) PROVE Serviceable(p, row[p])'
  <2>1. c.p \in Projects /\ row' = row /\ pass.pc = "sweeps" /\ p \in Projects
    BY <1>2, <1>i DEF Removes, Passes, Listings
  <2>2. ~(c.p = p /\ Names(c.p, c.id))
    BY <1>2, <2>1 DEF AgeInv, DoomedUnnamed, Serviceable, Names
  <2>3. box'[p] = box[p]
    BY <1>2, <1>i, <2>1, <2>2 DEF Removes, Inv, TypeOK
  <2> QED
    BY <1>1, <2>1, <2>3
<1>3. CASE Lists \/ ReadsLive \/ ReadsOpen \/ ReadsRows
  BY <1>1, <1>3 DEF Lists, ReadsLive, ReadsOpen, ReadsRows, fleet
<1>4. ASSUME NEW q \in pass.stale, ClearsRow(q) PROVE FALSE
  BY <1>4, <1>i DEF ClearsRow, Passes
<1>5. CASE pass' = Resting /\ box' = box /\ row' = row
  BY <1>1, <1>5
<1> QED
  BY <1>2, <1>3, <1>4, <1>5, <1>i, PassMoves

\* The reconciler takes no container from under a turn.
THEOREM TurnsKeepTheirContainer == Spec => LiveTurnKept
<1>1. ASSUME AgeInv, [Next]_vars
      PROVE  [\A p \in pass.live :
                (/\ drain.pc = "works" /\ Under = p /\ Serviceable(p, row[p])
                 /\ pass.doomed' # pass.doomed)
                => Serviceable(p, row[p])']_vars
  BY <1>1, RemovalSpares
<1> QED
  BY <1>1, AgeInit, AgeStep, PTL DEF Spec, LiveTurnKept

=============================================================================
