----------------------------- MODULE RefsProofs -----------------------------
(***************************************************************************)
(* Proofs, for every set of screens, calls and changes, that an act bound  *)
(* to a ref hits the node it was shown for, that the state keeps its       *)
(* type, and that a retry by a name hits no other node than the one meant. *)
(***************************************************************************)
EXTENDS Refs, FiniteSetTheorems, TLAPS

Fields == {"pc", "ref", "node", "version", "stable", "target", "by", "calm", "there",
           "stamp", "obs"}

\* A call is a record of these fields.
Shaped(r) == DOMAIN r = Fields /\ r.version \in Nat /\ r.stamp \in Nat

\* A snapshot of the clock's present version, with no event still to come, is the screen.
SnapshotSound ==
    /\ current.version \in Nat /\ current.version <= clock
    /\ current.version = clock /\ late = 0 => current.nodes = Kept(tree)

\* What a call carries from its grounding, from the version check and from its walk, or
\* from its reading of the clock.
Carries(r) ==
    /\ r.pc = "queued" =>
          /\ r.version <= clock
          /\ r.version = clock /\ late = 0 =>
                r.ref \in DOMAIN Kept(tree) /\ r.node = Kept(tree)[r.ref]
    /\ r.pc = "find" /\ r.calm => r.ref \in DOMAIN Kept(tree) /\ r.node = Kept(tree)[r.ref]
    /\ r.pc = "click" /\ r.by = "ref" /\ r.calm => r.target.id = r.node.id
    /\ r.pc = "walk" => r.stamp <= clock

CallsSound ==
    /\ DOMAIN call = Calls
    /\ \A c \in Calls : Shaped(call[c]) /\ Carries(call[c])

RefInv ==
    /\ clock \in Nat /\ late \in Nat
    /\ SnapshotSound /\ CallsSound
    /\ RefHitsItsNode

LEMMA IdleRecord == Shaped(Idle) /\ Idle.pc = "idle"
BY DEF Idle, Fields, Shaped

LEMMA RefInvInit == Init => RefInv
<1> SUFFICES ASSUME Init PROVE RefInv
  OBVIOUS
<1>1. \A c \in Calls : call[c] = Idle
  BY DEF Init
<1>2. Carries(Idle)
  BY IdleRecord DEF Carries
<1>3. CallsSound
  BY <1>1, <1>2, IdleRecord DEF Init, CallsSound
<1>4. SnapshotSound /\ clock \in Nat /\ late \in Nat
  BY DEF Init, SnapshotSound
<1>5. hit.by # "ref"
  BY RefsAssumption DEF Init
<1> QED
  BY <1>3, <1>4, <1>5 DEF RefInv, RefHitsItsNode

\* One call takes a step, the device stays.
LEMMA OneCall ==
  ASSUME CallsSound, NEW c \in Calls, NEW r, call' = [call EXCEPT ![c] = r],
         Shaped(r), Carries(r), UNCHANGED <<clock, late, tree>>
  PROVE  CallsSound'
<1>1. DOMAIN call' = Calls
  BY DEF CallsSound
<1>2. \A d \in Calls : Shaped(call[d]) /\ Carries(call[d])
  BY DEF CallsSound
<1>3. ASSUME NEW d \in Calls PROVE Shaped(call[d])' /\ Carries(call[d])'
  <2>1. call'[d] = IF d = c THEN r ELSE call[d]
    BY DEF CallsSound
  <2> QED
    BY <1>2, <2>1 DEF Shaped, Carries
<1> QED
  BY <1>1, <1>3 DEF CallsSound

\* The records a step may leave: past its locals, at another point, or with a frame to come.
LEMMA Records ==
  ASSUME NEW r, Shaped(r), clock \in Nat
  PROVE  /\ Shaped([Idle EXCEPT !.pc = "done"]) /\ Carries([Idle EXCEPT !.pc = "done"])
         /\ Shaped([Idle EXCEPT !.pc = "observe"]) /\ Carries([Idle EXCEPT !.pc = "observe"])
         /\ Shaped([r EXCEPT !.pc = "done"]) /\ Carries([r EXCEPT !.pc = "done"])
         /\ Shaped([r EXCEPT !.pc = "observe"]) /\ Carries([r EXCEPT !.pc = "observe"])
         /\ Shaped([r EXCEPT !.pc = "walk", !.stamp = clock])
         /\ Carries([r EXCEPT !.pc = "walk", !.stamp = clock])
         /\ \A o : Shaped([Idle EXCEPT !.pc = "frame", !.obs = o])
                   /\ Carries([Idle EXCEPT !.pc = "frame", !.obs = o])
         /\ Shaped([r EXCEPT !.pc = "retry"]) /\ Carries([r EXCEPT !.pc = "retry"])
         /\ Shaped([r EXCEPT !.pc = "gesture"]) /\ Carries([r EXCEPT !.pc = "gesture"])
<1> USE IdleRecord DEF Shaped, Carries, Fields
<1>1. ASSUME NEW s, Shaped(s), NEW p \in {"done", "observe", "retry", "gesture"}
      PROVE  Shaped([s EXCEPT !.pc = p]) /\ Carries([s EXCEPT !.pc = p])
  BY <1>1
<1>2. /\ Shaped([r EXCEPT !.pc = "walk", !.stamp = clock])
      /\ Carries([r EXCEPT !.pc = "walk", !.stamp = clock])
  OBVIOUS
<1>3. ASSUME NEW o
      PROVE  /\ Shaped([Idle EXCEPT !.pc = "frame", !.obs = o])
             /\ Carries([Idle EXCEPT !.pc = "frame", !.obs = o])
  OBVIOUS
<1>5. Shaped(Idle)
  OBVIOUS
<1> QED
  BY ONLY <1>1, <1>2, <1>3, <1>5, Shaped(r)

LEMMA RefInvStep == RefInv /\ [Next]_vars => RefInv'
<1> SUFFICES ASSUME RefInv, [Next]_vars PROVE RefInv'
  OBVIOUS
<1>0. /\ clock \in Nat /\ late \in Nat /\ SnapshotSound /\ CallsSound /\ RefHitsItsNode
      /\ \A c \in Calls : Shaped(call[c]) /\ Carries(call[c])
  BY DEF RefInv, CallsSound
<1>1. ASSUME NEW c \in Taps, Ground(c) PROVE RefInv'
  <2>0. c \in Calls
    BY DEF Calls
  <2>1. UNCHANGED <<clock, late, tree, current, shown, hit>>
    BY <1>1 DEF Ground, UnchangedDevice, UnchangedViews
  <2>2. PICK r \in Listed(shown) \cup Marked(shown) :
          IF r \in DOMAIN current.nodes
          THEN call' = [call EXCEPT ![c] =
                          [call[c] EXCEPT !.pc = "queued", !.ref = r,
                                          !.node = current.nodes[r],
                                          !.version = current.version,
                                          !.stable = ToSelector(current.nodes[r], current),
                                          !.calm = current = shown]]
          ELSE call' = [call EXCEPT ![c] = [call[c] EXCEPT !.pc = "done"]]
    BY <1>1 DEF Ground, Goto
  <2>3. CallsSound'
    <3>1. CASE r \in DOMAIN current.nodes
      <4> DEFINE n == [call[c] EXCEPT !.pc = "queued", !.ref = r,
                                      !.node = current.nodes[r],
                                      !.version = current.version,
                                      !.stable = ToSelector(current.nodes[r], current),
                                      !.calm = current = shown]
      <4>1. /\ DOMAIN n = Fields /\ n.pc = "queued" /\ n.ref = r
            /\ n.node = current.nodes[r] /\ n.version = current.version
            /\ n.stamp = call[c].stamp
        BY <1>0, <2>0 DEF Shaped, Fields
      <4> HIDE DEF n
      <4>2. Shaped(n) /\ Carries(n)
        BY <4>1, <3>1, <1>0, <2>0 DEF Shaped, Carries, SnapshotSound
      <4>3. call' = [call EXCEPT ![c] = n]
        BY <2>2, <3>1 DEF n
      <4> QED
        BY <4>2, <4>3, <1>0, <2>0, <2>1, OneCall
    <3>2. CASE r \notin DOMAIN current.nodes
      BY <1>0, <2>0, <2>1, <2>2, <3>2, OneCall, Records
    <3> QED
      BY <3>1, <3>2
  <2> QED
    BY <1>0, <2>1, <2>3 DEF RefInv, SnapshotSound, RefHitsItsNode
<1>3. ASSUME NEW c \in Taps, Act(c) PROVE RefInv'
  <2>0. c \in Calls /\ UNCHANGED <<clock, late, tree, current>>
    BY <1>3 DEF Act, UnchangedDevice, UnchangedViews, Calls
  <2>00. Shaped(call[c]) /\ Carries(call[c])
    BY <1>0, <2>0
  <2>1. CASE CheckVersion(c)
    <3>1. CASE Fresh(call[c].version)
      <4> DEFINE n == Accepted(call[c])
      <4>1. /\ DOMAIN n = Fields /\ n.pc = "find" /\ n.calm = (call[c].calm /\ late = 0)
            /\ n.ref = call[c].ref /\ n.node = call[c].node
            /\ n.version = call[c].version /\ n.stamp = call[c].stamp
        BY <2>00 DEF Shaped, Fields, Accepted
      <4>2. call' = [call EXCEPT ![c] = n]
        BY <2>1, <3>1 DEF CheckVersion
      <4>3. call[c].pc = "queued" /\ UNCHANGED hit
        BY <2>1 DEF CheckVersion
      <4> HIDE DEF n
      <4>4. Shaped(n) /\ Carries(n)
        BY <2>00, <3>1, <4>1, <4>3 DEF Shaped, Carries, Fresh
      <4>5. CallsSound'
        BY <1>0, <2>0, <4>2, <4>4, OneCall
      <4> QED
        BY <1>0, <2>0, <4>3, <4>5 DEF RefInv, SnapshotSound, RefHitsItsNode
    <3>2. CASE ~Fresh(call[c].version)
      <4>1. call' = [call EXCEPT ![c] = [call[c] EXCEPT !.pc = "retry"]] /\ UNCHANGED hit
        BY <2>0, <2>1, <3>2, <1>0 DEF CheckVersion, CallsSound
      <4>2. CallsSound'
        BY <1>0, <2>0, <4>1, OneCall, Records
      <4> QED
        BY <1>0, <2>0, <4>1, <4>2 DEF RefInv, SnapshotSound, RefHitsItsNode
    <3> QED
      BY <3>1, <3>2
  <2>2. CASE FindByRef(c) \/ FindByStable(c)
    <3>1. PICK m, b : /\ b \in {"ref", "stable"} /\ Found(c, m, b)
                      /\ b = "ref" => /\ call[c].pc = "find"
                                      /\ call[c].ref \in DOMAIN Kept(tree) =>
                                            m = Kept(tree)[call[c].ref]
      BY <2>2 DEF FindByRef, FindByStable
    <3>2. CASE m = None
      <4>1. call' = [call EXCEPT ![c] = [Idle EXCEPT !.pc = "observe"]] /\ UNCHANGED hit
        BY <3>1, <3>2 DEF Found, Turn
      <4>2. CallsSound'
        BY <1>0, <2>0, <4>1, OneCall, Records
      <4> QED
        BY <1>0, <2>0, <4>1, <4>2 DEF RefInv, SnapshotSound, RefHitsItsNode
    <3>3. CASE m # None
      <4> DEFINE there == call[c].node \in NodesOf(tree)
                 n == [call[c] EXCEPT !.pc = "click", !.target = m, !.by = b,
                                      !.there = there]
      <4>1. /\ DOMAIN n = Fields /\ n.pc = "click" /\ n.target = m /\ n.by = b
            /\ n.calm = call[c].calm /\ n.node = call[c].node
            /\ n.version = call[c].version /\ n.stamp = call[c].stamp
        BY <2>00 DEF Shaped, Fields
      <4>2. call' = [call EXCEPT ![c] = n] /\ UNCHANGED hit
        BY <2>0, <3>1, <3>3, <1>0 DEF Found, CallsSound
      <4> HIDE DEF n
      <4>3. Shaped(n) /\ Carries(n)
        BY <2>00, <3>1, <4>1 DEF Shaped, Carries
      <4>4. CallsSound'
        BY <1>0, <2>0, <4>2, <4>3, OneCall
      <4> QED
        BY <1>0, <2>0, <4>2, <4>4 DEF RefInv, SnapshotSound, RefHitsItsNode
    <3> QED
      BY <3>2, <3>3
  <2>3. CASE Click(c) \/ ActByGesture(c)
    <3>1. \/ call' = [call EXCEPT ![c] = [Idle EXCEPT !.pc = "observe"]]
          \/ call' = [call EXCEPT ![c] = [call[c] EXCEPT !.pc = "gesture"]]
      BY <2>3 DEF Click, ActByGesture, Turn, Goto
    <3>2. CallsSound'
      BY <1>0, <2>0, <3>1, OneCall, Records
    <3>3. CASE UNCHANGED hit
      BY <1>0, <2>0, <3>2, <3>3 DEF RefInv, SnapshotSound, RefHitsItsNode
    <3>4. ASSUME NEW n, n.id = call[c].target.id, Hit(c, n, call[c].by), call[c].pc = "click"
          PROVE  RefHitsItsNode'
      <4>1. /\ hit'.by = call[c].by /\ hit'.calm = call[c].calm /\ hit'.node = n
            /\ hit'.meant = call[c].node
        BY <3>4 DEF Hit
      <4> QED
        BY <2>00, <3>4, <4>1 DEF RefHitsItsNode, Carries
    <3>5. CASE hit'.by = "gesture"
      BY <1>0, <2>0, <3>2, <3>5 DEF RefInv, SnapshotSound, RefHitsItsNode
    <3>6. \/ UNCHANGED hit
          \/ hit'.by = "gesture"
          \/ call[c].pc = "click" /\ \E n : n.id = call[c].target.id /\ Hit(c, n, call[c].by)
      BY <2>3 DEF Click, ActByGesture, Hit
    <3> QED
      BY <1>0, <2>0, <3>2, <3>3, <3>4, <3>5, <3>6 DEF RefInv, SnapshotSound
  <2> QED
    BY <1>3, <2>1, <2>2, <2>3 DEF Act
<1>4. ASSUME NEW c \in Calls, Look(c) \/ ReadClock(c) \/ FrameReturns(c) PROVE RefInv'
  <2>1. UNCHANGED <<clock, late, tree, current, hit>>
    BY <1>4 DEF Look, ReadClock, FrameReturns, UnchangedDevice, UnchangedViews
  <2>2. \/ call' = [call EXCEPT ![c] = [call[c] EXCEPT !.pc = "observe"]]
        \/ call' = [call EXCEPT ![c] = [call[c] EXCEPT !.pc = "walk", !.stamp = clock]]
        \/ call' = [call EXCEPT ![c] = [Idle EXCEPT !.pc = "done"]]
    BY <1>4 DEF Look, ReadClock, FrameReturns, End, Goto, Turn
  <2>3. CallsSound'
    BY <1>0, <2>1, <2>2, OneCall, Records
  <2> QED
    BY <1>0, <2>1, <2>3 DEF RefInv, SnapshotSound, RefHitsItsNode
<1>6. ASSUME NEW c \in Calls, Walk(c) PROVE RefInv'
  <2>1. UNCHANGED <<clock, late, tree, hit>>
    BY <1>6 DEF Walk, UnchangedDevice
  <2>2. call' = [call EXCEPT ![c] = [Idle EXCEPT !.pc = "frame", !.obs = current']]
    BY <1>6 DEF Walk
  <2>3. CallsSound'
    BY <1>0, <2>1, <2>2, OneCall, Records
  <2>4. call[c].stamp \in Nat /\ call[c].stamp <= clock
    BY <1>0, <1>6 DEF Walk, Shaped, Carries
  <2>5. SnapshotSound'
    BY <1>6, <2>1, <2>4 DEF Walk, SnapshotSound
  <2> QED
    BY <1>0, <2>1, <2>3, <2>5 DEF RefInv, RefHitsItsNode
<1>8. CASE Change
  <2>1. late' = late + 1 /\ UNCHANGED <<clock, current, hit>>
    BY <1>8 DEF Change
  <2>2. DOMAIN call' = Calls
    BY <1>8 DEF Change
  <2>3. ASSUME NEW c \in Calls PROVE (Shaped(call[c]) /\ Carries(call[c]))'
    <3>1. call'[c] = IF call[c].pc = "find" THEN [call[c] EXCEPT !.calm = FALSE] ELSE call[c]
      BY <1>8 DEF Change
    <3>2. CASE call[c].pc # "find"
      BY <1>0, <2>1, <3>1, <3>2 DEF Shaped, Carries
    <3>3. CASE call[c].pc = "find"
      <4>1. /\ DOMAIN call'[c] = Fields /\ call'[c].version = call[c].version
            /\ call'[c].stamp = call[c].stamp /\ call'[c].pc = "find" /\ ~ call'[c].calm
        BY <1>0, <3>1, <3>3 DEF Shaped, Fields
      <4> QED
        BY <1>0, <4>1 DEF Shaped, Carries
    <3> QED
      BY <3>2, <3>3
  <2>4. CallsSound'
    BY <2>2, <2>3 DEF CallsSound
  <2> QED
    BY <1>0, <2>1, <2>4 DEF RefInv, SnapshotSound, RefHitsItsNode
<1>9. CASE Event
  <2>1. late > 0 /\ late' = late - 1 /\ clock' = clock + 1
        /\ UNCHANGED <<tree, current, call, hit>>
    BY <1>9 DEF Event
  <2>2. \A c \in Calls : Carries(call[c])'
    BY <1>0, <2>1 DEF Carries, Shaped
  <2>3. CallsSound'
    BY <1>0, <2>1, <2>2 DEF CallsSound
  <2> QED
    BY <1>0, <2>1, <2>3 DEF RefInv, SnapshotSound, RefHitsItsNode
<1>10. CASE UNCHANGED vars
  BY <1>0, <1>10 DEF vars, RefInv, CallsSound, Carries, SnapshotSound, RefHitsItsNode
<1> QED
  BY <1>1, <1>3, <1>4, <1>6, <1>8, <1>9, <1>10 DEF Next, Finished, Calls

\* RefHitsItsNode of Refs: whatever changes and is re-observed before the grounding of a
\* ref (act_ref), between it and the device's version check and after the walk, an accepted
\* ref's click goes to the node the model was shown under it, unless the shown snapshot
\* had been replaced, a change's event was late, or a change fell between check and walk.
THEOREM RefIsTight == Spec => []RefHitsItsNode
<1>1. Init => RefInv
  BY RefInvInit
<1>2. RefInv /\ [Next]_vars => RefInv'
  BY RefInvStep
<1>3. RefInv => RefHitsItsNode
  BY DEF RefInv
<1> QED
  BY <1>1, <1>2, <1>3, PTL DEF Spec

-----------------------------------------------------------------------------
(* Places of a tree and the kept nodes *)

LEMMA Places ==
  ASSUME NEW t \in Trees
  PROVE  /\ DOMAIN t = 1..Len(t) /\ Len(t) \in Nat /\ IsFiniteSet(DOMAIN t)
         /\ \A k \in DOMAIN t : t[k] \in Nodes
<1>1. t \in Seq(NodesOf(t))
  BY RefsAssumption
<1>2. DOMAIN t = 1..Len(t) /\ Len(t) \in Nat
  BY <1>1
<1>3. IsFiniteSet(1..Len(t))
  BY <1>2, FS_Interval
<1>4. \A k \in DOMAIN t : t[k] \in Nodes
  BY DEF Nodes, NodesOf
<1> QED
  BY <1>2, <1>3, <1>4

\* A place among others has a position, which is not 0.
LEMMA RankPositive ==
  ASSUME NEW t \in Trees, NEW ks \in SUBSET DOMAIN t, NEW k \in ks
  PROVE  Rank(ks, k) \in Nat \ {0}
<1>1. IsFiniteSet({j \in ks : j <= k})
  BY Places, FS_Subset
<1>2. k \in {j \in ks : j <= k}
  BY Places
<1>3. Cardinality({j \in ks : j <= k}) \in Nat /\ Cardinality({j \in ks : j <= k}) # 0
  BY <1>1, <1>2, FS_CardinalityType, FS_EmptySet
<1> QED
  BY <1>3 DEF Rank

\* What a ref can name is a node of the tree that the pruner keeps, and there are
\* finitely many refs.
LEMMA KeptNodes ==
  ASSUME NEW t \in Trees
  PROVE  /\ DOMAIN Kept(t) \subseteq Nat /\ IsFiniteSet(DOMAIN Kept(t))
         /\ \A r \in DOMAIN Kept(t) : Kept(t)[r] \in Nodes /\ Keep(Kept(t)[r])
<1> DEFINE kept == {k \in DOMAIN t : Keep(t[k])}
           refs == {Rank(kept, k) : k \in kept}
<1>1. DOMAIN Kept(t) = refs
  BY DEF Kept
<1>2. refs \subseteq Nat
  BY RankPositive
<1>3. IsFiniteSet(kept)
  BY Places, FS_Subset
<1>4. IsFiniteSet(refs)
  <2>1. Cardinality(kept) \in Nat
    BY <1>3, FS_CardinalityType
  <2>2. ASSUME NEW k \in kept PROVE Rank(kept, k) <= Cardinality(kept)
    BY <1>3, FS_Subset DEF Rank
  <2>3. \A r \in refs : r <= Cardinality(kept)
    BY <2>2
  <2> HIDE DEF refs
  <2> QED
    BY <1>2, <2>1, <2>3, FS_BoundedSetOfNaturals
<1>5. ASSUME NEW r \in refs PROVE Kept(t)[r] \in Nodes /\ Keep(Kept(t)[r])
  <2> DEFINE k == CHOOSE k \in kept : Rank(kept, k) = r
  <2>1. k \in kept
    BY <1>5
  <2>2. Kept(t)[r] = t[k]
    BY <1>5 DEF Kept
  <2> HIDE DEF k
  <2>3. t[k] \in Nodes /\ Keep(t[k])
    BY <2>1, Places
  <2> QED
    BY <2>2, <2>3
<1> QED
  BY <1>1, <1>2, <1>4, <1>5

-----------------------------------------------------------------------------
(* Type correctness *)

Points == {"idle", "queued", "find", "click", "retry", "gesture", "observe", "walk", "frame",
           "done"}

\* A call's fields; a call that waits for its frame has the snapshot it walked.
Typed(r) ==
    /\ DOMAIN r = Fields
    /\ r.pc \in Points /\ r.ref \in Nat /\ r.version \in 0..MaxChanges
    /\ r.node \in Nodes \cup {None} /\ r.stable.index \in Nat
    /\ r.by \in {None, "ref", "stable"} /\ r.calm \in BOOLEAN /\ r.there \in BOOLEAN
    /\ r.stamp \in 0..MaxChanges /\ r.obs \in Snapshots \cup {None}
    /\ r.pc = "frame" => r.obs \in Snapshots

\* A call that may retry has a kept node and the selector made of it.
Meant(r) ==
    r.pc \in {"queued", "retry"} =>
        r.node \in Nodes /\ Keep(r.node) /\ \E s : r.stable = ToSelector(r.node, s)

ScreenTyped ==
    /\ tree \in Trees /\ clock \in 0..MaxChanges /\ late \in 0..MaxChanges
    /\ clock + late <= MaxChanges
    /\ current \in Snapshots /\ shown \in Snapshots
    /\ hit.by \in {None, "ref", "stable", "gesture"}

CallsTyped == DOMAIN call = Calls /\ \A c \in Calls : Typed(call[c]) /\ Meant(call[c])

\* The lock's queue has every tap between its grounding and its end once, and a tap past
\* its first request at its head.
LockHeld ==
    /\ lockQueue \in Seq(Taps)
    /\ \A j, k \in DOMAIN lockQueue : lockQueue[j] = lockQueue[k] => j = k
    /\ \A c \in Taps :
          /\ (\E k \in DOMAIN lockQueue : lockQueue[k] = c) <=> call[c].pc \notin {"idle", "done"}
          /\ call[c].pc \notin {"idle", "queued", "done"} => lockQueue[1] = c

TypeInv == ScreenTyped /\ CallsTyped /\ LockHeld

LEMMA ScreenSnapshot ==
  ASSUME NEW t \in Trees, NEW v \in 0..MaxChanges
  PROVE  [version |-> v, nodes |-> Kept(t)] \in Snapshots
BY DEF Snapshots

\* What a snapshot shows are kept nodes, under refs that are numbers.
LEMMA SnapshotNodes ==
  ASSUME NEW s \in Snapshots
  PROVE  /\ s.version \in 0..MaxChanges
         /\ DOMAIN s.nodes \subseteq Nat
         /\ \A r \in DOMAIN s.nodes : s.nodes[r] \in Nodes /\ Keep(s.nodes[r])
         /\ \A n : TextIndex(n, s) \in Nat
<1>1. PICK t \in Trees : s.nodes = Kept(t)
  BY DEF Snapshots
<1>2. s.version \in 0..MaxChanges
  BY DEF Snapshots
<1>3. ASSUME NEW n PROVE TextIndex(n, s) \in Nat
  <2> DEFINE same == {k \in DOMAIN s.nodes :
                        /\ s.nodes[k].text = n.text
                        /\ \E j \in DOMAIN s.nodes : k <= j /\ s.nodes[j] = n}
  <2>1. IsFiniteSet(DOMAIN s.nodes)
    BY <1>1, KeptNodes
  <2>2. same \in SUBSET DOMAIN s.nodes
    OBVIOUS
  <2>3. IsFiniteSet(same)
    BY <2>1, <2>2, FS_Subset
  <2> QED
    BY <2>3, FS_CardinalityType DEF TextIndex
<1> QED
  BY <1>1, <1>2, <1>3, KeptNodes

LEMMA SelectorIndex ==
  ASSUME NEW s \in Snapshots, NEW n
  PROVE  ToSelector(n, s).index \in Nat
<1> DEFINE i == TextIndex(n, s)
<1>1. i \in Nat
  BY SnapshotNodes
<1> HIDE DEF i
<1>2. CASE n.viewId # None
  BY <1>2 DEF ToSelector, Selector
<1>3. CASE n.viewId = None /\ n.text # None
  BY <1>1, <1>3 DEF ToSelector, Selector, i
<1>4. CASE n.viewId = None /\ n.text = None
  BY <1>4 DEF ToSelector, Selector
<1> QED
  BY <1>2, <1>3, <1>4

\* The records a step may leave.
LEMMA TypedRecords ==
  ASSUME NEW r, Typed(r), Meant(r)
  PROVE  /\ \A p \in {"idle", "observe", "done"} :
              Typed([Idle EXCEPT !.pc = p]) /\ Meant([Idle EXCEPT !.pc = p])
         /\ \A p \in {"observe", "gesture", "done"} :
              Typed([r EXCEPT !.pc = p]) /\ Meant([r EXCEPT !.pc = p])
         /\ r.pc = "queued" =>
              Typed([r EXCEPT !.pc = "retry"]) /\ Meant([r EXCEPT !.pc = "retry"])
         /\ \A b \in BOOLEAN :
              /\ Typed([r EXCEPT !.pc = "find", !.calm = b])
              /\ Meant([r EXCEPT !.pc = "find", !.calm = b])
         /\ \A n : \A b \in {"ref", "stable"} : \A x \in BOOLEAN :
              /\ Typed([r EXCEPT !.pc = "click", !.target = n, !.by = b, !.there = x])
              /\ Meant([r EXCEPT !.pc = "click", !.target = n, !.by = b, !.there = x])
         /\ \A v \in 0..MaxChanges :
              /\ Typed([r EXCEPT !.pc = "walk", !.stamp = v])
              /\ Meant([r EXCEPT !.pc = "walk", !.stamp = v])
         /\ \A o \in Snapshots :
              /\ Typed([Idle EXCEPT !.pc = "frame", !.obs = o])
              /\ Meant([Idle EXCEPT !.pc = "frame", !.obs = o])
<1>0. 0 \in 0..MaxChanges
  BY RefsAssumption
<1>1. ASSUME NEW p \in {"idle", "observe", "done"}
      PROVE  Typed([Idle EXCEPT !.pc = p]) /\ Meant([Idle EXCEPT !.pc = p])
  BY <1>0 DEF Idle, Selector, Typed, Meant, Fields, Points
<1>2. ASSUME NEW p \in {"observe", "gesture", "done"}
      PROVE  Typed([r EXCEPT !.pc = p]) /\ Meant([r EXCEPT !.pc = p])
  BY DEF Typed, Meant, Fields, Points
<1>3. ASSUME r.pc = "queued"
      PROVE  Typed([r EXCEPT !.pc = "retry"]) /\ Meant([r EXCEPT !.pc = "retry"])
  BY <1>3 DEF Typed, Meant, Fields, Points
<1>4. ASSUME NEW v \in 0..MaxChanges
      PROVE  /\ Typed([r EXCEPT !.pc = "walk", !.stamp = v])
             /\ Meant([r EXCEPT !.pc = "walk", !.stamp = v])
  BY DEF Typed, Meant, Fields, Points
<1>5. ASSUME NEW o \in Snapshots
      PROVE  /\ Typed([Idle EXCEPT !.pc = "frame", !.obs = o])
             /\ Meant([Idle EXCEPT !.pc = "frame", !.obs = o])
  BY <1>0 DEF Idle, Selector, Typed, Meant, Fields, Points
<1>6. ASSUME NEW b \in BOOLEAN
      PROVE  /\ Typed([r EXCEPT !.pc = "find", !.calm = b])
             /\ Meant([r EXCEPT !.pc = "find", !.calm = b])
  BY DEF Typed, Meant, Fields, Points
<1>7. ASSUME NEW n, NEW b \in {"ref", "stable"}, NEW x \in BOOLEAN
      PROVE  /\ Typed([r EXCEPT !.pc = "click", !.target = n, !.by = b, !.there = x])
             /\ Meant([r EXCEPT !.pc = "click", !.target = n, !.by = b, !.there = x])
  <2> DEFINE m == [r EXCEPT !.pc = "click", !.target = n, !.by = b, !.there = x]
  <2>1. /\ DOMAIN m = Fields /\ m.pc = "click" /\ m.ref = r.ref /\ m.version = r.version
        /\ m.node = r.node /\ m.stable = r.stable /\ m.by = b /\ m.calm = r.calm
        /\ m.there = x /\ m.stamp = r.stamp /\ m.obs = r.obs
    BY DEF Typed, Fields
  <2> HIDE DEF m
  <2>2. Typed(m) /\ Meant(m)
    BY <2>1 DEF Typed, Meant, Points
  <2> QED
    BY <2>2 DEF m
<1> QED
  BY <1>1, <1>2, <1>3, <1>4, <1>5, <1>6, <1>7

LEMMA OneTypedCall ==
  ASSUME CallsTyped, NEW c \in Calls, NEW r, call' = [call EXCEPT ![c] = r],
         Typed(r), Meant(r)
  PROVE  CallsTyped' /\ call'[c] = r /\ \A d \in Calls : d # c => call'[d] = call[d]
<1>1. DOMAIN call' = Calls
  BY DEF CallsTyped
<1>2. \A d \in Calls : call'[d] = IF d = c THEN r ELSE call[d]
  BY DEF CallsTyped
<1> QED
  BY <1>1, <1>2 DEF CallsTyped

\* A step of a call that leaves the lock's queue alone.
LEMMA SameQueue ==
  ASSUME LockHeld, UNCHANGED lockQueue, NEW c \in Calls,
         \A d \in Calls : d # c => call'[d] = call[d],
         c \in Taps =>
            /\ call[c].pc \in {"idle", "done"} <=> call'[c].pc \in {"idle", "done"}
            /\ call'[c].pc \notin {"idle", "queued", "done"} => lockQueue[1] = c
  PROVE  LockHeld'
<1>1. Taps \subseteq Calls
  BY DEF Calls
<1>2. ASSUME NEW d \in Taps
      PROVE  /\ (\E k \in DOMAIN lockQueue : lockQueue[k] = d) <=>
                   call'[d].pc \notin {"idle", "done"}
             /\ call'[d].pc \notin {"idle", "queued", "done"} => lockQueue[1] = d
  <2>1. CASE d = c
    BY <2>1 DEF LockHeld
  <2>2. CASE d # c
    <3>1. call'[d] = call[d]
      BY <1>1, <2>2
    <3> QED
      BY <3>1 DEF LockHeld
  <2> QED
    BY <2>1, <2>2
<1> QED
  BY <1>2 DEF LockHeld

\* A tap that was neither waiting nor holding the lock joins its queue.
LEMMA JoinQueue ==
  ASSUME LockHeld, NEW c \in Taps, lockQueue' = Append(lockQueue, c),
         call[c].pc = "idle", call'[c].pc = "queued",
         \A d \in Calls : d # c => call'[d] = call[d]
  PROVE  LockHeld'
<1>1. Taps \subseteq Calls
  BY DEF Calls
<1>2. lockQueue \in Seq(Taps) /\ \A k \in DOMAIN lockQueue : lockQueue[k] # c
  BY DEF LockHeld
<1>3. /\ lockQueue' \in Seq(Taps)
      /\ DOMAIN lockQueue' = 1..Len(lockQueue) + 1
      /\ \A k \in DOMAIN lockQueue : k \in DOMAIN lockQueue' /\ lockQueue'[k] = lockQueue[k]
      /\ lockQueue'[Len(lockQueue) + 1] = c
      /\ \A k \in DOMAIN lockQueue' : k \in DOMAIN lockQueue \/ k = Len(lockQueue) + 1
      /\ Len(lockQueue) + 1 \in DOMAIN lockQueue'
  BY <1>2
<1>4. \A j, k \in DOMAIN lockQueue' : lockQueue'[j] = lockQueue'[k] => j = k
  BY <1>2, <1>3 DEF LockHeld
<1>5. ASSUME NEW d \in Taps
      PROVE  /\ (\E k \in DOMAIN lockQueue' : lockQueue'[k] = d) <=>
                   call'[d].pc \notin {"idle", "done"}
             /\ call'[d].pc \notin {"idle", "queued", "done"} => lockQueue'[1] = d
  <2>1. CASE d = c
    BY <1>3, <2>1
  <2>2. CASE d # c
    <3>1. call'[d] = call[d]
      BY <1>1, <2>2
    <3>2. (\E k \in DOMAIN lockQueue' : lockQueue'[k] = d) <=>
            \E k \in DOMAIN lockQueue : lockQueue[k] = d
      BY <1>3, <2>2
    <3>3. call[d].pc \notin {"idle", "queued", "done"} =>
            lockQueue[1] = d /\ 1 \in DOMAIN lockQueue
      BY <1>2 DEF LockHeld
    <3> QED
      BY <1>3, <3>1, <3>2, <3>3 DEF LockHeld
  <2> QED
    BY <2>1, <2>2
<1> QED
  BY <1>3, <1>4, <1>5 DEF LockHeld

\* The holder leaves the lock to the next.
LEMMA LeaveQueue ==
  ASSUME LockHeld, NEW c \in Taps, lockQueue' = Tail(lockQueue),
         call[c].pc = "frame", call'[c].pc = "done",
         \A d \in Calls : d # c => call'[d] = call[d]
  PROVE  LockHeld'
<1>1. Taps \subseteq Calls
  BY DEF Calls
<1>2. lockQueue \in Seq(Taps) /\ lockQueue # <<>> /\ lockQueue[1] = c
  BY DEF LockHeld
<1>3. /\ lockQueue' \in Seq(Taps)
      /\ \A k \in DOMAIN lockQueue' : k + 1 \in DOMAIN lockQueue /\ k \in Nat \ {0}
                                      /\ lockQueue'[k] = lockQueue[k + 1]
      /\ \A k \in DOMAIN lockQueue : k = 1 \/ (k - 1 \in DOMAIN lockQueue'
                                              /\ lockQueue'[k - 1] = lockQueue[k])
      /\ 1 \in DOMAIN lockQueue
  BY <1>2
<1>4. \A j, k \in DOMAIN lockQueue' : lockQueue'[j] = lockQueue'[k] => j = k
  BY <1>3 DEF LockHeld
<1>5. ASSUME NEW d \in Taps
      PROVE  /\ (\E k \in DOMAIN lockQueue' : lockQueue'[k] = d) <=>
                   call'[d].pc \notin {"idle", "done"}
             /\ call'[d].pc \notin {"idle", "queued", "done"} => lockQueue'[1] = d
  <2>1. CASE d = c
    <3>1. \A k \in DOMAIN lockQueue' : lockQueue'[k] # c
      BY <1>2, <1>3 DEF LockHeld
    <3> QED
      BY <2>1, <3>1
  <2>2. CASE d # c
    <3>1. call'[d] = call[d]
      BY <1>1, <2>2
    <3>2. (\E k \in DOMAIN lockQueue' : lockQueue'[k] = d) <=>
            \E k \in DOMAIN lockQueue : lockQueue[k] = d
      <4>1. ASSUME NEW k \in DOMAIN lockQueue', lockQueue'[k] = d
            PROVE  \E j \in DOMAIN lockQueue : lockQueue[j] = d
        BY <1>3, <4>1
      <4>2. ASSUME NEW k \in DOMAIN lockQueue, lockQueue[k] = d
            PROVE  \E j \in DOMAIN lockQueue' : lockQueue'[j] = d
        <5>1. k - 1 \in DOMAIN lockQueue' /\ lockQueue'[k - 1] = lockQueue[k]
          BY <1>2, <1>3, <2>2, <4>2
        <5> QED
          BY <4>2, <5>1
      <4> QED
        BY <4>1, <4>2
    <3>3. call[d].pc \in {"idle", "queued", "done"}
      BY <1>2, <2>2 DEF LockHeld
    <3> QED
      BY <3>1, <3>2, <3>3 DEF LockHeld
  <2> QED
    BY <2>1, <2>2
<1> QED
  BY <1>3, <1>4, <1>5 DEF LockHeld

LEMMA TypeInvInit == Init => TypeInv
<1> SUFFICES ASSUME Init PROVE TypeInv
  OBVIOUS
<1>0. 0 \in 0..MaxChanges /\ 0 + 0 <= MaxChanges
  BY RefsAssumption
<1>1. current \in Snapshots /\ shown \in Snapshots
  BY <1>0, ScreenSnapshot DEF Init
<1>2. ScreenTyped
  BY <1>0, <1>1 DEF Init, ScreenTyped
<1>3. Typed(Idle) /\ Meant(Idle)
  BY <1>0 DEF Idle, Selector, Typed, Meant, Fields, Points
<1>4. DOMAIN call = Calls /\ \A c \in Calls : call[c] = Idle
  BY DEF Init
<1>5. CallsTyped
  BY <1>3, <1>4 DEF CallsTyped
<1>6. LockHeld
  BY <1>4 DEF Init, LockHeld, Calls, Idle
<1> QED
  BY <1>2, <1>5, <1>6 DEF TypeInv

LEMMA TypeInvStep == TypeInv /\ [Next]_vars => TypeInv'
<1> SUFFICES ASSUME TypeInv, [Next]_vars PROVE TypeInv'
  OBVIOUS
<1>0. /\ ScreenTyped /\ CallsTyped /\ LockHeld /\ Taps \subseteq Calls
      /\ \A c \in Calls : Typed(call[c]) /\ Meant(call[c])
      /\ clock \in 0..MaxChanges /\ current \in Snapshots
  BY DEF TypeInv, CallsTyped, ScreenTyped, Calls
<1>1. ASSUME NEW c \in Taps, Ground(c) PROVE TypeInv'
  <2>0. c \in Calls /\ c \in Taps /\ call[c].pc = "idle"
    BY <1>0, <1>1 DEF Ground
  <2>1. ScreenTyped'
    BY <1>0, <1>1 DEF Ground, UnchangedDevice, UnchangedViews, ScreenTyped
  <2>2. PICK r \in Listed(shown) \cup Marked(shown) :
          IF r \in DOMAIN current.nodes
          THEN /\ call' = [call EXCEPT ![c] =
                             [call[c] EXCEPT !.pc = "queued", !.ref = r,
                                             !.node = current.nodes[r],
                                             !.version = current.version,
                                             !.stable = ToSelector(current.nodes[r], current),
                                             !.calm = current = shown]]
               /\ lockQueue' = Append(lockQueue, c)
          ELSE /\ call' = [call EXCEPT ![c] = [call[c] EXCEPT !.pc = "done"]]
               /\ UNCHANGED lockQueue
    BY <1>1 DEF Ground, Goto
  <2>3. CASE r \in DOMAIN current.nodes
    <3> DEFINE m == current.nodes[r]
               n == [call[c] EXCEPT !.pc = "queued", !.ref = r, !.node = m,
                                    !.version = current.version,
                                    !.stable = ToSelector(m, current),
                                    !.calm = current = shown]
    <3>1. /\ DOMAIN n = Fields /\ n.pc = "queued" /\ n.ref = r /\ n.node = m
          /\ n.version = current.version /\ n.stable = ToSelector(m, current)
          /\ n.stamp = call[c].stamp /\ n.obs = call[c].obs
          /\ n.by = call[c].by /\ n.there = call[c].there /\ n.calm = (current = shown)
      BY <1>0, <2>0 DEF Typed, Fields
    <3>2. call' = [call EXCEPT ![c] = n] /\ lockQueue' = Append(lockQueue, c)
      BY <2>2, <2>3
    <3>3. r \in Nat /\ m \in Nodes /\ Keep(m) /\ current.version \in 0..MaxChanges
          /\ ToSelector(m, current).index \in Nat
      BY <1>0, <2>3, SnapshotNodes, SelectorIndex
    <3> HIDE DEF n, m
    <3>4. Typed(n) /\ Meant(n)
      BY <1>0, <2>0, <3>1, <3>3 DEF Typed, Meant, Points
    <3>5. CallsTyped' /\ call'[c] = n /\ \A d \in Calls : d # c => call'[d] = call[d]
      BY <1>0, <2>0, <3>2, <3>4, OneTypedCall
    <3>6. LockHeld'
      BY <1>0, <2>0, <3>1, <3>2, <3>5, JoinQueue
    <3> QED
      BY <2>1, <3>5, <3>6 DEF TypeInv
  <2>4. CASE r \notin DOMAIN current.nodes
    <3> DEFINE n == [call[c] EXCEPT !.pc = "done"]
    <3>1. Typed(n) /\ Meant(n)
      BY <1>0, <2>0, TypedRecords
    <3>2. call' = [call EXCEPT ![c] = n] /\ UNCHANGED lockQueue
      BY <2>2, <2>4
    <3>3. n.pc = "done"
      BY <1>0, <2>0 DEF Typed, Fields
    <3> HIDE DEF n
    <3>4. CallsTyped' /\ call'[c] = n /\ \A d \in Calls : d # c => call'[d] = call[d]
      BY <1>0, <2>0, <3>1, <3>2, OneTypedCall
    <3>5. LockHeld'
      BY <1>0, <2>0, <3>2, <3>3, <3>4, SameQueue
    <3> QED
      BY <2>1, <3>4, <3>5 DEF TypeInv
  <2> QED
    BY <2>3, <2>4
<1>2. ASSUME NEW c \in Taps, Act(c) PROVE TypeInv'
  <2>0. c \in Calls
    BY <1>0
  <2>1. call[c].pc \in {"queued", "find", "click", "retry", "gesture"} /\ lockQueue[1] = c
    <3>1. CASE CheckVersion(c)
      <4>1. call[c].pc = "queued" /\ Head(lockQueue) = c
        BY <3>1 DEF CheckVersion, HoldsLock
      <4>2. lockQueue \in Seq(Taps) /\ lockQueue # <<>>
        BY <1>0, <4>1 DEF LockHeld
      <4> QED
        BY <4>1, <4>2
    <3>2. CASE FindByRef(c) \/ FindByStable(c) \/ Click(c) \/ ActByGesture(c)
      BY <1>0, <3>2 DEF FindByRef, FindByStable, Click, ActByGesture, LockHeld
    <3> QED
      BY <1>2, <3>1, <3>2 DEF Act
  <2>2. PICK n : /\ call' = [call EXCEPT ![c] = n] /\ Typed(n) /\ Meant(n)
                 /\ n.pc \in {"find", "click", "observe", "retry", "gesture"}
    <3>0. Typed(call[c]) /\ Meant(call[c])
      BY <1>0, <2>0
    <3>1. CASE CheckVersion(c)
      <4> DEFINE b == call[c].calm /\ late = 0
                 f == Accepted(call[c])
                 g == [call[c] EXCEPT !.pc = "retry"]
      <4>1. call[c].pc = "queued"
        BY <3>1 DEF CheckVersion
      <4>2. call' = [call EXCEPT ![c] = f] \/ call' = [call EXCEPT ![c] = g]
        BY <3>1 DEF CheckVersion
      <4>3. f.pc = "find" /\ g.pc = "retry" /\ f = [call[c] EXCEPT !.pc = "find", !.calm = b]
        BY <3>0 DEF Typed, Fields, Accepted
      <4>4. b \in BOOLEAN
        OBVIOUS
      <4> HIDE DEF b, f
      <4>5. Typed(f) /\ Meant(f) /\ Typed(g) /\ Meant(g)
        BY <3>0, <4>1, <4>3, <4>4, TypedRecords
      <4> HIDE DEF g
      <4> QED
        BY <4>2, <4>3, <4>5
    <3>2. CASE FindByRef(c) \/ FindByStable(c)
      <4>1. PICK m, b : b \in {"ref", "stable"} /\ Found(c, m, b)
        BY <3>2 DEF FindByRef, FindByStable
      <4>2. CASE m = None
        <5>1. call' = [call EXCEPT ![c] = [Idle EXCEPT !.pc = "observe"]]
          BY <4>1, <4>2 DEF Found, Turn
        <5>2. [Idle EXCEPT !.pc = "observe"].pc = "observe"
          BY DEF Idle
        <5> QED
          BY <3>0, <5>1, <5>2, TypedRecords
      <4>3. CASE m # None
        <5> DEFINE x == call[c].node \in NodesOf(tree)
                   n == [call[c] EXCEPT !.pc = "click", !.target = m, !.by = b, !.there = x]
        <5>1. call' = [call EXCEPT ![c] = n]
          BY <4>1, <4>3 DEF Found
        <5>2. n.pc = "click"
          BY <3>0 DEF Typed, Fields
        <5>3. x \in BOOLEAN
          OBVIOUS
        <5> HIDE DEF x
        <5>4. Typed(n) /\ Meant(n)
          BY <3>0, <4>1, <5>3, TypedRecords
        <5> HIDE DEF n
        <5> QED
          BY <5>1, <5>2, <5>4
      <4> QED
        BY <4>2, <4>3
    <3>3. CASE Click(c) \/ ActByGesture(c)
      <4>1. \/ call' = [call EXCEPT ![c] = [Idle EXCEPT !.pc = "observe"]]
            \/ call' = [call EXCEPT ![c] = [call[c] EXCEPT !.pc = "gesture"]]
        BY <3>3 DEF Click, ActByGesture, Turn, Goto
      <4>2. [Idle EXCEPT !.pc = "observe"].pc = "observe"
        BY DEF Idle
      <4>3. [call[c] EXCEPT !.pc = "gesture"].pc = "gesture"
        BY <3>0 DEF Typed, Fields
      <4> QED
        BY <3>0, <4>1, <4>2, <4>3, TypedRecords
    <3> QED
      BY <1>2, <3>1, <3>2, <3>3 DEF Act
  <2>3. CallsTyped' /\ call'[c] = n /\ \A d \in Calls : d # c => call'[d] = call[d]
    BY <1>0, <2>0, <2>2, OneTypedCall
  <2>4. LockHeld'
    BY <1>0, <1>2, <2>0, <2>1, <2>2, <2>3, SameQueue DEF Act
  <2>5. ScreenTyped'
    <3>1. UNCHANGED <<tree, clock, late, current, shown>>
      BY <1>2 DEF Act, UnchangedDevice, UnchangedViews
    <3>2. UNCHANGED hit \/ hit'.by \in {call[c].by, "gesture"}
      BY <1>2 DEF Act, CheckVersion, FindByRef, FindByStable, Found, Click, ActByGesture, Hit
    <3>3. call[c].by \in {None, "ref", "stable"}
      BY <1>0, <2>0 DEF Typed
    <3> QED
      BY <1>0, <3>1, <3>2, <3>3 DEF ScreenTyped
  <2> QED
    BY <2>3, <2>4, <2>5 DEF TypeInv
<1>3. ASSUME NEW c \in Calls, Look(c), c \in Looks PROVE TypeInv'
  <2>1. call' = [call EXCEPT ![c] = [call[c] EXCEPT !.pc = "observe"]] /\ c \notin Taps
    BY <1>3, RefsAssumption DEF Look, Goto
  <2>2. CallsTyped' /\ \A d \in Calls : d # c => call'[d] = call[d]
    BY <1>0, <2>1, OneTypedCall, TypedRecords
  <2>3. LockHeld'
    BY <1>0, <1>3, <2>1, <2>2, SameQueue DEF Look
  <2>4. ScreenTyped'
    BY <1>0, <1>3 DEF Look, UnchangedDevice, UnchangedViews, ScreenTyped
  <2> QED
    BY <2>2, <2>3, <2>4 DEF TypeInv
<1>4. ASSUME NEW c \in Calls, ReadClock(c) PROVE TypeInv'
  <2> DEFINE n == [call[c] EXCEPT !.pc = "walk", !.stamp = clock]
  <2>1. call' = [call EXCEPT ![c] = n] /\ call[c].pc = "observe"
    BY <1>4 DEF ReadClock
  <2>2. Typed(n) /\ Meant(n)
    BY <1>0, TypedRecords
  <2>3. n.pc = "walk"
    BY <1>0 DEF Typed, Fields
  <2> HIDE DEF n
  <2>4. CallsTyped' /\ call'[c] = n /\ \A d \in Calls : d # c => call'[d] = call[d]
    BY <1>0, <2>1, <2>2, OneTypedCall
  <2>5. c \in Taps => lockQueue[1] = c
    BY <1>0, <2>1 DEF LockHeld
  <2>6. LockHeld'
    BY <1>0, <1>4, <2>1, <2>3, <2>4, <2>5, SameQueue DEF ReadClock
  <2>7. ScreenTyped'
    BY <1>0, <1>4 DEF ReadClock, UnchangedDevice, UnchangedViews, ScreenTyped
  <2> QED
    BY <2>4, <2>6, <2>7 DEF TypeInv
<1>5. ASSUME NEW c \in Calls, Walk(c) PROVE TypeInv'
  <2> DEFINE n == [Idle EXCEPT !.pc = "frame", !.obs = current']
  <2>1. call' = [call EXCEPT ![c] = n] /\ call[c].pc = "walk"
    BY <1>5 DEF Walk
  <2>2. current' \in Snapshots
    <3>1. tree \in Trees /\ call[c].stamp \in 0..MaxChanges
      BY <1>0 DEF ScreenTyped, Typed
    <3> QED
      BY <1>5, <3>1, ScreenSnapshot DEF Walk
  <2>3. Typed(n) /\ Meant(n) /\ n.pc = "frame"
    BY <1>0, <2>2, TypedRecords DEF Idle
  <2> HIDE DEF n
  <2>4. CallsTyped' /\ call'[c] = n /\ \A d \in Calls : d # c => call'[d] = call[d]
    BY <1>0, <2>1, <2>3, OneTypedCall
  <2>5. c \in Taps => lockQueue[1] = c
    BY <1>0, <2>1 DEF LockHeld
  <2>6. LockHeld'
    BY <1>0, <1>5, <2>1, <2>3, <2>4, <2>5, SameQueue DEF Walk
  <2>7. ScreenTyped'
    BY <1>0, <1>5, <2>2 DEF Walk, UnchangedDevice, ScreenTyped
  <2> QED
    BY <2>4, <2>6, <2>7 DEF TypeInv
<1>6. ASSUME NEW c \in Calls, FrameReturns(c) PROVE TypeInv'
  <2> DEFINE n == [Idle EXCEPT !.pc = "done"]
  <2>1. /\ call' = [call EXCEPT ![c] = n] /\ call[c].pc = "frame"
        /\ lockQueue' = IF c \in Taps THEN Tail(lockQueue) ELSE lockQueue
    BY <1>6 DEF FrameReturns, End, Turn
  <2>2. Typed(n) /\ Meant(n) /\ n.pc = "done"
    BY <1>0, TypedRecords DEF Idle
  <2> HIDE DEF n
  <2>3. CallsTyped' /\ call'[c] = n /\ \A d \in Calls : d # c => call'[d] = call[d]
    BY <1>0, <2>1, <2>2, OneTypedCall
  <2>4. LockHeld'
    BY <1>0, <2>1, <2>2, <2>3, SameQueue, LeaveQueue
  <2>5. ScreenTyped'
    <3>1. call[c].obs \in Snapshots
      BY <1>0, <2>1 DEF Typed
    <3> QED
      BY <1>0, <1>6, <3>1 DEF FrameReturns, UnchangedDevice, ScreenTyped
  <2> QED
    BY <2>3, <2>4, <2>5 DEF TypeInv
<1>7. CASE Change
  <2>1. ScreenTyped' /\ DOMAIN call' = Calls /\ UNCHANGED lockQueue
    BY <1>0, <1>7, RefsAssumption DEF Change, ScreenTyped
  <2>2. ASSUME NEW c \in Calls
        PROVE  Typed(call'[c]) /\ Meant(call'[c]) /\ call'[c].pc = call[c].pc
    <3>1. call'[c] = IF call[c].pc = "find" THEN [call[c] EXCEPT !.calm = FALSE] ELSE call[c]
      BY <1>7 DEF Change
    <3>2. Typed(call[c]) /\ Meant(call[c])
      BY <1>0
    <3> QED
      BY <3>1, <3>2 DEF Typed, Meant, Fields
  <2>3. CallsTyped'
    BY <2>1, <2>2 DEF CallsTyped
  <2>4. LockHeld'
    BY <1>0, <2>1, <2>2 DEF LockHeld
  <2> QED
    BY <2>1, <2>3, <2>4 DEF TypeInv
<1>9. CASE Event
  <2>1. ScreenTyped'
    BY <1>0, <1>9, RefsAssumption DEF Event, ScreenTyped
  <2> QED
    BY <1>0, <1>9, <2>1 DEF Event, TypeInv, CallsTyped, LockHeld
<1>8. CASE UNCHANGED vars
  BY <1>0, <1>8 DEF vars, TypeInv, ScreenTyped, CallsTyped, LockHeld
<1> QED
  BY <1>1, <1>2, <1>3, <1>4, <1>5, <1>6, <1>7, <1>8, <1>9 DEF Next, Finished, Calls

LEMMA TypeInvariance == Spec => []TypeInv
BY TypeInvInit, TypeInvStep, PTL DEF Spec

\* TypeOK of Refs: among the rest, every snapshot the session or a call holds is the pruned
\* form of a screen, and the lock's queue has exactly the taps between their grounding and
\* their end.
THEOREM TypeCorrect == Spec => []TypeOK
<1>1. TypeInv => TypeOK
  BY DEF TypeInv, ScreenTyped, CallsTyped, LockHeld, Typed, Points, TypeOK
<1> QED
  BY <1>1, TypeInvariance, PTL

-----------------------------------------------------------------------------
(* The retry *)

\* Named by its view id, or by its description alone.
Named(n) == n.viewId # None \/ (n.text = None /\ n.desc # None)

\* A named node matches the selector made of it, which has a name and no index.
LEMMA SelectorMatches ==
  ASSUME NEW n \in Nodes, Named(n), NEW s
  PROVE  LET sel == ToSelector(n, s)
         IN  Matches(n, sel) /\ sel.index = 0 /\ (sel.viewId # None \/ sel.desc # None)
<1>1. \A x \in {n.text, n.desc} : x # None => Holds(x, x)
  BY RefsAssumption DEF Holds
<1>2. CASE n.viewId # None
  <2>1. /\ ToSelector(n, s).viewId = n.viewId /\ ToSelector(n, s).text \in {None, n.text}
        /\ ToSelector(n, s).desc = None /\ ToSelector(n, s).index = 0
    BY <1>2 DEF ToSelector, Selector
  <2> QED
    BY <1>1, <1>2, <2>1 DEF Matches
<1>3. CASE n.viewId = None /\ n.text = None /\ n.desc # None
  <2>1. /\ ToSelector(n, s).viewId = None /\ ToSelector(n, s).text = None
        /\ ToSelector(n, s).desc = n.desc /\ ToSelector(n, s).index = 0
    BY <1>3 DEF ToSelector, Selector
  <2> QED
    BY <1>1, <1>3, <2>1 DEF Matches
<1> QED
  BY <1>2, <1>3 DEF Named

\* Without an index the resolver returns the only match or none.
LEMMA OnlyMatch ==
  ASSUME NEW t \in Trees, NEW k \in DOMAIN t, t[k].visible, NEW sel, Matches(t[k], sel),
         sel.index = 0, sel.viewId # None \/ sel.desc # None, Resolve(t, sel) # None
  PROVE  Resolve(t, sel) = t[k]
<1> DEFINE ms == {j \in DOMAIN t : t[j].visible /\ Matches(t[j], sel)}
           at == {j \in ms : ms = {j} \/ Rank(ms, j) = sel.index}
           first == CHOOSE j \in at : TRUE
<1>1. Resolve(t, sel) = IF at = {} THEN None ELSE t[first]
  BY DEF Resolve, Chosen
<1>2. k \in ms /\ ms \in SUBSET DOMAIN t
  OBVIOUS
<1>3. at # {}
  BY <1>1
<1>4. first \in at
  BY <1>3
<1>5. \A j \in ms : Rank(ms, j) # 0
  <2> HIDE DEF ms
  <2> QED
    BY <1>2, RankPositive
<1> HIDE DEF ms, first
<1>6. ms = {first}
  BY <1>4, <1>5
<1> QED
  BY <1>1, <1>2, <1>3, <1>6

\* What the retry's selector finds, if it finds a node, is the node meant.
LEMMA RetryFinds ==
  ASSUME TypeInv, NEW c \in Calls, call[c].pc = "retry", Named(call[c].node),
         call[c].node \in NodesOf(tree), Resolve(tree, call[c].stable) # None
  PROVE  Resolve(tree, call[c].stable) = call[c].node
<1>1. tree \in Trees /\ Meant(call[c])
  BY DEF TypeInv, ScreenTyped, CallsTyped
<1>2. call[c].node \in Nodes /\ call[c].node.visible
  BY <1>1 DEF Meant, Keep
<1>3. PICK s : call[c].stable = ToSelector(call[c].node, s)
  BY <1>1 DEF Meant
<1>4. PICK k \in DOMAIN tree : tree[k] = call[c].node
  BY DEF NodesOf
<1>5. /\ Matches(tree[k], call[c].stable) /\ call[c].stable.index = 0
      /\ call[c].stable.viewId # None \/ call[c].stable.desc # None
  BY <1>2, <1>3, <1>4, SelectorMatches
<1> QED
  BY <1>1, <1>2, <1>4, <1>5, OnlyMatch

\* A retry that is about to click holds the node meant.
Resolved(r) ==
    r.pc = "click" /\ r.by = "stable" /\ r.there /\ Named(r.node) => r.target = r.node

RetryInv == NamedRetryHitsItsNode /\ \A c \in Calls : Resolved(call[c])

LEMMA RetryStep == TypeInv /\ RetryInv /\ [Next]_vars => RetryInv'
<1> SUFFICES ASSUME TypeInv, RetryInv, [Next]_vars PROVE RetryInv'
  OBVIOUS
<1>0. /\ NamedRetryHitsItsNode /\ DOMAIN call = Calls
      /\ \A c \in Calls : Typed(call[c]) /\ Resolved(call[c])
  BY DEF TypeInv, RetryInv, CallsTyped
\* a call that goes elsewhere than to its click
<1>1. ASSUME NEW c \in Calls, NEW r, call' = [call EXCEPT ![c] = r], Resolved(r)
      PROVE  (\A d \in Calls : Resolved(call[d]))'
  <2>1. \A d \in Calls : call'[d] = IF d = c THEN r ELSE call[d]
    BY <1>0, <1>1
  <2> QED
    BY <1>0, <1>1, <2>1 DEF Resolved
<1>2. ASSUME NEW r, r.pc # "click" PROVE Resolved(r)
  BY <1>2 DEF Resolved
<1>3. ASSUME NEW c \in Taps, Act(c) PROVE RetryInv'
  <2>0. c \in Calls /\ Typed(call[c]) /\ Resolved(call[c])
    BY <1>0 DEF Calls
  <2>1. CASE CheckVersion(c)
    <3>1. PICK r : call' = [call EXCEPT ![c] = r] /\ r.pc # "click"
      <4> DEFINE f == Accepted(call[c])
                 g == [call[c] EXCEPT !.pc = "retry"]
      <4>1. f.pc = "find" /\ g.pc = "retry"
        BY <2>0 DEF Typed, Fields, Accepted
      <4>2. call' = [call EXCEPT ![c] = f] \/ call' = [call EXCEPT ![c] = g]
        BY <2>1 DEF CheckVersion
      <4> HIDE DEF f, g
      <4> QED
        BY <4>1, <4>2
    <3>2. UNCHANGED hit
      BY <2>1 DEF CheckVersion
    <3> QED
      BY <1>0, <1>1, <1>2, <2>0, <3>1, <3>2 DEF RetryInv, NamedRetryHitsItsNode
  <2>2. CASE FindByRef(c) \/ FindByStable(c)
    <3>1. PICK m, b : /\ Found(c, m, b)
                      /\ b = "stable" => /\ call[c].pc = "retry"
                                         /\ m = Resolve(tree, call[c].stable)
      BY <2>2 DEF FindByRef, FindByStable
    <3>2. UNCHANGED hit
      BY <3>1 DEF Found
    <3>3. CASE m = None
      <4>1. call' = [call EXCEPT ![c] = [Idle EXCEPT !.pc = "observe"]]
        BY <3>1, <3>3 DEF Found, Turn
      <4>2. [Idle EXCEPT !.pc = "observe"].pc # "click"
        BY DEF Idle
      <4> QED
        BY <1>0, <1>1, <1>2, <2>0, <3>2, <4>1, <4>2 DEF RetryInv, NamedRetryHitsItsNode
    <3>4. CASE m # None
      <4> DEFINE x == call[c].node \in NodesOf(tree)
                 n == [call[c] EXCEPT !.pc = "click", !.target = m, !.by = b, !.there = x]
      <4>1. call' = [call EXCEPT ![c] = n]
        BY <3>1, <3>4 DEF Found
      <4>2. n.by = b /\ n.there = x /\ n.node = call[c].node /\ n.target = m
        BY <2>0 DEF Typed, Fields
      <4>3. b = "stable" /\ x /\ Named(call[c].node) => m = call[c].node
        BY <2>0, <3>1, <3>4, RetryFinds
      <4> HIDE DEF x, n
      <4>4. Resolved(n)
        BY <4>2, <4>3 DEF Resolved
      <4> QED
        BY <1>0, <1>1, <2>0, <3>2, <4>1, <4>4 DEF RetryInv, NamedRetryHitsItsNode
    <3> QED
      BY <3>3, <3>4
  <2>3. CASE Click(c) \/ ActByGesture(c)
    <3>1. PICK r : call' = [call EXCEPT ![c] = r] /\ r.pc # "click"
      <4>1. \/ call' = [call EXCEPT ![c] = [Idle EXCEPT !.pc = "observe"]]
            \/ call' = [call EXCEPT ![c] = [call[c] EXCEPT !.pc = "gesture"]]
        BY <2>3 DEF Click, ActByGesture, Turn, Goto
      <4>2. /\ [Idle EXCEPT !.pc = "observe"].pc # "click"
            /\ [call[c] EXCEPT !.pc = "gesture"].pc # "click"
        BY <2>0 DEF Idle, Typed, Fields
      <4> QED
        BY <4>1, <4>2
    <3>2. (\A d \in Calls : Resolved(call[d]))'
      BY <1>1, <1>2, <2>0, <3>1
    <3>3. \/ UNCHANGED hit
          \/ hit'.by = "gesture"
          \/ call[c].pc = "click" /\ \E n : n.id = call[c].target.id /\ Hit(c, n, call[c].by)
      BY <2>3 DEF Click, ActByGesture, Hit
    <3>4. ASSUME NEW n, n.id = call[c].target.id, Hit(c, n, call[c].by), call[c].pc = "click"
          PROVE  NamedRetryHitsItsNode'
      <4>1. /\ hit'.by = call[c].by /\ hit'.there = call[c].there /\ hit'.node = n
            /\ hit'.meant = call[c].node
        BY <3>4 DEF Hit
      <4> QED
        BY <2>0, <3>4, <4>1 DEF NamedRetryHitsItsNode, Resolved, Named
    <3> QED
      BY <1>0, <3>2, <3>3, <3>4 DEF RetryInv, NamedRetryHitsItsNode
  <2> QED
    BY <1>3, <2>1, <2>2, <2>3 DEF Act
<1>4. ASSUME NEW c \in Calls, \/ c \in Taps /\ Ground(c)
                             \/ Look(c) \/ ReadClock(c) \/ Walk(c) \/ FrameReturns(c)
      PROVE  RetryInv'
  <2>1. PICK p : /\ p # "click"
                 /\ \E r : call' = [call EXCEPT ![c] = r] /\ r.pc = p
    <3>1. CASE Ground(c)
      <4>1. PICK r \in Listed(shown) \cup Marked(shown) :
          IF r \in DOMAIN current.nodes
          THEN call' = [call EXCEPT ![c] =
                          [call[c] EXCEPT !.pc = "queued", !.ref = r,
                                          !.node = current.nodes[r],
                                          !.version = current.version,
                                          !.stable = ToSelector(current.nodes[r], current),
                                          !.calm = current = shown]]
          ELSE call' = [call EXCEPT ![c] = [call[c] EXCEPT !.pc = "done"]]
        BY <3>1 DEF Ground, Goto
      <4> DEFINE f == [call[c] EXCEPT !.pc = "queued", !.ref = r,
                                      !.node = current.nodes[r],
                                      !.version = current.version,
                                      !.stable = ToSelector(current.nodes[r], current),
                                      !.calm = current = shown]
                 g == [call[c] EXCEPT !.pc = "done"]
      <4>2. f.pc = "queued" /\ g.pc = "done"
        BY <1>0 DEF Typed, Fields
      <4>3. call' = [call EXCEPT ![c] = f] \/ call' = [call EXCEPT ![c] = g]
        BY <4>1
      <4> HIDE DEF f, g
      <4> QED
        BY <4>2, <4>3
    <3>2. CASE Look(c)
      <4>1. [call[c] EXCEPT !.pc = "observe"].pc = "observe"
        BY <1>0 DEF Typed, Fields
      <4> QED
        BY <3>2, <4>1 DEF Look, Goto
    <3>3. CASE ReadClock(c)
      <4>1. [call[c] EXCEPT !.pc = "walk", !.stamp = clock].pc = "walk"
        BY <1>0 DEF Typed, Fields
      <4> QED
        BY <3>3, <4>1 DEF ReadClock
    <3>4. CASE Walk(c)
      <4>1. [Idle EXCEPT !.pc = "frame", !.obs = current'].pc = "frame"
        BY DEF Idle
      <4> QED
        BY <3>4, <4>1 DEF Walk
    <3>5. CASE FrameReturns(c)
      <4>1. [Idle EXCEPT !.pc = "done"].pc = "done"
        BY DEF Idle
      <4> QED
        BY <3>5, <4>1 DEF FrameReturns, End, Turn
    <3> QED
      BY <1>4, <3>1, <3>2, <3>3, <3>4, <3>5
  <2>2. UNCHANGED hit
    BY <1>4 DEF Ground, Look, ReadClock, Walk, FrameReturns
  <2> QED
    BY <1>0, <1>1, <1>2, <2>1, <2>2 DEF RetryInv, NamedRetryHitsItsNode
<1>5. CASE Change
  <2>1. ASSUME NEW c \in Calls PROVE Resolved(call[c])'
    <3>1. call'[c] = IF call[c].pc = "find" THEN [call[c] EXCEPT !.calm = FALSE] ELSE call[c]
      BY <1>5 DEF Change
    <3>2. call[c].pc = "find" => call'[c].pc = "find"
      BY <1>0, <3>1 DEF Typed, Fields
    <3> QED
      BY <1>0, <3>1, <3>2 DEF Resolved
  <2> QED
    BY <1>0, <1>5, <2>1 DEF Change, RetryInv, NamedRetryHitsItsNode
<1>6. CASE Event \/ UNCHANGED vars
  BY <1>0, <1>6 DEF Event, vars, RetryInv, Resolved, NamedRetryHitsItsNode
<1> QED
  BY <1>3, <1>4, <1>5, <1>6 DEF Next, Finished, Calls

\* NamedRetryHitsItsNode of Refs: the version-independent retry of a stale ref
\* (grounding.act_ref, Resolver.kt) never hits another node while the node meant is still
\* there when the selector is resolved, if its view id, or its description alone, is what
\* named it: several matches without an index are AMBIGUOUS and the node is one of them.
THEOREM NamedRetryIsSafe == Spec => []NamedRetryHitsItsNode
<1>1. Init => RetryInv
  <2> SUFFICES ASSUME Init PROVE RetryInv
    OBVIOUS
  <2>1. \A c \in Calls : call[c].pc = "idle"
    BY DEF Init, Idle
  <2>2. hit.by # "stable"
    BY RefsAssumption DEF Init
  <2> QED
    BY <2>1, <2>2 DEF RetryInv, Resolved, NamedRetryHitsItsNode
<1>2. RetryInv => NamedRetryHitsItsNode
  BY DEF RetryInv
<1> QED
  BY <1>1, <1>2, RetryStep, TypeInvariance, PTL DEF Spec
=============================================================================
