-------------------------------- MODULE Refs --------------------------------
(***************************************************************************)
(* How a mark the model points at becomes a node the device acts on:       *)
(* annotate.py shows the refs, grounding.py and act_ref turn one into      *)
(* selectors, the device's Resolver.kt turns a selector into a live node.  *)
(* Between the three the screen changes and other calls re-observe; it     *)
(* changes too between the device's check, its walk and its click.         *)
(*                                                                         *)
(* Bounds have one dimension, <<left, right>>.  Text is a name; which text *)
(* contains which (containsCi) is the relation Contains.                   *)
(***************************************************************************)
EXTENDS Integers, Sequences, FiniteSets

CONSTANTS Taps, Looks,   \* screen_tap calls; screen_observe calls, without the lock
          Trees,         \* the screens: sequences of nodes, in pre-order
          Width,         \* of the screen
          Contains,      \* pairs <<text, what it contains>>
          None,          \* no view id, text or description; no node
          MaxChanges     \* bound: changes of the screen

Calls == Taps \cup Looks
NodesOf(t) == {t[k] : k \in DOMAIN t}
Nodes == UNION {NodesOf(t) : t \in Trees}

ASSUME RefsAssumption ==
    /\ Taps \cap Looks = {}
    /\ Width \in Nat /\ MaxChanges \in Nat
    /\ None \notin {"ref", "stable", "gesture"}
    /\ \A t \in Trees : t \in Seq(NodesOf(t))
    /\ \A n \in Nodes : \A s \in {n.text, n.desc} : s # None => <<s, s>> \in Contains
    /\ \A t \in Trees : \A j, k \in DOMAIN t : t[j].id = t[k].id => j = k

VARIABLES
    tree, clock,      \* the device: the screen and SnapshotClock
    late,             \* changes of the screen whose event is still to come
    current,          \* session.current_snapshot
    shown,            \* pending_observation: the screen the model was last given
    call,             \* per tool call: control point and locals
    lockQueue,        \* _act_lock: the holder, then the waiters
    hit               \* ghost: what the last act hit, by which binding, what was meant
                      \* and whether the version check saw all that changed

vars == <<tree, clock, late, current, shown, call, lockQueue, hit>>

-----------------------------------------------------------------------------
(* Pruner.kt, protocol.py and annotate.py *)

Keep(n) == n.visible /\ (n.clickable \/ n.text # None \/ n.desc # None)

\* A place's position among a set of places of a tree.
Rank(places, k) == Cardinality({j \in places : j <= k})

\* A ref is the index in the kept nodes.
Kept(t) ==
    LET kept == {k \in DOMAIN t : Keep(t[k])}
    IN  [r \in {Rank(kept, k) : k \in kept} |-> t[CHOOSE k \in kept : Rank(kept, k) = r]]

Actionable(n) == n.clickable \/ n.focusable

\* _visible: a node the platform calls visible may lie outside the viewport.
OnScreen(n) == n.bounds[1] < Width /\ n.bounds[2] > 0

\* tree_text lists the nodes on screen, set_of_marks draws the actionable ones of them.
Listed(s) == {r \in DOMAIN s.nodes : Width = 0 \/ OnScreen(s.nodes[r])}
Marked(s) == {r \in DOMAIN s.nodes : Actionable(s.nodes[r]) /\ OnScreen(s.nodes[r])}

-----------------------------------------------------------------------------
(* grounding.to_selector, 18-39, not acting immediately *)

\* Position among the nodes of the same text; an index of 0 is none.
TextIndex(n, s) ==
    Cardinality({k \in DOMAIN s.nodes :
                    /\ s.nodes[k].text = n.text
                    /\ \E j \in DOMAIN s.nodes : k <= j /\ s.nodes[j] = n})

Ambiguous(id, s) == Cardinality({k \in DOMAIN s.nodes : s.nodes[k].viewId = id}) > 1

Selector == [viewId |-> None, text |-> None, index |-> 0, desc |-> None,
             bounds |-> <<0, 0>>]

ToSelector(n, s) ==
    CASE n.viewId # None ->
           [Selector EXCEPT !.viewId = n.viewId,
                            !.text = IF Ambiguous(n.viewId, s) THEN n.text ELSE None]
      [] n.viewId = None /\ n.text # None ->
           [Selector EXCEPT !.text = n.text, !.index = TextIndex(n, s)]
      [] n.viewId = None /\ n.text = None /\ n.desc # None ->
           [Selector EXCEPT !.desc = n.desc]
      [] OTHER -> [Selector EXCEPT !.bounds = n.bounds]

-----------------------------------------------------------------------------
(* Resolver.kt *)

Holds(s, needle) == s # None /\ <<s, needle>> \in Contains

Matches(n, sel) ==
    /\ sel.viewId # None => n.viewId = sel.viewId
    /\ sel.text # None => Holds(n.text, sel.text) \/ Holds(n.desc, sel.text)
    /\ sel.desc # None => Holds(n.desc, sel.desc)

Chosen_First(t, matches, sel) ==   \* mutated form of Chosen
    IF matches = {} THEN None ELSE t[CHOOSE k \in matches : \A j \in matches : k <= j]

\* None of the matches, the only one, the index-th, or AMBIGUOUS.
Chosen(t, matches, sel) ==
    LET at == {k \in matches : matches = {k} \/ Rank(matches, k) = sel.index}
    IN  IF at = {} THEN None ELSE t[CHOOSE k \in at : TRUE]

Centre(b) == (b[1] + b[2]) \div 2

\* The smallest visible node over the point; the first in pre-order of equals.
Over(t, x) ==
    LET under == {k \in DOMAIN t :
                    t[k].visible /\ t[k].bounds[1] <= x /\ x <= t[k].bounds[2]}
        size(k) == t[k].bounds[2] - t[k].bounds[1]
        least == {k \in under : \A j \in under :
                    size(k) < size(j) \/ (size(k) = size(j) /\ k <= j)}
    IN  IF under = {} THEN None ELSE t[CHOOSE k \in least : TRUE]

Resolve(t, sel) ==
    IF sel.viewId = None /\ sel.text = None /\ sel.desc = None
    THEN Over(t, Centre(sel.bounds))
    ELSE Chosen(t, {k \in DOMAIN t : t[k].visible /\ Matches(t[k], sel)}, sel)

-----------------------------------------------------------------------------
(* State *)

Snapshots == [version : 0..MaxChanges, nodes : {Kept(t) : t \in Trees}]

\* A tool call: its ref's node and version, the selector kept for the retry; the node the
\* device found and by which binding; the version stamped on the observation under way and
\* the snapshot it returned.  Ghosts: calm, there.
Idle == [pc |-> "idle", ref |-> 0, node |-> None, version |-> 0, stable |-> Selector,
         target |-> None, by |-> None, calm |-> FALSE, there |-> FALSE,
         stamp |-> 0, obs |-> None]

TypeOK ==
    /\ tree \in Trees /\ clock \in 0..MaxChanges /\ late \in 0..MaxChanges
    /\ current \in Snapshots /\ shown \in Snapshots
    /\ \A c \in Calls :
          /\ call[c].pc \in {"idle", "queued", "find", "click", "retry", "gesture",
                             "observe", "walk", "frame", "done"}
          /\ call[c].ref \in Nat /\ call[c].version \in 0..MaxChanges
          /\ call[c].node \in Nodes \cup {None}
          /\ call[c].stable.index \in Nat
          /\ call[c].by \in {None, "ref", "stable"} /\ call[c].calm \in BOOLEAN
          /\ call[c].there \in BOOLEAN
          /\ call[c].stamp \in 0..MaxChanges /\ call[c].obs \in Snapshots \cup {None}
    /\ lockQueue \in Seq(Taps)
          /\ \A c \in Taps : (\E k \in DOMAIN lockQueue : lockQueue[k] = c) <=>
                                call[c].pc \notin {"idle", "done"}
    /\ hit.by \in {None, "ref", "stable", "gesture"}

\* The screen was observed and shown.
Init ==
    /\ tree \in Trees
    /\ clock = 0 /\ late = 0
    /\ current = [version |-> 0, nodes |-> Kept(tree)]
    /\ shown = current
    /\ call = [c \in Calls |-> Idle]
    /\ lockQueue = <<>> /\ hit = [by |-> None]

-----------------------------------------------------------------------------
(* Mutated forms of definitions: the slips the properties exclude. *)

Fresh_Always(version) == TRUE
End_KeepsLock(c) == call' = [call EXCEPT ![c] = [Idle EXCEPT !.pc = "done"]] /\ UNCHANGED lockQueue

-----------------------------------------------------------------------------
(* The controller *)

Goto(c, pc) == call' = [call EXCEPT ![c].pc = pc]
Turn(c, pc) == call' = [call EXCEPT ![c] = [Idle EXCEPT !.pc = pc]]   \* past its locals
UnchangedDevice == UNCHANGED <<tree, clock, late>>
UnchangedViews == UNCHANGED <<current, shown>>

\* act_ref, 226-242: the model points at a ref of the screen it was shown; the selectors
\* are of the session's current snapshot.
Ground(c) ==
    /\ call[c].pc = "idle"
    /\ \E r \in Listed(shown) \cup Marked(shown) :
         IF r \in DOMAIN current.nodes
         THEN LET n == current.nodes[r] IN
              /\ call' = [call EXCEPT ![c] =
                            [@ EXCEPT !.pc = "queued", !.ref = r, !.node = n,
                                      !.version = current.version,
                                      !.stable = ToSelector(n, current),
                                      !.calm = current = shown]]
              /\ lockQueue' = Append(lockQueue, c)
         ELSE Goto(c, "done") /\ UNCHANGED lockQueue
    /\ UnchangedDevice /\ UnchangedViews /\ UNCHANGED hit

Look(c) ==
    /\ call[c].pc = "idle"
    /\ Goto(c, "observe")
    /\ UnchangedDevice /\ UnchangedViews /\ UNCHANGED <<lockQueue, hit>>

\* A tap leaves the lock it holds.
End(c) ==
    /\ Turn(c, "done")
    /\ lockQueue' = IF c \in Taps THEN Tail(lockQueue) ELSE lockQueue

\* The frame is in: the observation is the pending one and goes to the model.  Without a
\* frame the call ends in an error, and the snapshot stays the session's.
FrameReturns(c) ==
    /\ call[c].pc = "frame"
    /\ End(c)
    /\ shown' \in {call[c].obs, shown}
    /\ UnchangedDevice /\ UNCHANGED <<current, hit>>

-----------------------------------------------------------------------------
(* The device: one request at a time *)

DeviceIdle == \A c \in Calls : call[c].pc \notin {"find", "click", "walk"}
HoldsLock(c) == Head(lockQueue) = c

Fresh(version) == version = clock

\* A call whose ref the device has accepted.
Accepted(r) == [r EXCEPT !.pc = "find", !.calm = @ /\ late = 0]

\* act with the version-bound ref: STALE, or the version is the clock's and the tree is
\* walked next.
CheckVersion(c) ==
    /\ call[c].pc = "queued" /\ HoldsLock(c) /\ DeviceIdle
    /\ call' = [call EXCEPT ![c] =
                  IF Fresh(call[c].version)
                  THEN Accepted(call[c]) ELSE [call[c] EXCEPT !.pc = "retry"]]
    /\ UNCHANGED hit

\* The resolver has a live node to act on, or answers NOT_FOUND or AMBIGUOUS.
Found(c, n, by) ==
    /\ IF n = None THEN Turn(c, "observe")
       ELSE call' = [call EXCEPT ![c] =
                       [@ EXCEPT !.pc = "click", !.target = n, !.by = by,
                                 !.there = call[c].node \in NodesOf(tree)]]
    /\ UNCHANGED hit

\* The node at the ref's place among the kept ones of the tree as it is by now.
FindByRef(c) ==
    LET q == Kept(tree) IN
    /\ call[c].pc = "find"
    /\ Found(c, IF call[c].ref \in DOMAIN q THEN q[call[c].ref] ELSE None, "ref")

\* STALE is retried once with the version-independent selector.
FindByStable(c) ==
    /\ call[c].pc = "retry" /\ DeviceIdle
    /\ Found(c, Resolve(tree, call[c].stable), "stable")

Hit(c, n, by) ==
    hit' = [meant |-> call[c].node, node |-> n, by |-> by,
            calm |-> call[c].calm, there |-> call[c].there]

\* CLICK goes to the node the walk held, whatever it shows by now; one that is gone or
\* not clickable refuses it.
Click(c) ==
    LET live == {n \in NodesOf(tree) : n.id = call[c].target.id /\ n.clickable} IN
    /\ call[c].pc = "click"
    /\ \/ \E n \in live : Hit(c, n, call[c].by) /\ Turn(c, "observe")
       \/ /\ live = {} /\ UNCHANGED hit
          /\ IF call[c].by = "ref" THEN Goto(c, "gesture") ELSE Turn(c, "observe")

\* A refused click is retried as a tap at the centre of the bounds it was grounded with.
ActByGesture(c) ==
    /\ call[c].pc = "gesture" /\ DeviceIdle
    /\ Hit(c, Over(tree, Centre(call[c].node.bounds)), "gesture")
    /\ Turn(c, "observe")

Act(c) ==
    /\ \/ CheckVersion(c) \/ FindByRef(c) \/ FindByStable(c)
       \/ Click(c) \/ ActByGesture(c)
    /\ UnchangedDevice /\ UnchangedViews /\ UNCHANGED lockQueue

\* observe reads the clock, then walks the tree; the answer becomes the session's
\* snapshot before its frame is in.
ReadClock(c) ==
    /\ call[c].pc = "observe" /\ DeviceIdle
    /\ call' = [call EXCEPT ![c].pc = "walk", ![c].stamp = clock]
    /\ UnchangedDevice /\ UnchangedViews /\ UNCHANGED <<lockQueue, hit>>

Walk(c) ==
    /\ call[c].pc = "walk"
    /\ current' = [version |-> call[c].stamp, nodes |-> Kept(tree)]
    /\ call' = [call EXCEPT ![c] = [Idle EXCEPT !.pc = "frame", !.obs = current']]
    /\ UnchangedDevice /\ UNCHANGED <<shown, lockQueue, hit>>

\* The screen changes by itself or by an act, and its event advances the clock later.
Change ==
    /\ clock + late < MaxChanges
    /\ tree' \in Trees
    /\ late' = late + 1
    /\ call' = [c \in Calls |-> IF call[c].pc = "find" THEN [call[c] EXCEPT !.calm = FALSE]
                               ELSE call[c]]
    /\ UNCHANGED <<clock, current, shown, lockQueue, hit>>

Event ==
    /\ late > 0
    /\ late' = late - 1
    /\ clock' = clock + 1
    /\ UNCHANGED <<tree, current, shown, call, lockQueue, hit>>

-----------------------------------------------------------------------------
Finished == (\A c \in Calls : call[c].pc = "done") /\ UNCHANGED vars

Next ==
    \/ \E c \in Taps : Ground(c) \/ Act(c)
    \/ \E c \in Looks : Look(c)
    \/ \E c \in Calls : ReadClock(c) \/ Walk(c) \/ FrameReturns(c)
    \/ Change \/ Event \/ Finished

Spec == Init /\ [][Next]_vars

-----------------------------------------------------------------------------
(* Properties *)

\* A ref the device accepts hits the node the model was shown under it, however often the
\* screen changed and was re-observed since, and although it may change again before the
\* click lands (to_selector's "rejects it with STALE if the world moved", grounding.py:22-23,
\* as far as it goes): if the session's snapshot was still the one shown when the ref was
\* grounded, every change had had its event when the version was checked (Resolver.kt:47),
\* and none came between that check and the walk (51).  Each of the three can fail in the
\* code, and the ref then names another node.
RefHitsItsNode == hit.by = "ref" /\ hit.calm => hit.node.id = hit.meant.id

\* The retry of a stale ref never hits another node while the one meant is still there
\* when the selector is resolved, unless it was named by its text or its place.
NamedRetryHitsItsNode ==
    /\ hit.by = "stable" /\ hit.there
    /\ hit.meant.viewId # None \/ (hit.meant.text = None /\ hit.meant.desc # None)
    => hit.node.id = hit.meant.id

\* "this resolves the same node in the CURRENT tree" (controller.py:238-240): the retry
\* hits the node meant, if that is still there as it was.
RetryHitsItsNode == hit.by = "stable" /\ hit.there => hit.node.id = hit.meant.id
=============================================================================
