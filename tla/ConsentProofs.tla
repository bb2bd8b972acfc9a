--------------------------- MODULE ConsentProofs ---------------------------
(***************************************************************************)
(* Proofs about Consent, for any set of packages and any bounds: what the  *)
(* consent and the live scope may hold, whatever the three threads do.     *)
(***************************************************************************)
EXTENDS Consent, SequenceTheorems, TLAPS

-----------------------------------------------------------------------------
(* The inductive invariant *)

\* A card that is up, on its way to the screen, or about to be sent there.
IsPrompt(c) ==
    /\ c # NoCard
    /\ c = card \/ c = router.prompt \/ \E k \in 1..Len(posts) : c = posts[k]

\* No card is of a generation to come, and one of the newest names just what is pending,
\* unless that was decided or abandoned.
PromptsNamePending ==
    \A c \in Card : IsPrompt(c) =>
        /\ c.gen <= generation
        /\ c.gen = generation /\ pending # {} => c.pkgs = pending

\* Values computed under the gate's lock and not yet written to the live scope.
ComputedWasGiven ==
    allowed \subseteq given /\ router.effective \subseteq given /\ ui.effective \subseteq given

IInv ==
    /\ TypeOK
    /\ PromptsNamePending
    /\ ConsentWasGiven
    /\ ConsentedIsRequested
    /\ ComputedWasGiven
    /\ ScopeWasGiven

\* A service that has just started satisfies the invariant: nothing is consented or in scope.
LEMMA InitEstablishes == Init => IInv
<1> SUFFICES ASSUME Init PROVE IInv
    OBVIOUS
<1> USE DEF Init, GateInit, RouterIdle, UiIdle
<1>1. TypeOK
  <2>1. router \in Router /\ ui \in Ui
    BY DEF Router, Ui
  <2>2. GateTypeOK
    BY GateAssumption DEF GateTypeOK
  <2>3. posts \in Seq(Card \cup {NoCard})
    OBVIOUS
  <2>4. QED
    BY <2>1, <2>2, <2>3 DEF TypeOK
<1>2. PromptsNamePending
  BY DEF PromptsNamePending, IsPrompt
<1>3. ConsentWasGiven /\ ConsentedIsRequested /\ ComputedWasGiven /\ ScopeWasGiven
  BY DEF ConsentWasGiven, ConsentedIsRequested, ComputedWasGiven, ScopeWasGiven
<1>4. QED
  BY <1>1, <1>2, <1>3 DEF IInv

-----------------------------------------------------------------------------
(* Lemmas on cards and posts *)

\* Posting a card, or a request to hide it, keeps the queue's type and adds only that.
LEMMA Posting ==
    ASSUME NEW c \in Card \cup {NoCard}, posts \in Seq(Card \cup {NoCard}), Post(c)
    PROVE  /\ posts' \in Seq(Card \cup {NoCard})
           /\ \A d : (\E k \in 1..Len(posts') : d = posts'[k])
                        => d = c \/ \E k \in 1..Len(posts) : d = posts[k]
<1>1. posts' = Append(posts, c)
  BY DEF Post
<1>2. /\ posts' \in Seq(Card \cup {NoCard})
      /\ Len(posts') = Len(posts) + 1 /\ Len(posts) \in Nat
      /\ \A k \in 1..Len(posts) : posts'[k] = posts[k]
      /\ posts'[Len(posts) + 1] = c
  BY <1>1, AppendProperties
<1>3. QED
  BY <1>2

\* A step that adds no card and opens no request keeps the cards truthful.
LEMMA PromptsKept ==
    ASSUME PromptsNamePending, generation' = generation,
           pending' = pending \/ pending' = {},
           \A c \in Card : IsPrompt(c)' => IsPrompt(c)
    PROVE  PromptsNamePending'
BY DEF PromptsNamePending

-----------------------------------------------------------------------------
(* The steps of the router coroutine *)

LEMMA ConfigureKeeps ==
    ASSUME IInv, NEW args \in SUBSET Pkgs, Configure(args)
    PROVE  IInv'
<1> USE DEF IInv, Configure, Request, Retained, Effective, NeedsConsent
<1>1. /\ consented' \in SUBSET Pkgs /\ pending' \in SUBSET Pkgs
      /\ generation \in 0..MaxGeneration /\ generation' \in 0..MaxGeneration
      /\ \/ generation' = generation /\ pending' = {}
         \/ /\ pending' # {} /\ generation' = generation + 1
            /\ [gen |-> generation', pkgs |-> pending'] \in Card
  <2>1. consented' \in SUBSET Pkgs /\ pending' \in SUBSET Pkgs
    BY DEF TypeOK, GateTypeOK
  <2>2. generation \in 0..MaxGeneration /\ MaxGeneration \in Nat
    BY GateAssumption DEF TypeOK, GateTypeOK
  <2>3. CASE pending' # {}
    <3>1. generation' = generation + 1 /\ generation' \in 1..MaxGeneration
      BY <2>2, <2>3
    <3>2. [gen |-> generation', pkgs |-> pending'] \in Card
      BY <2>1, <2>3, <3>1 DEF Card
    <3>3. QED
      BY <2>1, <2>2, <2>3, <3>1, <3>2
  <2>4. CASE pending' = {}
    BY <2>1, <2>2, <2>4
  <2>5. QED
    BY <2>3, <2>4
<1>2. TypeOK'
  <2>1. router' \in Router
    BY <1>1 DEF Router, TypeOK
  <2>2. QED
    BY <1>1, <2>1 DEF TypeOK, GateTypeOK
<1>3. PromptsNamePending'
  <2>1. CASE pending' = {}
    <3>1. router'.prompt = NoCard
      BY <2>1
    <3>2. \A c \in Card : IsPrompt(c)' => IsPrompt(c)
      BY <3>1 DEF IsPrompt
    <3>3. QED
      BY <1>1, <2>1, <3>2, PromptsKept
  <2>2. CASE pending' # {}
    <3>1. router'.prompt = [gen |-> generation', pkgs |-> pending']
      BY <2>2
    <3>2. \A c \in Card : IsPrompt(c)' => IsPrompt(c) \/ c = router'.prompt
      BY DEF IsPrompt
    <3>3. \A c \in Card : c.gen \in Nat
      BY DEF Card
    <3>4. QED
      BY <1>1, <2>2, <3>1, <3>2, <3>3 DEF PromptsNamePending
  <2>3. QED
    BY <2>1, <2>2
<1>4. ConsentWasGiven' /\ ConsentedIsRequested'
  BY DEF ConsentWasGiven, ConsentedIsRequested
<1>5. ComputedWasGiven' /\ ScopeWasGiven'
  BY DEF ComputedWasGiven, ScopeWasGiven, ConsentWasGiven
<1>6. QED
  BY <1>2, <1>3, <1>4, <1>5

\* The statements of configure after the gate's answer keep the invariant, late as they run.
LEMMA RouterStepKeeps ==
    ASSUME IInv, RouterStep
    PROVE  IInv'
<1> USE DEF IInv, gateVars
<1>1. router.effective \in SUBSET Pkgs /\ router.prompt \in Card \cup {NoCard}
  BY DEF TypeOK, Router
<1>2. ASSUME NEW pc \in {"flag", "unflag", "apply"}, RouterGoes(pc)
      PROVE  /\ router' \in Router
             /\ router'.prompt = router.prompt /\ router'.effective = router.effective
  BY <1>2 DEF RouterGoes, TypeOK, Router
<1>3. ASSUME NEW c \in {router.prompt, NoCard}, Post(c) \/ UNCHANGED posts,
             NEW pc \in {"flag", "unflag", "apply"}, RouterGoes(pc),
             promptActive' \in BOOLEAN,
             UNCHANGED <<gateVars, scope, card, ui, sock, requested, allowed, given>>
      PROVE  IInv'
  <2>1. /\ router' \in Router
        /\ router'.prompt = router.prompt /\ router'.effective = router.effective
    BY <1>2, <1>3
  <2>2. /\ posts' \in Seq(Card \cup {NoCard})
        /\ \A d : (\E k \in 1..Len(posts') : d = posts'[k])
                     => d = c \/ \E k \in 1..Len(posts) : d = posts[k]
    BY <1>1, <1>3, Posting DEF TypeOK
  <2>3. TypeOK'
    BY <1>3, <2>1, <2>2 DEF TypeOK, GateTypeOK
  <2>4. \A d \in Card : IsPrompt(d)' => IsPrompt(d)
    BY <1>3, <2>1, <2>2 DEF IsPrompt
  <2>5. PromptsNamePending'
    BY <1>3, <2>4, PromptsKept
  <2>6. ConsentWasGiven' /\ ConsentedIsRequested' /\ ComputedWasGiven' /\ ScopeWasGiven'
    BY <1>3, <2>1 DEF ConsentWasGiven, ConsentedIsRequested, ComputedWasGiven, ScopeWasGiven
  <2>7. QED
    BY <2>3, <2>5, <2>6
<1>4. CASE (RaisePrompt \/ SetFlag \/ MootPrompt \/ MootFlag)
           /\ UNCHANGED <<gateVars, scope, card, ui, sock, requested, allowed, given>>
  <2>1. promptActive' \in BOOLEAN
    BY <1>4 DEF RaisePrompt, SetFlag, MootPrompt, MootFlag, TypeOK
  <2>2. CASE RaisePrompt
    BY <1>3, <1>4, <2>1, <2>2 DEF RaisePrompt
  <2>3. CASE SetFlag \/ MootFlag
    BY <1>3, <1>4, <2>1, <2>3 DEF SetFlag, MootFlag
  <2>4. CASE MootPrompt
    BY <1>3, <1>4, <2>1, <2>4 DEF MootPrompt
  <2>5. QED
    BY <1>4, <2>2, <2>3, <2>4
<1>5. CASE ApplyScope
  <2>1. router' = RouterIdle /\ scope' = router.effective
    BY <1>5 DEF ApplyScope
  <2>2. TypeOK'
    <3>1. router' \in Router
      BY <2>1 DEF RouterIdle, Router
    <3>2. QED
      BY <1>1, <1>5, <2>1, <3>1 DEF ApplyScope, TypeOK, GateTypeOK
  <2>3. \A d \in Card : IsPrompt(d)' => IsPrompt(d)
    BY <1>5, <2>1 DEF ApplyScope, RouterIdle, IsPrompt
  <2>4. PromptsNamePending'
    BY <1>5, <2>3, PromptsKept DEF ApplyScope
  <2>5. ConsentWasGiven' /\ ConsentedIsRequested' /\ ComputedWasGiven' /\ ScopeWasGiven'
    BY <1>5, <2>1 DEF ApplyScope, RouterIdle, ConsentWasGiven, ConsentedIsRequested,
                      ComputedWasGiven, ScopeWasGiven
  <2>6. QED
    BY <2>2, <2>4, <2>5
<1>6. QED
  BY <1>4, <1>5 DEF RouterStep

-----------------------------------------------------------------------------
(* The steps of the main thread *)

LEMMA RunPostKeeps ==
    ASSUME IInv, RunPost
    PROVE  IInv'
<1> USE DEF IInv, RunPost, gateVars
<1>1. /\ card' = posts[1] /\ card' \in Card \cup {NoCard}
      /\ posts' \in Seq(Card \cup {NoCard})
      /\ Len(posts) \in Nat /\ Len(posts) >= 1 /\ Len(posts') = Len(posts) - 1
      /\ \A k \in 1..Len(posts') : posts'[k] = posts[k + 1]
  <2>1. posts \in Seq(Card \cup {NoCard}) /\ posts # <<>>
    BY DEF TypeOK
  <2>2. QED
    BY <2>1, HeadTailProperties
<1>2. TypeOK'
  BY <1>1 DEF TypeOK, GateTypeOK
<1>3. \A c \in Card : IsPrompt(c)' => IsPrompt(c)
  BY <1>1 DEF IsPrompt
<1>4. PromptsNamePending'
  BY <1>3, PromptsKept
<1>5. ConsentWasGiven' /\ ConsentedIsRequested' /\ ComputedWasGiven' /\ ScopeWasGiven'
  BY DEF ConsentWasGiven, ConsentedIsRequested, ComputedWasGiven, ScopeWasGiven
<1>6. QED
  BY <1>2, <1>4, <1>5

\* The heart of the matter: what approve() grants is what the tapped card named.
LEMMA AllowKeeps ==
    ASSUME IInv, Allow
    PROVE  IInv'
<1> USE DEF IInv
<1>1. card \in Card /\ card.pkgs \in SUBSET Pkgs
  BY DEF Allow, TypeOK, Card
<1>2. /\ allowed' = allowed \cup card.pkgs /\ given' = given \cup card.pkgs
      /\ UNCHANGED <<scope, promptActive, card, posts, router, sock, requested>>
  BY DEF Allow
<1>3. CASE Approve(card.gen) /\ ui' = [pc |-> "scope", effective |-> consented', button |-> TRUE]
  <2>1. pending # {} /\ card.gen = generation /\ card.pkgs = pending
    BY <1>1, <1>3 DEF Approve, Matches, Allow, PromptsNamePending, IsPrompt
  <2>2. consented' = consented \cup card.pkgs /\ pending' = {} /\ generation' = generation
    BY <1>3, <2>1 DEF Approve
  <2>3. TypeOK'
    <3>1. ui' \in Ui
      BY <1>1, <1>3, <2>2 DEF TypeOK, GateTypeOK, Ui
    <3>2. QED
      BY <1>1, <1>2, <2>2, <3>1 DEF TypeOK, GateTypeOK
  <2>4. PromptsNamePending'
    BY <1>2, <2>2, PromptsKept DEF IsPrompt
  <2>5. ConsentWasGiven' /\ ConsentedIsRequested'
    BY <1>2, <2>1, <2>2 DEF ConsentWasGiven, ConsentedIsRequested
  <2>6. ComputedWasGiven' /\ ScopeWasGiven'
    BY <1>2, <1>3, <2>2 DEF ComputedWasGiven, ScopeWasGiven, ConsentWasGiven
  <2>7. QED
    BY <2>3, <2>4, <2>5, <2>6
<1>4. CASE Stale(card.gen) /\ ui' = [pc |-> "hide", effective |-> {}, button |-> TRUE]
  <2>1. TypeOK'
    <3>1. ui' \in Ui
      BY <1>4 DEF Ui
    <3>2. QED
      BY <1>1, <1>2, <1>4, <3>1 DEF Stale, gateVars, TypeOK, GateTypeOK
  <2>2. PromptsNamePending'
    BY <1>2, <1>4, PromptsKept DEF IsPrompt, Stale, gateVars
  <2>3. ConsentWasGiven' /\ ConsentedIsRequested' /\ ComputedWasGiven' /\ ScopeWasGiven'
    BY <1>2, <1>4 DEF Stale, gateVars, ConsentWasGiven, ConsentedIsRequested,
                      ComputedWasGiven, ScopeWasGiven
  <2>4. QED
    BY <2>1, <2>2, <2>3
<1>5. QED
  BY <1>3, <1>4 DEF Allow

\* A Deny, also on a card that was superseded, keeps the invariant.
LEMMA DenyTapKeeps ==
    ASSUME IInv, DenyTap
    PROVE  IInv'
<1> USE DEF IInv
<1>1. /\ consented' = consented /\ generation' = generation
      /\ pending' = pending \/ pending' = {}
      /\ UNCHANGED <<scope, promptActive, card, posts, router, sock, requested, allowed, given>>
  BY DEF DenyTap, Deny, Stale, gateVars
<1>2. ui' \in Ui /\ ui'.effective = {}
  <2>1. \E pc \in {"unflag", "hide"} : ui' = [pc |-> pc, effective |-> {}, button |-> TRUE]
    BY DEF DenyTap
  <2>2. QED
    BY <2>1 DEF Ui
<1>3. TypeOK'
  BY <1>1, <1>2 DEF TypeOK, GateTypeOK
<1>4. PromptsNamePending'
  BY <1>1, PromptsKept DEF IsPrompt
<1>5. ConsentWasGiven' /\ ConsentedIsRequested' /\ ComputedWasGiven' /\ ScopeWasGiven'
  BY <1>1, <1>2 DEF ConsentWasGiven, ConsentedIsRequested, ComputedWasGiven, ScopeWasGiven
<1>6. QED
  BY <1>3, <1>4, <1>5

\* A revocation keeps the invariant: it empties the grant and the ghost of what is allowed.
LEMMA RevokeTapKeeps ==
    ASSUME IInv, RevokeTap
    PROVE  IInv'
<1> USE DEF IInv, RevokeTap, Revoke
<1>1. ui' \in Ui /\ ui'.effective = {}
  BY DEF Ui
<1>2. TypeOK'
  BY <1>1 DEF TypeOK, GateTypeOK
<1>3. PromptsNamePending'
  BY PromptsKept DEF IsPrompt
<1>4. ConsentWasGiven' /\ ConsentedIsRequested' /\ ComputedWasGiven' /\ ScopeWasGiven'
  BY <1>1 DEF ConsentWasGiven, ConsentedIsRequested, ComputedWasGiven, ScopeWasGiven
<1>5. QED
  BY <1>2, <1>3, <1>4

\* The statements of a decision after the gate's answer keep the invariant.
LEMMA UiStepKeeps ==
    ASSUME IInv, UiStep
    PROVE  IInv'
<1> USE DEF IInv
<1>1. UNCHANGED <<gateVars, card, router, sock, requested, allowed, given>>
  BY DEF UiStep
<1>2. /\ posts' \in Seq(Card \cup {NoCard})
      /\ \A d : (\E k \in 1..Len(posts') : d = posts'[k])
                   => d = NoCard \/ \E k \in 1..Len(posts) : d = posts[k]
  <2>1. UNCHANGED posts \/ Post(NoCard)
    BY DEF UiStep, UiScope, UiUnflag, UiDismiss, UiHide
  <2>2. QED
    BY <2>1, Posting DEF TypeOK
<1>3. ui' \in Ui /\ (ui'.effective = ui.effective \/ ui'.effective = {})
  <2>1. UiIdle \in Ui /\ UiIdle.effective = {}
    BY DEF UiIdle, Ui
  <2>2. ASSUME NEW pc \in {"unflag", "dismiss", "hide"}, ui' = [ui EXCEPT !.pc = pc]
        PROVE  ui' \in Ui /\ ui'.effective = ui.effective
    BY <2>2 DEF TypeOK, Ui
  <2>3. QED
    BY <2>1, <2>2 DEF UiStep, UiScope, UiUnflag, UiDismiss, UiHide
<1>4. /\ scope' = scope \/ scope' = ui.effective
      /\ promptActive' \in BOOLEAN
      /\ ui.effective \in SUBSET Pkgs
  BY DEF UiStep, UiScope, UiUnflag, UiDismiss, UiHide, TypeOK, Ui
<1>5. TypeOK'
  BY <1>1, <1>2, <1>3, <1>4 DEF gateVars, TypeOK, GateTypeOK
<1>6. PromptsNamePending'
  BY <1>1, <1>2, PromptsKept DEF gateVars, IsPrompt
<1>7. ConsentWasGiven' /\ ConsentedIsRequested' /\ ComputedWasGiven' /\ ScopeWasGiven'
  BY <1>1, <1>3, <1>4 DEF gateVars, ConsentWasGiven, ConsentedIsRequested,
                          ComputedWasGiven, ScopeWasGiven
<1>8. QED
  BY <1>5, <1>6, <1>7

-----------------------------------------------------------------------------
(* The steps of the socket thread *)

LEMMA ResetKeeps ==
    ASSUME IInv, Reset \/ SocketStep
    PROVE  IInv'
<1> USE DEF IInv, Reset, SocketStep, ResetAbandon, ResetFlag, ResetDismiss, AbandonPending,
            gateVars
<1>1. UNCHANGED <<consented, generation, card, router, ui, requested, allowed, given>>
  OBVIOUS
<1>2. /\ posts' \in Seq(Card \cup {NoCard})
      /\ \A d : (\E k \in 1..Len(posts') : d = posts'[k])
                   => d = NoCard \/ \E k \in 1..Len(posts) : d = posts[k]
  <2>1. UNCHANGED posts \/ Post(NoCard)
    OBVIOUS
  <2>2. QED
    BY <2>1, Posting DEF TypeOK
<1>3. /\ scope' = scope \/ scope' = {}
      /\ pending' = pending \/ pending' = {}
      /\ promptActive' \in BOOLEAN
      /\ sock' \in {"idle", "abandon", "unflag", "dismiss"}
  BY DEF TypeOK
<1>4. TypeOK'
  BY <1>1, <1>2, <1>3 DEF TypeOK, GateTypeOK
<1>5. PromptsNamePending'
  BY <1>1, <1>2, <1>3, PromptsKept DEF IsPrompt
<1>6. ConsentWasGiven' /\ ConsentedIsRequested' /\ ComputedWasGiven' /\ ScopeWasGiven'
  BY <1>1, <1>3 DEF ConsentWasGiven, ConsentedIsRequested, ComputedWasGiven, ScopeWasGiven
<1>7. QED
  BY <1>4, <1>5, <1>6

-----------------------------------------------------------------------------
(* The invariants of the specification *)

LEMMA NextKeeps ==
    ASSUME IInv, [Next]_vars
    PROVE  IInv'
<1>1. CASE UNCHANGED vars
  BY <1>1 DEF vars, gateVars, IInv, TypeOK, GateTypeOK, PromptsNamePending, IsPrompt,
              ConsentWasGiven, ConsentedIsRequested, ComputedWasGiven, ScopeWasGiven
<1>2. QED
  BY <1>1, ConfigureKeeps, RouterStepKeeps, RunPostKeeps, AllowKeeps, DenyTapKeeps,
     RevokeTapKeeps, UiStepKeeps, ResetKeeps DEF Next

\* The inductive invariant holds of every state of the gate, its three threads and the card.
THEOREM Invariance == Spec => []IInv
<1>1. QED
  BY InitEstablishes, NextKeeps, PTL DEF Spec

\* No thread leaves the gate, the scope, the card or its queue outside their types: what is
\* raised is a card that names something, under a generation that was drawn for it.
THEOREM TypeCorrect == Spec => []TypeOK
<1>1. IInv => TypeOK
  BY DEF IInv
<1>2. QED
  BY <1>1, Invariance, PTL

\* An Allow grants what the tapped card named, whatever was requested since it was raised.
THEOREM GrantIsNamed == Spec => []ConsentWasGiven
<1>1. IInv => ConsentWasGiven
  BY DEF IInv
<1>2. QED
  BY <1>1, Invariance, PTL

\* Consent, given or asked for, stays within the scope the daemon requested last.
THEOREM ConsentWithinRequest == Spec => []ConsentedIsRequested
<1>1. IInv => ConsentedIsRequested
  BY DEF IInv
<1>2. QED
  BY <1>1, Invariance, PTL

\* The live scope, which three threads write without a common lock, holds only packages
\* the operator allowed on a card.
THEOREM ScopeWithinGiven == Spec => []ScopeWasGiven
<1>1. IInv => ScopeWasGiven
  BY DEF IInv
<1>2. QED
  BY <1>1, Invariance, PTL
=============================================================================
