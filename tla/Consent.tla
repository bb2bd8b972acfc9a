------------------------------ MODULE Consent ------------------------------
(***************************************************************************)
(* The operator's consent on the Android bridge: CommandRouter.kt's        *)
(* configure, approve, deny, revoke and resetSession, the SessionStore they*)
(* write and the ConsentOverlay they raise and take down, over ConsentGate.*)
(*                                                                         *)
(* Three threads share them: the router coroutine (configure), the main    *)
(* thread (the card and its buttons, the console's revoke) and the socket  *)
(* thread (resetSession).  Each statement on shared state is a step.  What *)
(* any thread does to the card is posted to the main thread.               *)
(***************************************************************************)
EXTENDS ConsentGate, Sequences

CONSTANTS NoCard,           \* nothing on screen
          MaxPosts          \* bound: posts the main thread lags behind

ASSUME ConsentAssumption == MaxPosts \in Nat

VARIABLES
    scope,          \* SessionStore: the live packageScope
    promptActive,   \* consentPromptActive
    card,           \* ConsentOverlay.view: the generation and packages it names
    posts,          \* the main thread's queue: cards to show, NoCard to hide
    router, ui, sock,      \* the three threads
    requested, allowed, given   \* ghosts: last scope asked for; packages allowed on a card
                                \* and not retracted since; packages ever allowed on a card

vars == <<gateVars, scope, promptActive, card, posts, router, ui, sock, requested,
          allowed, given>>

\* A card always names something.
Card == [gen : 1..MaxGeneration, pkgs : (SUBSET Pkgs) \ {{}}]
Router == [pc : {"idle", "raise", "flag", "moot", "unflag", "apply"},
           effective : SUBSET Pkgs, prompt : Card \cup {NoCard}]
Ui == [pc : {"idle", "scope", "unflag", "dismiss", "hide"},
       effective : SUBSET Pkgs, button : BOOLEAN]

TypeOK ==
    /\ GateTypeOK
    /\ scope \in SUBSET Pkgs
    /\ promptActive \in BOOLEAN
    /\ card \in Card \cup {NoCard}
    /\ posts \in Seq(Card \cup {NoCard})
    /\ router \in Router
    /\ ui \in Ui
    /\ sock \in {"idle", "abandon", "unflag", "dismiss"}
    /\ requested \in SUBSET Pkgs
    /\ allowed \in SUBSET Pkgs
    /\ given \in SUBSET Pkgs

RouterIdle == [pc |-> "idle", effective |-> {}, prompt |-> NoCard]
UiIdle == [pc |-> "idle", effective |-> {}, button |-> FALSE]

Init ==
    /\ GateInit
    /\ scope = {} /\ promptActive = FALSE
    /\ card = NoCard /\ posts = <<>>
    /\ router = RouterIdle /\ ui = UiIdle /\ sock = "idle"
    /\ requested = {} /\ allowed = {} /\ given = {}

\* Bound: nothing that posts is begun when the main thread is MaxPosts posts behind.
Room == Len(posts) < MaxPosts

Post(c) == posts' = Append(posts, c)

\* Mutated forms of the two definitions below.
Effective_AsRequested(args) == args
NeedsConsent_Always == TRUE

-----------------------------------------------------------------------------
(* The router coroutine: configure, 185-212 *)

\* The scope a configure may install: what the gate returned.
Effective(args) == consented'

NeedsConsent == pending' # {}

Configure(args) ==
    /\ router.pc = "idle"
    /\ Request(args)
    /\ requested' = args
    /\ allowed' = allowed \cap args
    /\ router' = IF NeedsConsent
                 THEN [pc |-> "raise", effective |-> Effective(args),
                       prompt |-> [gen |-> generation', pkgs |-> pending']]
                 ELSE [pc |-> "moot", effective |-> Effective(args), prompt |-> NoCard]
    /\ UNCHANGED <<scope, promptActive, card, posts, ui, sock, given>>

RouterGoes(pc) == router' = [router EXCEPT !.pc = pc]

RaisePrompt ==
    /\ router.pc = "raise"
    /\ Room /\ Post(router.prompt)
    /\ RouterGoes("flag")
    /\ UNCHANGED promptActive

SetFlag ==
    /\ router.pc = "flag"
    /\ promptActive' = TRUE
    /\ RouterGoes("apply")
    /\ UNCHANGED posts

\* A configure that widens nothing takes down the prompt that may be live.
MootPrompt ==
    /\ router.pc = "moot"
    /\ IF promptActive
       THEN Room /\ Post(NoCard) /\ RouterGoes("unflag")
       ELSE RouterGoes("apply") /\ UNCHANGED posts
    /\ UNCHANGED promptActive

MootFlag ==
    /\ router.pc = "unflag"
    /\ promptActive' = FALSE
    /\ RouterGoes("apply")
    /\ UNCHANGED posts

\* session.apply: the scope the gate returned, several steps ago.
ApplyScope ==
    /\ router.pc = "apply"
    /\ scope' = router.effective
    /\ router' = RouterIdle
    /\ UNCHANGED <<gateVars, promptActive, card, posts, ui, sock, requested, allowed, given>>

RouterStep ==
    \/ /\ RaisePrompt \/ SetFlag \/ MootPrompt \/ MootFlag
       /\ UNCHANGED <<gateVars, scope, card, ui, sock, requested, allowed, given>>
    \/ ApplyScope

-----------------------------------------------------------------------------
(* The main thread: the overlay's posts and buttons, approve, deny, revoke *)

\* ConsentOverlay.show replaces the card, hide removes whichever is up.
RunPost ==
    /\ ui.pc = "idle"
    /\ posts # <<>>
    /\ card' = Head(posts)
    /\ posts' = Tail(posts)
    /\ UNCHANGED <<gateVars, scope, promptActive, router, ui, sock, requested, allowed, given>>

\* A button's listener runs its callback and then hides the overlay, stale or not.
Allow ==
    /\ ui.pc = "idle" /\ Room
    /\ card # NoCard
    /\ allowed' = allowed \cup card.pkgs
    /\ given' = given \cup card.pkgs
    /\ \/ /\ Approve(card.gen)
          /\ ui' = [pc |-> "scope", effective |-> consented', button |-> TRUE]
       \/ /\ Stale(card.gen)
          /\ ui' = [pc |-> "hide", effective |-> {}, button |-> TRUE]
    /\ UNCHANGED <<scope, promptActive, card, posts, router, sock, requested>>

DenyTap ==
    /\ ui.pc = "idle" /\ Room
    /\ card # NoCard
    /\ \/ /\ Deny(card.gen)
          /\ ui' = [pc |-> "unflag", effective |-> {}, button |-> TRUE]
       \/ /\ Stale(card.gen)
          /\ ui' = [pc |-> "hide", effective |-> {}, button |-> TRUE]
    /\ UNCHANGED <<scope, promptActive, card, posts, router, sock, requested, allowed, given>>

\* revokeConsent: the console's button, or another daemon's settings.
RevokeTap ==
    /\ ui.pc = "idle" /\ Room
    /\ Revoke
    /\ allowed' = {}
    /\ ui' = [pc |-> "scope", effective |-> {}, button |-> FALSE]
    /\ UNCHANGED <<scope, promptActive, card, posts, router, sock, requested, given>>

\* session.setScope of the value computed under the gate's lock.
UiScope ==
    /\ ui.pc = "scope"
    /\ scope' = ui.effective
    /\ ui' = [ui EXCEPT !.pc = "unflag"]
    /\ UNCHANGED <<promptActive, posts>>

UiUnflag ==
    /\ ui.pc = "unflag"
    /\ promptActive' = FALSE
    /\ ui' = [ui EXCEPT !.pc = "dismiss"]
    /\ UNCHANGED <<scope, posts>>

UiDismiss ==
    /\ ui.pc = "dismiss"
    /\ Post(NoCard)
    /\ ui' = IF ui.button THEN [ui EXCEPT !.pc = "hide"] ELSE UiIdle
    /\ UNCHANGED <<scope, promptActive>>

UiHide ==
    /\ ui.pc = "hide"
    /\ Post(NoCard)
    /\ ui' = UiIdle
    /\ UNCHANGED <<scope, promptActive>>

UiStep ==
    /\ UiScope \/ UiUnflag \/ UiDismiss \/ UiHide
    /\ UNCHANGED <<gateVars, card, router, sock, requested, allowed, given>>

-----------------------------------------------------------------------------
(* The socket thread: resetSession, 92-103, on connect and on disconnect *)

Reset ==
    /\ sock = "idle"
    /\ scope' = {}
    /\ sock' = "abandon"
    /\ UNCHANGED <<gateVars, promptActive, card, posts, router, ui, requested, allowed, given>>

ResetAbandon ==
    /\ sock = "abandon"
    /\ AbandonPending
    /\ sock' = "unflag"
    /\ UNCHANGED <<scope, promptActive, card, posts, router, ui, requested, allowed, given>>

ResetFlag ==
    /\ sock = "unflag"
    /\ promptActive' = FALSE
    /\ sock' = "dismiss"
    /\ UNCHANGED <<gateVars, scope, card, posts, router, ui, requested, allowed, given>>

ResetDismiss ==
    /\ sock = "dismiss"
    /\ Room /\ Post(NoCard)
    /\ sock' = "idle"
    /\ UNCHANGED <<gateVars, scope, promptActive, card, router, ui, requested, allowed, given>>

SocketStep == ResetAbandon \/ ResetFlag \/ ResetDismiss

-----------------------------------------------------------------------------
Next ==
    \/ \E args \in SUBSET Pkgs : Configure(args)
    \/ RouterStep
    \/ RunPost \/ Allow \/ DenyTap \/ RevokeTap \/ UiStep
    \/ Reset \/ SocketStep

Spec == Init /\ [][Next]_vars

-----------------------------------------------------------------------------
(* Properties *)

\* An Allow grants what the card the operator tapped named, and no more: a tap on a card
\* that a later request superseded never approves the packages of the later one.
ConsentWasGiven == consented \subseteq allowed

\* Consent maps to currently requested access (ConsentGate.kt:27): what the daemon drops
\* is retracted, and no decision brings it back.
ConsentedIsRequested == consented \cup pending \subseteq requested

\* Whatever configures, decisions, revocations and reconnects interleave, the live scope
\* holds only packages that stood on a card the operator allowed.
ScopeWasGiven == scope \subseteq given

Quiescent == router.pc = "idle" /\ ui.pc = "idle" /\ sock = "idle" /\ posts = <<>>

\* "an un-consented package is simply not in scope" (ConsentGate.kt:8): once every thread
\* is through, the live scope is within the consent.
ScopeIsConsented == Quiescent => scope \subseteq consented
=============================================================================
