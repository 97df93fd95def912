---------------------------- MODULE AppProtection ----------------------------
(***************************************************************************)
(* The auto-lock and the clipboard of the application:                       *)
(* usbvault-app/src/services/security/appProtection.ts as                    *)
(* app/_layout.tsx uses it.                                                  *)
(*                                                                          *)
(* The application state goes from active through inactive to background and *)
(* back.  Leaving arms a timer that locks the vault and wipes the clipboard; *)
(* a copied password has a timer that reads the clipboard and clears it.     *)
(* Calls to the clipboard are asynchronous.  The hook is set up again        *)
(* whenever the root layout renders: its configuration is a new object each  *)
(* time.  The layout renders when isAuthenticated changes, so after every     *)
(* lock, and when the theme changes.                                         *)
(*                                                                          *)
(* Left out: the prevention of screenshots, which is a call to the platform. *)
(***************************************************************************)
EXTENDS Naturals, FiniteSets

CONSTANTS
    Copies,        \* copies of a password, each of its own text
    LockTimers,    \* auto-lock timers
    NoTimer,       \* null
    ClipboardFails \* TRUE: a call to the clipboard may fail

ASSUME ProtectionAssumption ==
    /\ NoTimer \notin LockTimers
    /\ {"empty", "own"} \cap Copies = {}
    /\ ClipboardFails \in BOOLEAN

VARIABLES
    appState,     \* AppState
    unlocked,     \* isAuthenticated: the session keys are in memory
    renderDue,    \* the root layout will render
    autoLock,     \* autoLockTimeout
    armed,        \* auto-lock timers that have not fired and were not cleared
    clipboard,    \* the clipboard: "empty", "own" for the user's own text, or a copy
    copyAt,       \* copyWithAutoClear of each copy
    wiping,       \* clearClipboardImmediately waits for the clipboard
    forgotten,    \* history: copies left on the clipboard by a render or a failing call
    lockedInFront \* history: a timer locked the vault while the application was active

ProtectionVars ==
    <<appState, unlocked, renderDue, autoLock, armed, clipboard, copyAt, wiping, forgotten,
      lockedInFront>>

(* The type invariant.                                                       *)
ProtectionTypeOK ==
    /\ appState \in {"active", "inactive", "background"}
    /\ unlocked \in BOOLEAN /\ renderDue \in BOOLEAN /\ wiping \in BOOLEAN /\ lockedInFront \in BOOLEAN
    /\ autoLock \in LockTimers \cup {NoTimer} /\ armed \subseteq LockTimers
    /\ clipboard \in Copies \cup {"empty", "own"} /\ forgotten \subseteq Copies
    /\ copyAt \in [Copies -> {"none", "set", "timer", "read", "clear", "done"}]

ProtectionInit ==
    /\ appState = "active" /\ unlocked = FALSE /\ renderDue = FALSE
    /\ autoLock = NoTimer /\ armed = {}
    /\ clipboard = "empty" /\ wiping = FALSE /\ forgotten = {} /\ lockedInFront = FALSE
    /\ copyAt = [c \in Copies |-> "none"]

-----------------------------------------------------------------------------
LockVars == <<appState, unlocked, renderDue, autoLock, armed, lockedInFront>>
ClipVars == <<clipboard, copyAt, wiping, forgotten>>

CopyGoes(c, at) == copyAt' = [copyAt EXCEPT ![c] = at]
TimersCleared == [c \in Copies |-> IF copyAt[c] = "timer" THEN "done" ELSE copyAt[c]]

UnlockVault ==
    /\ appState = "active" /\ ~unlocked
    /\ unlocked' = TRUE /\ renderDue' = TRUE
    /\ UNCHANGED <<appState, autoLock, armed, lockedInFront, ClipVars>>

(* A new timer; one that was armed before is not cleared.                    *)
Leaves ==
    \E t \in LockTimers \ armed :
        autoLock' = t /\ armed' = armed \cup {t}

(* clearClipboardImmediately stops the timers and then clears the clipboard. *)
handleAppStateChange(state) ==
    /\ <<appState, state>> \in {<<"active", "inactive">>, <<"inactive", "background">>,
                                <<"active", "background">>}
    /\ appState' = state
    /\ Leaves
    /\ copyAt' = TimersCleared /\ wiping' = TRUE
    /\ UNCHANGED <<unlocked, renderDue, clipboard, forgotten, lockedInFront>>

(* Back in front: the current timer is cleared.                              *)
BackInFront ==
    /\ appState # "active"
    /\ appState' = "active"
    /\ armed' = armed \ {autoLock} /\ autoLock' = NoTimer
    /\ UNCHANGED <<unlocked, renderDue, lockedInFront, ClipVars>>

(* onLock wipes the session keys and locks; when the vault was unlocked the  *)
(* root layout renders.                                                      *)
TimerLocks(t) ==
    /\ t \in armed
    /\ armed' = armed \ {t}
    /\ unlocked' = FALSE /\ renderDue' = (renderDue \/ unlocked)
    /\ lockedInFront' = (lockedInFront \/ (appState = "active" /\ unlocked))
    /\ UNCHANGED <<appState, autoLock, ClipVars>>

(* pagehide locks at once.                                                   *)
onPageHide ==
    /\ unlocked /\ unlocked' = FALSE /\ renderDue' = TRUE
    /\ UNCHANGED <<appState, autoLock, armed, lockedInFront, ClipVars>>

-----------------------------------------------------------------------------
(* copyWithAutoClear: the clipboard is set, then the timer.  It is called    *)
(* from a screen of the last render, by a press, before which the effects of *)
(* that render have run.                                                     *)
copyWithAutoClear(c) ==
    /\ appState = "active" /\ unlocked /\ ~renderDue /\ copyAt[c] = "none"
    /\ CopyGoes(c, "set")
    /\ UNCHANGED <<clipboard, wiping, forgotten, LockVars>>

(* Slip: the timer is set only in front.                                     *)
CopySetInFront(c) ==
    /\ copyAt[c] = "set"
    /\ clipboard' = c
    /\ CopyGoes(c, IF appState = "active" THEN "timer" ELSE "done")
    /\ UNCHANGED <<wiping, forgotten, LockVars>>

CopySet(c) ==
    /\ copyAt[c] = "set"
    /\ \/ clipboard' = c /\ CopyGoes(c, "timer")
       \/ ClipboardFails /\ CopyGoes(c, "done") /\ UNCHANGED clipboard
    /\ UNCHANGED <<wiping, forgotten, LockVars>>

(* The timer reads the clipboard, and clears it when it still has the text.  *)
ClearTimer(c) ==
    /\ copyAt[c] = "timer"
    /\ CopyGoes(c, "read")
    /\ UNCHANGED <<clipboard, wiping, forgotten, LockVars>>

ClearReads(c) ==
    /\ copyAt[c] = "read"
    /\ \/ CopyGoes(c, IF clipboard = c THEN "clear" ELSE "done") /\ UNCHANGED forgotten
       \/ ClipboardFails /\ CopyGoes(c, "done") /\ forgotten' = forgotten \cup ({c} \cap {clipboard})
    /\ UNCHANGED <<clipboard, wiping, LockVars>>

ClearSets(c) ==
    /\ copyAt[c] = "clear"
    /\ CopyGoes(c, "done")
    /\ \/ clipboard' = "empty" /\ UNCHANGED forgotten
       \/ ClipboardFails /\ forgotten' = forgotten \cup ({c} \cap {clipboard}) /\ UNCHANGED clipboard
    /\ UNCHANGED <<wiping, LockVars>>

WipeSets ==
    /\ wiping /\ wiping' = FALSE
    /\ \/ clipboard' = "empty" /\ UNCHANGED forgotten
       \/ /\ ClipboardFails /\ UNCHANGED clipboard
          /\ forgotten' = forgotten \cup {c \in Copies : copyAt[c] = "done" /\ clipboard = c}
    /\ UNCHANGED <<copyAt, LockVars>>

UserCopies ==
    /\ clipboard' = "own"
    /\ UNCHANGED <<copyAt, wiping, forgotten, LockVars>>

(* The cleanup of the effect clears every timer.                             *)
RenderCleanup ==
    /\ armed' = armed \ {autoLock} /\ autoLock' = NoTimer
    /\ copyAt' = TimersCleared
    /\ forgotten' = forgotten \cup {c \in Copies : copyAt[c] = "timer" /\ clipboard = c}

(* The user, or the system, changes the theme.                               *)
ThemeChanges ==
    /\ renderDue' = TRUE
    /\ UNCHANGED <<appState, unlocked, autoLock, armed, lockedInFront, ClipVars>>

(* A render: the old effect is cleaned up, and the new one listens to the    *)
(* next change of the state.                                                 *)
useAppProtection ==
    /\ renderDue /\ renderDue' = FALSE
    /\ RenderCleanup
    /\ UNCHANGED <<appState, unlocked, clipboard, wiping, lockedInFront>>

ProtectionNext ==
    \/ UnlockVault \/ ThemeChanges \/ BackInFront \/ WipeSets \/ UserCopies
    \/ useAppProtection \/ onPageHide
    \/ \E state \in {"inactive", "background"} : handleAppStateChange(state)
    \/ \E t \in LockTimers : TimerLocks(t)
    \/ \E c \in Copies : \/ copyWithAutoClear(c) \/ CopySet(c) \/ ClearTimer(c)
                         \/ ClearReads(c) \/ ClearSets(c)

ProtectionSpec == ProtectionInit /\ [][ProtectionNext]_ProtectionVars

-----------------------------------------------------------------------------
(* Something is armed or under way that removes the copy.                    *)
WillBeCleared(c) == wiping \/ copyAt[c] \in {"set", "timer", "read", "clear"}

(* A copied password is never forgotten on the clipboard ("so the clipboard  *)
(* is wiped after the configured timeout", copyPassword of usePasswords): its *)
(* timer is armed, or its call or the wipe of the clipboard is at work.      *)
SecretIsTimed == \A c \in Copies : clipboard = c => WillBeCleared(c)

(* What the code keeps of that: whatever the order in which copies, timers,  *)
(* locks and changes of the application state come, a password is forgotten  *)
(* only by a render of the root layout, whose cleanup clears the timer it    *)
(* finds armed, or by a call to the clipboard that failed.                   *)
SecretIsCleared == \A c \in Copies \ forgotten : clipboard = c => WillBeCleared(c)

(* Away and unlocked, a timer is armed that will lock.                       *)
AwayIsTimed == appState # "active" /\ unlocked => armed # {}

(* Back in front, no timer locks the vault.                                  *)
NoLockInFront == ~lockedInFront
=============================================================================
