--------------------------- MODULE SessionRegistry ---------------------------
(***************************************************************************)
(* What the sessions of one account promise, without handlers or stores.  A  *)
(* login opens a session with one refresh token.  A token is replaced by a   *)
(* successor at most once, in the session and the era of the login, and only *)
(* after it was admitted: seen at a moment when its era was current and the  *)
(* account open.  Ending all sessions starts a new era, so that a token of   *)
(* an earlier one is never admitted again; a closed account admits none.     *)
(***************************************************************************)
EXTENDS Naturals

CONSTANTS Tokens, NoToken

VARIABLES
    era, closed,      \* how often all sessions were ended; the account is closed
    issued, spent,    \* tokens handed out; those of them that were replaced
    eraOf, sessionOf, \* the era of a token, the token its session began with
    admitted          \* tokens found good, whose replacement may be under way

account == <<era, closed>>
tokens == <<issued, spent, eraOf, sessionOf>>
registryVars == <<account, tokens, admitted>>

RegistryInit ==
    /\ era = 0 /\ closed = FALSE
    /\ issued = {} /\ spent = {} /\ admitted = {}
    /\ eraOf = [t \in Tokens |-> 0] /\ sessionOf = [t \in Tokens |-> NoToken]

Hand(t, e, s) ==
    /\ t \notin issued
    /\ issued' = issued \cup {t}
    /\ eraOf' = [eraOf EXCEPT ![t] = e]
    /\ sessionOf' = [sessionOf EXCEPT ![t] = s]

(* A login may have begun in an earlier era.                                 *)
Login(t) ==
    /\ \E e \in 0..era : Hand(t, e, t)
    /\ UNCHANGED <<account, spent, admitted>>

Admit(t) ==
    /\ t \in issued /\ eraOf[t] = era /\ ~closed
    /\ admitted' = admitted \cup {t}
    /\ UNCHANGED <<account, tokens>>

Replace(t, u) ==
    /\ t \in admitted \ spent
    /\ Hand(u, eraOf[t], sessionOf[t])
    /\ spent' = spent \cup {t}
    /\ admitted' \in {admitted, admitted \ {t}}
    /\ UNCHANGED account

(* A replacement is refused, fails, or has its answer.                       *)
Withdraw ==
    /\ admitted' \subseteq admitted
    /\ UNCHANGED <<account, tokens>>

EndAll ==
    /\ era' = era + 1
    /\ closed' \in {closed, TRUE}
    /\ UNCHANGED <<tokens, admitted>>

RegistryNext ==
    \/ \E t \in Tokens : Login(t) \/ Admit(t)
    \/ \E t, u \in Tokens : Replace(t, u)
    \/ Withdraw \/ EndAll

RegistrySpec == RegistryInit /\ [][RegistryNext]_registryVars
=============================================================================
